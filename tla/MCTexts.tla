------------------------------ MODULE MCTexts ------------------------------
(* The parts of the library that read and write texts, for TLC: reader     *)
(* says which of them this behaviour is about.  A text grows as            *)
(* TextReading says; a response and a URI object go through their own      *)
(* steps.  Texts are code lists, with the text in a comment.               *)
EXTENDS UriString, Response, Unicode, TextReading, TLC

Addresses == INSTANCE Ip
Uri == INSTANCE Uri
Mustache == INSTANCE Mustache
\* What lies behind the two arrays begins with a zero.
Cookies == INSTANCE Cookies WITH PastValues <- {}, PastSpaces <- {}

all_vars == <<text_vars, response_vars, uri_vars>>
-----------------------------------------------------------------------------
TextsToRead ==
    "ipv4" :> [bound |-> 5,
        \* "", "1.9."
        starts |-> {<<>>, <<49, 46, 57, 46>>},
        \* 0 1 . 255 32 .9 /
        pieces |-> {<<48>>, <<49>>, <<46>>, <<50, 53, 53>>, <<51, 50>>, <<46, 57>>, <<47>>}] @@
    "ipv6" :> [bound |-> 5,
        \* "", "1:2:3:4:5:6:", "1:2:3:4:5:6::", "1:2:3:4:5:"
        starts |-> {<<>>, <<49, 58, 50, 58, 51, 58, 52, 58, 53, 58, 54, 58>>,
        <<49, 58, 50, 58, 51, 58, 52, 58, 53, 58, 54, 58, 58>>,
        <<49, 58, 50, 58, 51, 58, 52, 58, 53, 58>>},
        \* : A :: . 1.0.2 256 /6 g
        pieces |-> {<<58>>, <<65>>, <<58, 58>>, <<46>>, <<49, 46, 48, 46, 50>>, <<50, 53, 54>>,
        <<47, 54>>, <<103>>}] @@
    \* The 16 octets of an address, two at a time.
    "octets" :> [bound |-> 8, starts |-> {<<>>}, pieces |-> {<<0, 0>>, <<0, 1>>, <<255, 255>>}] @@
    \* Code points of every length in UTF-8; marks of four classes, composites, Hangul.
    "code points" :> [bound |-> 4, starts |-> {<<>>},
        pieces |-> {<<97>>, <<769>>, <<770>>, <<803>>, <<119141>>, <<12441>>, <<7841>>, <<44032>>,
        <<4449>>, <<4520>>, <<2047>>, <<2048>>}] @@
    "uri" :> [bound |-> 4,
        \* file: http: http:// http://aa a: a:// https://aa@
        starts |-> {<<102, 105, 108, 101, 58>>, <<104, 116, 116, 112, 58>>,
        <<104, 116, 116, 112, 58, 47, 47>>, <<104, 116, 116, 112, 58, 47, 47, 97, 97>>,
        <<97, 58>>, <<97, 58, 47, 47>>, <<104, 116, 116, 112, 115, 58, 47, 47, 97, 97, 64>>},
        \* \ ab : / ? # @ 80 [::1] %41 .
        pieces |-> {<<92>>, <<97, 98>>, <<58>>, <<47>>, <<63>>, <<35>>, <<64>>, <<56, 48>>,
        <<91, 58, 58, 49, 93>>, <<37, 52, 49>>, <<46>>}] @@
    "host" :> [bound |-> 4, starts |-> {<<>>},
        \* 0 1 . 256 0x a 8 16777216
        pieces |-> {<<48>>, <<49>>, <<46>>, <<50, 53, 54>>, <<48, 120>>, <<97>>, <<56>>,
        <<49, 54, 55, 55, 55, 50, 49, 54>>}] @@
    "template" :> [bound |-> 5, starts |-> {<<>>},
        \* lines: {{#a}} {{#b}} {{^b}} {{/a}} {{/b}} x{{s}} {{{s}}}x
        pieces |-> {<<123, 123, 35, 97, 125, 125, 10>>, <<123, 123, 35, 98, 125, 125, 10>>,
        <<123, 123, 94, 98, 125, 125, 10>>, <<123, 123, 47, 97, 125, 125, 10>>,
        <<123, 123, 47, 98, 125, 125, 10>>, <<120, 123, 123, 115, 125, 125, 10>>,
        <<123, 123, 123, 115, 125, 125, 125, 120, 10>>}] @@
    "cookies" :> [bound |-> 4,
        \* "", "k=v; "
        starts |-> {<<>>, <<107, 61, 118, 59, 32>>},
        \* k=v "w" "; " ; space = Path=/x max-age=5 expires=z secure samesite=Lax foo=1
        pieces |-> {<<107, 61, 118>>, <<34, 119, 34>>, <<59, 32>>, <<59>>, <<32>>, <<61>>,
        <<80, 97, 116, 104, 61, 47, 120>>, <<109, 97, 120, 45, 97, 103, 101, 61, 53>>,
        <<101, 120, 112, 105, 114, 101, 115, 61, 122>>, <<115, 101, 99, 117, 114, 101>>,
        <<115, 97, 109, 101, 115, 105, 116, 101, 61, 76, 97, 120>>,
        <<102, 111, 111, 61, 49>>}] @@
    "percent" :> [bound |-> 4, starts |-> {<<>>},
        \* % a / space ? : and a byte of UTF-8
        pieces |-> {<<37>>, <<97>>, <<47>>, <<32>>, <<63>>, <<58>>, <<200>>}]

\* a is true, b is false, s is "<".
Data == << [key |-> <<97>>, kind |-> "bool", value |-> TRUE], [key |-> <<98>>, kind |-> "bool", value |-> FALSE],
           [key |-> <<115>>, kind |-> "string", value |-> <<60>>] >>

Ccc == 12441 :> 8 @@ 769 :> 230 @@ 770 :> 230 @@ 803 :> 220 @@ 119141 :> 216
Decomp == 225 :> <<97, 769>> @@ 226 :> <<97, 770>> @@ 7841 :> <<97, 803>> @@ 7853 :> <<97, 803, 770>>
Compose == 97 :> (769 :> 225 @@ 770 :> 226 @@ 803 :> 7841) @@ 7841 :> (770 :> 7853)

\* "a", "b_"
TwoPieces == {<<"a">>, <<"b", "_">>}

\* http or nothing, u or u:p, h or a.b.c or [::1], 80, / or /a/../b, k=/v, f/?, and
\* urn:a:b, urn:a:b?q, mailto:u@h, /p#f, p?q, file:///p, http://h, http://h:80,
\* http://h?q, http://h/a@b, http://h/a:b, //h/p?q@k/, s://.z/p, s://1.2.3.4/../b/.
MCUris ==
    [scheme : {<<>>, <<104, 116, 116, 112>>}, net : {TRUE}, user_info : {<<>>, <<117>>, <<117, 58, 112>>},
     host : {<<104>>, <<97, 46, 98, 46, 99>>, <<91, 58, 58, 49, 93>>}, port : {<<>>, <<56, 48>>},
     path : {<<47>>, <<47, 97, 47, 46, 46, 47, 98>>}, queries : {<<>>, <<107, 61, 47, 118>>}, fragment : {<<>>, <<102, 47, 63>>}]
    \cup
    {[scheme |-> <<117, 114, 110>>, net |-> FALSE, user_info |-> <<>>, host |-> <<>>, port |-> <<>>, path |-> <<97, 58, 98>>, queries |-> <<>>, fragment |-> <<>>],
     [scheme |-> <<117, 114, 110>>, net |-> FALSE, user_info |-> <<>>, host |-> <<>>, port |-> <<>>, path |-> <<97, 58, 98>>, queries |-> <<113>>, fragment |-> <<>>],
     [scheme |-> <<109, 97, 105, 108, 116, 111>>, net |-> FALSE, user_info |-> <<>>, host |-> <<>>, port |-> <<>>, path |-> <<117, 64, 104>>, queries |-> <<>>, fragment |-> <<>>],
     [scheme |-> <<>>, net |-> FALSE, user_info |-> <<>>, host |-> <<>>, port |-> <<>>, path |-> <<47, 112>>, queries |-> <<>>, fragment |-> <<102>>],
     [scheme |-> <<>>, net |-> FALSE, user_info |-> <<>>, host |-> <<>>, port |-> <<>>, path |-> <<112>>, queries |-> <<113>>, fragment |-> <<>>],
     [scheme |-> <<102, 105, 108, 101>>, net |-> TRUE, user_info |-> <<>>, host |-> <<>>, port |-> <<>>, path |-> <<47, 112>>, queries |-> <<>>, fragment |-> <<>>],
     [scheme |-> <<104, 116, 116, 112>>, net |-> TRUE, user_info |-> <<>>, host |-> <<104>>, port |-> <<>>, path |-> <<>>, queries |-> <<>>, fragment |-> <<>>],
     [scheme |-> <<104, 116, 116, 112>>, net |-> TRUE, user_info |-> <<>>, host |-> <<104>>, port |-> <<56, 48>>, path |-> <<>>, queries |-> <<>>, fragment |-> <<>>],
     [scheme |-> <<104, 116, 116, 112>>, net |-> TRUE, user_info |-> <<>>, host |-> <<104>>, port |-> <<>>, path |-> <<>>, queries |-> <<113>>, fragment |-> <<>>],
     [scheme |-> <<104, 116, 116, 112>>, net |-> TRUE, user_info |-> <<>>, host |-> <<104>>, port |-> <<>>, path |-> <<47, 97, 64, 98>>, queries |-> <<>>, fragment |-> <<>>],
     [scheme |-> <<104, 116, 116, 112>>, net |-> TRUE, user_info |-> <<>>, host |-> <<104>>, port |-> <<>>, path |-> <<47, 97, 58, 98>>, queries |-> <<>>, fragment |-> <<>>],
     [scheme |-> <<>>, net |-> TRUE, user_info |-> <<>>, host |-> <<104>>, port |-> <<>>, path |-> <<47, 112>>, queries |-> <<113, 64, 107, 47>>, fragment |-> <<>>],
     [scheme |-> <<115>>, net |-> TRUE, user_info |-> <<>>, host |-> <<46, 122>>, port |-> <<>>, path |-> <<47, 112>>, queries |-> <<>>, fragment |-> <<>>],
     [scheme |-> <<115>>, net |-> TRUE, user_info |-> <<>>, host |-> <<49, 46, 50, 46, 51, 46, 52>>, port |-> <<>>, path |-> <<47, 46, 46, 47, 98, 47, 46>>, queries |-> <<>>, fragment |-> <<>>]}
MCValues == [scheme |-> {<<>>, <<102, 116, 112>>}, user_info |-> {<<>>, <<120>>},
             host |-> {<<>>, <<99, 46, 100>>, <<58, 58, 49>>}, port |-> {<<56>>},
             path |-> {<<>>, <<47, 120>>, <<46, 47, 121>>},
             queries |-> {<<>>, <<113>>, <<63, 113>>}, fragment |-> {<<>>, <<103>>}, label |-> {<<>>, <<122>>}]
-----------------------------------------------------------------------------
MCInit ==
    /\ ResponseInit
    /\ \/ /\ TextInit
          /\ data = <<>> /\ cache = Unparsed /\ asked = [promised |-> FALSE] /\ sets = 0
       \/ reader = "response" /\ text = <<>> /\ left = 0
          /\ data = <<>> /\ cache = Unparsed /\ asked = [promised |-> FALSE] /\ sets = 0
       \/ reader = "uri object" /\ text = <<>> /\ left = 0 /\ UriInit

MCNext ==
    \/ Grow /\ UNCHANGED <<response_vars, uri_vars>>
    \/ reader = "response" /\ ResponseNext /\ UNCHANGED <<text_vars, uri_vars>>
    \/ reader = "uri object" /\ UriNext /\ UNCHANGED <<text_vars, response_vars>>

MCSpec == MCInit /\ [][MCNext]_all_vars
-----------------------------------------------------------------------------
\* inet_pton4 and inet_pton6 accept exactly the addresses and prefixes that
\* the RFCs write, and give their octets and prefix.
AddressesExact == (reader = "ipv4" => Addresses!Pton4Exact(text)) /\ (reader = "ipv6" => Addresses!Pton6Exact(text))

\* What inet_ntop6 writes of an address is read back as the same address.
AddressesPrinted == reader = "octets" /\ left = 0 => Addresses!PrintedIsRead(text)

\* canonical_reorder gives the canonical order, and normalize one form to
\* all equivalent texts.
NormalFormsExact == reader = "code points" => ReorderExact(text) /\ NormalForms(text)

\* parse_uri gives a well-formed URI its parts, and takes the parts of any
\* text from it in order, without overlap.
UriPartsExact == reader = "uri" => Uri!UriPartsExact(text)

\* The store of offsets and the store of views answer alike.
UriIndexesAgree == reader = "uri" => Uri!IndexesAgree(text)

\* A host that ends in a number is read as the IPv4 address it is.
HostNumbersRead == reader = "host" => Uri!HostNumbersExact(text)

\* The parser closes every section it opened, in order, and rendering gives
\* what the template says.
TemplatesRendered == reader = "template" => Mustache!SectionsNest(text) /\ Mustache!RenderedExact(text, Data)

\* Well-formed Cookie and Set-Cookie headers are read as they are written.
CookiesRead == reader = "cookies" => Cookies!CookiesExact(text)

\* A URI object answers with the parts it was made from or was given: the
\* getters read at offsets that earlier getters and setters have moved.
UriObjectPartsAreRead == reader = "uri object" => PartsAreRead

\* Asking a URI object for one part changes no other answer: the getters are
\* const, but parse_scheme, parse_user_info and the others fill mutable offsets.
\* This holds of scheme, path, queries and fragment for every text, and of user
\* info, host and port only where the text of the URI is Unmistakable: these are
\* cut at what is known of the end of the authority when they are asked for.
UriObjectAnswersDoNotAge == reader = "uri object" => AnswersDoNotAge
=============================================================================

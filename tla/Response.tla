------------------------------ MODULE Response ------------------------------
(* A response an application keeps and serves: a body that holds nothing,  *)
(* text, bytes (cstream) or a stream, whichever interface wrote first      *)
(* (http/body.hpp, http/bodies/string.hpp), its Content-Length headers     *)
(* (http/response.hpp, http/headers.hpp), and the two ways a body leaves:  *)
(* through beast (beast_server.hpp) or CGI (cgi.hpp).                      *)
EXTENDS Naturals, Sequences, FiniteSets, Functions

CONSTANTS
    BodyPieces, \* what an application writes at once, sequences of characters
    Blank,      \* the character stream extraction stops at
    Nul,        \* what resize() fills with
    MaxWritten, \* bound: characters given to one body
    MaxAdds,    \* bound: calls of response.add
    MaxServed   \* bound: times the response is served

ASSUME ResponseAssumption ==
    \A p \in BodyPieces : p \in Seq(Range(p)) /\ Len(p) > 0 /\ Nul \notin Range(p)

VARIABLES
    body,       \* kind, data, at (cstream: index; stream: the get position), eof (stream)
    lengths,    \* the values of the Content-Length headers, in order
    given,      \* the characters given since the body was last emptied
    through,    \* the interfaces used on it, and "read", "clear" and "add" (response.add)
    sent,       \* what was served last: the text and the length told
    served,     \* how often something was served
    running     \* the program has not ended in a read

response_vars == <<body, lengths, given, through, sent, served, running>>
NotSent == UNCHANGED <<sent, served, running>>

Kinds == {"nothing", "text", "cstream", "stream"}
Unknown == 99       \* npos
NoBody == [kind |-> "nothing", data |-> <<>>, at |-> 0, eof |-> FALSE]
Held(kind, data) == [NoBody EXCEPT !.kind = kind, !.data = data]

ResponseInit ==
    /\ body = NoBody /\ lengths = <<>> /\ given = <<>> /\ through = {}
    /\ sent = [text |-> <<>>, length |-> 0] /\ served = 0 /\ running = TRUE

\* New bytes go in front of those that are there.
CWrite(b, p) == [b EXCEPT !.data = p \o @]

\* Mistake: the index is not taken from the size.
CReadablePast(b) == SubSeq(b.data \o [i \in 1 .. b.at |-> Nul], b.at + 1, b.at + Len(b.data))

\* What read() copies when everything is asked for, and the index after it.
\* With the index beyond the size (Overread) the count is negative: nothing is
\* copied, and the index goes back to the size.
CReadable(b) == SubSeq(b.data, b.at + 1, Len(b.data))
CDrained(b) == [b EXCEPT !.at = Len(b.data)]
Overread(b) == b.kind = "cstream" /\ b.at > Len(b.data)

\* A stream that met its end takes no more.
SWrite(b, p) == IF b.eof THEN b ELSE [b EXCEPT !.data = @ \o p]

\* One word from a stream (operator>>), and the stream afterwards.
WordEnds(b) ==
    LET starts == {i \in b.at + 1 .. Len(b.data) : b.data[i] # Blank}
        start == IF starts = {} THEN Len(b.data) + 1 ELSE CHOOSE i \in starts : \A j \in starts : i <= j
        ends == {i \in start .. Len(b.data) : b.data[i] = Blank}
    IN <<start, IF ends = {} THEN Len(b.data) + 1 ELSE CHOOSE i \in ends : \A j \in ends : i <= j>>
SWord(b) == IF b.eof THEN <<>> ELSE SubSeq(b.data, WordEnds(b)[1], WordEnds(b)[2] - 1)
SAfterWord(b) ==
    IF b.eof THEN b ELSE [b EXCEPT !.at = WordEnds(b)[2] - 1, !.eof = WordEnds(b)[2] > Len(b.data)]

\* as_string: what a copy of the body holds as text.  Bytes fill a string of
\* the body's size; a stream gives one word; both are used up.
as_string(b) ==
    CASE b.kind = "cstream" -> CReadable(b) \o [i \in 1 .. Len(b.data) - Len(CReadable(b)) |-> Nul]
      [] b.kind = "stream" -> SWord(b)
      [] OTHER -> b.data
AfterAsString(b) ==
    CASE b.kind = "cstream" -> CDrained(b)
      [] b.kind = "stream" -> SAfterWord(b)
      [] OTHER -> b

\* body_reader::size
SizeOf(b) == IF b.kind = "stream" THEN Unknown ELSE Len(b.data)

\* append and write, which differ in what they make of an empty body.
PutInto(b, p, new) ==
    CASE b.kind = "nothing" -> Held(new, p)
      [] b.kind = "text" -> [b EXCEPT !.data = @ \o p]
      [] b.kind = "cstream" -> CWrite(b, p)
      [] b.kind = "stream" -> SWrite(b, p)

Fits(p) == Len(given) + Len(p) <= MaxWritten /\ given' = given \o p

append(p) ==
    /\ Fits(p)
    /\ body' = PutInto(body, p, "text")
    /\ through' = through \cup {"text"}
    /\ UNCHANGED lengths /\ NotSent

write(p) ==
    /\ Fits(p)
    /\ body' = PutInto(body, p, "cstream")
    /\ through' = through \cup {"cstream"}
    /\ UNCHANGED lengths /\ NotSent

\* operator<< throws bad_cross_talk on text and bytes.
Insert(p) ==
    /\ body.kind \in {"nothing", "stream"}
    /\ Fits(p)
    /\ body' = IF body.kind = "nothing" THEN Held("stream", p) ELSE SWrite(body, p)
    /\ through' = through \cup {"stream"}
    /\ UNCHANGED lengths /\ NotSent

\* response.add: the header tells the size of the piece; << and write get
\* the piece of a stream or a cstream body.
ResponseAdd(p) ==
    /\ Fits(p) /\ Len(lengths) < MaxAdds
    /\ lengths' = Append(lengths, Len(p))
    /\ body' = PutInto(body, p, "text")
    /\ through' = through \cup {"add", IF body.kind = "nothing" THEN "text" ELSE body.kind}
    /\ NotSent

\* Mistake: the old text stays.
ResponseSetKeeping(p) ==
    /\ Len(p) <= MaxWritten
    /\ given' = p
    /\ body' = Held("text", IF body.kind = "text" THEN body.data \o p ELSE p)
    /\ through' = {"text"} \cup (through \cap {"add"})
    /\ UNCHANGED lengths /\ NotSent

\* response.set and =: clear, then a text of its own.
ResponseSet(p) ==
    /\ Len(p) <= MaxWritten
    /\ given' = p
    /\ body' = Held("text", p)
    /\ through' = {"text"} \cup (through \cap {"add"})
    /\ UNCHANGED lengths /\ NotSent

\* clear() of a stream reads to its end, which leaves eof set; of bytes, it
\* keeps the index.
clear ==
    /\ body' = CASE body.kind = "stream" -> [body EXCEPT !.at = Len(body.data), !.eof = TRUE]
                 [] body.kind # "stream" -> [body EXCEPT !.data = <<>>]
    /\ given' = <<>>
    /\ through' = through \cup {"clear"}
    /\ UNCHANGED lengths /\ NotSent

reset ==
    /\ body' = NoBody /\ given' = <<>>
    /\ through' = through \cap {"add"}
    /\ UNCHANGED lengths /\ NotSent

\* The application reads its own body: some bytes, or a word.
Read ==
    /\ \/ /\ body.kind = "cstream"
          /\ \/ \E n \in 1 .. Len(CReadable(body)) : body' = [body EXCEPT !.at = @ + n]
             \/ Overread(body) /\ body' = CDrained(body)
       \/ body.kind = "stream" /\ body' = SAfterWord(body)
    /\ through' = through \cup {"read"}
    /\ UNCHANGED <<lengths, given>> /\ NotSent

\* calculate_default_headers: one Content-Length unless there is one.
WithLength(hs, b) == IF hs = <<>> THEN <<SizeOf(b)>> ELSE hs

\* A read with the index beyond the size may end the program: std::clamp is
\* given bounds in the wrong order, which a build with assertions refuses, and
\* beast appends the negative count as a length, in a function that is noexcept.
EndsInRead ==
    /\ Overread(body)
    /\ running' = FALSE
    /\ UNCHANGED <<body, lengths, given, through, sent, served>>

\* What goes out for body b: beast takes the text, the bytes, or one word of
\* a stream, and counts the length itself; CGI writes all that is left of a
\* stream, and every header as it is.  A negative count writes nothing to CGI.
BeastText(b) == CASE b.kind = "text" -> b.data
                  [] b.kind = "cstream" -> CReadable(b)
                  [] b.kind = "stream" -> SWord(b)
                  [] b.kind = "nothing" -> <<>>
CgiText(b) == IF b.kind = "stream" THEN SubSeq(b.data, b.at + 1, Len(b.data)) ELSE BeastText(b)

Sent(server, b) ==
    IF server = "beast" THEN [text |-> BeastText(b), length |-> Len(BeastText(b))]
    ELSE [text |-> CgiText(b), length |-> Head(WithLength(lengths, b))]

\* A handler returns a copy of the response, which is text, ...
ServeCopy(server) ==
    /\ served < MaxServed /\ served' = served + 1
    /\ sent' = Sent(server, Held("text", as_string(body)))
    /\ body' = AfterAsString(body)
    /\ through' = through \cup (IF body.kind \in {"cstream", "stream"} THEN {"read"} ELSE {})
    /\ UNCHANGED <<lengths, given, running>>

\* ... or the response itself.  Beast does not outlive a negative count.
ServeMoved(server) ==
    /\ server = "beast" => ~Overread(body)
    /\ served < MaxServed /\ served' = served + 1
    /\ sent' = Sent(server, body)
    /\ body' = NoBody /\ lengths' = <<>> /\ given' = <<>> /\ through' = {}
    /\ UNCHANGED running

ResponseNext ==
    /\ running
    /\ \/ \E p \in BodyPieces : append(p) \/ write(p) \/ Insert(p) \/ ResponseAdd(p) \/ ResponseSet(p)
       \/ clear \/ reset \/ Read \/ EndsInRead
       \/ \E server \in {"beast", "cgi"} : ServeCopy(server) \/ ServeMoved(server)

ResponseSpec == ResponseInit /\ [][ResponseNext]_response_vars
-----------------------------------------------------------------------------
Count(s, c) == Cardinality({i \in DOMAIN s : s[i] = c})
Serving == served' > served

\* A response that was only written as text leaves whole, through beast and
\* CGI alike, moved or copied any number of times, whatever was set, cleared
\* and appended before; its length is told right unless response.add told
\* the length of a piece.
TextServedWhole ==
    [][Serving /\ through \subseteq {"text", "add", "clear"}
         => /\ sent'.text = given
            /\ "add" \notin through => sent'.length = Len(given)]_response_vars

\* What a response itself serves was given to it since it was last emptied,
\* on every interface, and bytes nobody has read are all there, though later
\* writes come first.  No call and no serving ends the program, unless bytes
\* that had been read, or copied, were cleared.
NothingInvented ==
    [][/\ Serving /\ body' = NoBody
            => /\ Range(sent'.text) \subseteq Range(given)
               /\ through = {"cstream"} /\ body.at = 0 =>
                     \A c \in Range(given) : Count(sent'.text, c) = Count(given, c)
       /\ running' \/ {"cstream", "read", "clear"} \subseteq through]_response_vars
=============================================================================

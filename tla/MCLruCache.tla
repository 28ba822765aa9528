---------------------------- MODULE MCLruCache ----------------------------
(* Instances of LruCache for TLC.                                          *)
EXTENDS LruCache
===========================================================================

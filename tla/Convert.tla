-------------------------------- MODULE Convert --------------------------------
(***************************************************************************)
(* Values and the strings and bytes that stand for them.  A cid, an        *)
(* address, a multiaddress, a peer id, a URL or a time is a value; Text(v) *)
(* is the string that stands for it, Bytes(v) the bytes and Garbled a      *)
(* string that stands for nothing.  Absent is a nil pointer.               *)
(***************************************************************************)
EXTENDS Sequences

Text(v) == <<"text", v>>

Bytes(v) == <<"bytes", v>>

Garbled == <<"garbled">>

Parses(text) == text # Garbled

Parse(text) == text[2]

ParsesAll(texts) == \A i \in DOMAIN texts : Parses(texts[i])

ParseAll(texts) == [i \in DOMAIN texts |-> Parse(texts[i])]

TextAll(vs) == [i \in DOMAIN vs |-> Text(vs[i])]

Absent == <<>>

Present(v) == <<v>>

================================================================================

------------------------------ MODULE ChatBuffer ------------------------------
(***************************************************************************)
(* The chat history of a room as the in-memory buffer keeps it: appending  *)
(* is one step, and only the newest entries stay.  It is what the buffer   *)
(* promises; RedisChatBuffer implements it with two commands.              *)
(***************************************************************************)
EXTENDS Naturals, Sequences

CONSTANTS
    Entries,
    Capacity        \* entries kept

VARIABLE
    list            \* the entries list answers, oldest first

Newest(s) == IF Len(s) > Capacity THEN SubSeq(s, Len(s) - Capacity + 1, Len(s)) ELSE s

BufferInit == list = <<>>

AppendEntry == \E e \in Entries : list' = Newest(Append(list, e))

BufferSpec == BufferInit /\ [][AppendEntry]_list
=============================================================================

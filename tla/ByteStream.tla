------------------------------ MODULE ByteStream ------------------------------
(***************************************************************************)
(* What a TCP receive path promises its application: the bytes the sender  *)
(* wrote, in order, without duplicates, through a buffer of Cap bytes.     *)
(* The receiver accepts the next bytes of the stream (possibly fewer than  *)
(* were offered), the application reads from the front of the buffer, and  *)
(* tearing the connection down discards what is buffered and ends the      *)
(* stream.                                                                 *)
(***************************************************************************)
EXTENDS Integers, Sequences

CONSTANTS Cap, Bytes

VARIABLES
    sent,    \* what the sending application has written
    buf,     \* accepted and not yet read
    got,     \* what the receiving application has read
    open     \* the receiving end still accepts bytes

vars == <<sent, buf, got, open>>

\* How far into sent the receiver has accepted.
Accepted == Len(got) + Len(buf)

Init == sent = << >> /\ buf = << >> /\ got = << >> /\ open = TRUE

Write(d) == sent' = sent \o d /\ UNCHANGED <<buf, got, open>>

Accept(k) ==
    /\ open
    /\ Accepted + k <= Len(sent)
    /\ Len(buf) + k <= Cap
    /\ buf' = buf \o SubSeq(sent, Accepted + 1, Accepted + k)
    /\ UNCHANGED <<sent, got, open>>

Read(k) ==
    /\ k <= Len(buf)
    /\ got' = got \o SubSeq(buf, 1, k)
    /\ buf' = SubSeq(buf, k + 1, Len(buf))
    /\ UNCHANGED <<sent, open>>

Abort == buf' = << >> /\ open' = FALSE /\ UNCHANGED <<sent, got>>

Next ==
    \/ \E n \in 1 .. Cap : \E d \in [1 .. n -> Bytes] : Write(d)
    \/ \E k \in 1 .. Cap : Accept(k) \/ Read(k)
    \/ Abort

Spec == Init /\ [][Next]_vars

====

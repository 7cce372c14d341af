----------------------------- MODULE StringLib -----------------------------
(***************************************************************************)
(* The byte and string routines of src/string.c, each loop a RECURSIVE     *)
(* operator over a memory m (a function from addresses to bytes, 0 being   *)
(* NUL) and pointers into it; a routine that writes returns the new        *)
(* memory.  Comparisons return the code's int, NULL is NULLPTR.            *)
(***************************************************************************)
EXTENDS Integers, Sequences, SequencesExt, FiniteSets, FiniteSetsExt

CONSTANTS
    StrMemSize,    \* bytes of memory the routines are checked on
    NameSize       \* sizeof(((struct process *)0)->name), 32 in the code

NULLPTR == -1

RECURSIVE strlenFrom(_, _, _)
strlenFrom(m, s, len) == IF m[s + len] # 0 THEN strlenFrom(m, s, len + 1) ELSE len
strlen(m, s) == strlenFrom(m, s, 0)

RECURSIVE strcmp(_, _, _)
strcmp(m, s1, s2) ==
    IF m[s1] # 0 /\ m[s1] = m[s2] THEN strcmp(m, s1 + 1, s2 + 1) ELSE m[s1] - m[s2]

RECURSIVE strncmp(_, _, _, _)
strncmp(m, s1, s2, n) ==
    IF n # 0 /\ m[s1] # 0 /\ m[s1] = m[s2] THEN strncmp(m, s1 + 1, s2 + 1, n - 1)
    ELSE IF n # 0 THEN m[s1] - m[s2] ELSE 0

RECURSIVE memcmp(_, _, _, _)
memcmp(m, s1, s2, n) ==
    IF n = 0 THEN 0
    ELSE IF m[s1] # m[s2] THEN m[s1] - m[s2] ELSE memcmp(m, s1 + 1, s2 + 1, n - 1)

RECURSIVE memchr(_, _, _, _)
memchr(m, s, c, n) ==
    IF n = 0 THEN NULLPTR ELSE IF m[s] = c % 256 THEN s ELSE memchr(m, s + 1, c, n - 1)

(* The loop stops at the NUL before comparing, so strchr(s, 0) is NULL.    *)
RECURSIVE strchr(_, _, _)
strchr(m, s, c) ==
    IF m[s] = 0 THEN NULLPTR ELSE IF m[s] = c THEN s ELSE strchr(m, s + 1, c)

RECURSIVE strspn(_, _, _)
strspn(m, s, accept) ==
    IF m[s] # 0 /\ strchr(m, accept, m[s]) # NULLPTR THEN 1 + strspn(m, s + 1, accept) ELSE 0

RECURSIVE strcspn(_, _, _)
strcspn(m, s, reject) ==
    IF m[s] = 0 \/ strchr(m, reject, m[s]) # NULLPTR THEN 0 ELSE 1 + strcspn(m, s + 1, reject)

strstr(m, h, nd) ==
    LET hlen == strlen(m, h)
        nlen == strlen(m, nd)
        RECURSIVE Scan(_)
        Scan(i) == IF i > hlen - nlen THEN NULLPTR
                   ELSE IF memcmp(m, h + i, nd, nlen) = 0 THEN h + i ELSE Scan(i + 1)
    IN  IF hlen >= nlen THEN Scan(0) ELSE NULLPTR

RECURSIVE memset(_, _, _, _)
memset(m, s, c, n) == IF n = 0 THEN m ELSE memset([m EXCEPT ![s] = c % 256], s + 1, c, n - 1)

RECURSIVE memcpy(_, _, _, _)
memcpy(m, d, s, n) == IF n = 0 THEN m ELSE memcpy([m EXCEPT ![d] = m[s]], d + 1, s + 1, n - 1)

(* The backward loop of memmove: *--dst = *--src, n times.                 *)
RECURSIVE CopyDown(_, _, _, _)
CopyDown(m, d, s, n) ==
    IF n = 0 THEN m ELSE CopyDown([m EXCEPT ![d - 1] = m[s - 1]], d - 1, s - 1, n - 1)

(* Mutant: memmove that always copies forward, as memcpy does.             *)
MemmoveForward(m, d, s, n) == memcpy(m, d, s, n)
memmove(m, d, s, n) == IF d < s THEN memcpy(m, d, s, n) ELSE CopyDown(m, d + n, s + n, n)

(* Copy bytes up to and including the NUL.                                 *)
RECURSIVE strcpy(_, _, _)
strcpy(m, d, s) ==
    LET m1 == [m EXCEPT ![d] = m[s]] IN IF m[s] = 0 THEN m1 ELSE strcpy(m1, d + 1, s + 1)

strcat(m, d, s) == strcpy(m, d + strlen(m, d), s)

(* Copy at most n bytes up to the NUL, then store a NUL.                   *)
RECURSIVE CatN(_, _, _, _)
CatN(m, d, s, n) ==
    IF n # 0 /\ m[s] # 0 THEN CatN([m EXCEPT ![d] = m[s]], d + 1, s + 1, n - 1)
    ELSE [m EXCEPT ![d] = 0]
strncat(m, d, s, n) == CatN(m, d + strlen(m, d), s, n)

(* Mutant: the padding loop as a do-while, one zero more.                  *)
RECURSIVE PadDoWhile(_, _, _)
PadDoWhile(m, d, n) ==
    LET m1 == [m EXCEPT ![d] = 0] IN IF n = 0 THEN m1 ELSE PadDoWhile(m1, d + 1, n - 1)

(* Store n zero bytes.                                                     *)
RECURSIVE Pad(_, _, _)
Pad(m, d, n) == IF n = 0 THEN m ELSE Pad([m EXCEPT ![d] = 0], d + 1, n - 1)

(* Copy while n and the copied byte is not NUL, n-- per byte; then pad n   *)
(* zeros.  The NUL that ends the first loop is not counted against n, so a *)
(* source shorter than n makes strncpy write n + 1 bytes.                  *)
RECURSIVE strncpy(_, _, _, _)
strncpy(m, d, s, n) ==
    IF n = 0 THEN m
    ELSE LET m1 == [m EXCEPT ![d] = m[s]]
         IN  IF m[s] = 0 THEN Pad(m1, d + 1, n) ELSE strncpy(m1, d + 1, s + 1, n - 1)

-----------------------------------------------------------------------------
(***************************************************************************)
(* Reference meanings, stated on the strings and byte ranges themselves:  *)
(* every memory of StrMemSize bytes over {0, 1, 2} that ends in a NUL,     *)
(* every pair of pointers and every length that stays inside it.           *)
(***************************************************************************)
Addrs == 0 .. StrMemSize - 1
Mems == {m \in [Addrs -> 0 .. 2] : m[StrMemSize - 1] = 0}
Str(m, p) == LET z == Min({a \in p .. StrMemSize - 1 : m[a] = 0})
             IN  [k \in 1 .. z - p |-> m[p + k - 1]]
Bytes(m, p, n) == [k \in 1 .. n |-> m[p + k - 1]]
Take(str, n) == SubSeq(str, 1, Min({n, Len(str)}))
Sign(x) == IF x > 0 THEN 1 ELSE IF x < 0 THEN -1 ELSE 0
FirstDiffSign(a, b) ==
    IF a = b THEN 0
    ELSE LET k == Min({i \in 1 .. Min({Len(a), Len(b)}) : a[i] # b[i]}) IN Sign(a[k] - b[k])
LexSign(a, b) == FirstDiffSign(a \o <<0>>, b \o <<0>>)
Least(S) == IF S = {} THEN NULLPTR ELSE Min(S)
Fits(p, n) == p + n <= StrMemSize

(* The comparison, search and copy loops of string.c compute what their    *)
(* names promise: strcmp/strncmp/memcmp order lexicographically, the       *)
(* searches find the first match, memmove copies as if through a buffer    *)
(* whichever way the ranges overlap, strncat appends at most n bytes.      *)
StringRoutinesAgree ==
    \A m \in Mems, p, q \in Addrs, n \in 0 .. 3 :
      LET sp == Str(m, p)  sq == Str(m, q) IN
      /\ strlen(m, p) = Len(sp)
      /\ Sign(strcmp(m, p, q)) = LexSign(sp, sq)
      /\ Sign(strncmp(m, p, q, n)) = LexSign(Take(sp, n), Take(sq, n))
      /\ \A c \in 1 .. 2 :
           strchr(m, p, c) = Least({a \in p .. p + Len(sp) - 1 : m[a] = c})
      /\ strspn(m, p, q) = Max({k \in 0 .. Len(sp) : \A i \in 1 .. k : sp[i] \in ToSet(sq)})
      /\ strcspn(m, p, q) = Max({k \in 0 .. Len(sp) : \A i \in 1 .. k : sp[i] \notin ToSet(sq)})
      /\ strstr(m, p, q) =
           Least({p + i : i \in {i \in 0 .. Len(sp) - Len(sq) :
                                    SubSeq(sp, i + 1, i + Len(sq)) = sq}})
      /\ Fits(p, n) /\ Fits(q, n) =>
           /\ Sign(memcmp(m, p, q, n)) = FirstDiffSign(Bytes(m, p, n), Bytes(m, q, n))
           /\ memchr(m, p, 1, n) = Least({a \in p .. p + n - 1 : m[a] = 1})
           /\ memmove(m, p, q, n) =
                [a \in Addrs |-> IF a \in p .. p + n - 1 THEN m[q + a - p] ELSE m[a]]
      /\ LET d == p + Len(sp)  k == Min({n, Len(sq)}) IN
         d + k < StrMemSize /\ (q + Len(sq) < d \/ d + k < q) =>
           LET m2 == strncat(m, p, q, n) IN
           /\ Str(m2, p) = sp \o Take(sq, n)
           /\ \A a \in Addrs \ (d .. d + k) : m2[a] = m[a]

(* process_create: strncpy(p->name, name, 31); p->name[31] = 0 on the      *)
(* zeroed name[32], for any name: the name is its first 31 characters and  *)
(* the byte after the array (the next field) is never written, although    *)
(* strncpy writes one byte more than n for a short name.                   *)
ProcessNameCopy ==
    \A src \in BoundedSeq(1 .. 2, NameSize + 1) :
      LET s0 == NameSize + 1
          m0 == [a \in 0 .. s0 + Len(src) |->
                   IF a < NameSize THEN 0 ELSE IF a = NameSize THEN 2
                   ELSE IF a - s0 < Len(src) THEN src[a - s0 + 1] ELSE 0]
          m1 == strncpy(m0, 0, s0, NameSize - 1)
          m2 == [m1 EXCEPT ![NameSize - 1] = 0]
      IN  /\ m2[NameSize] = 2
          /\ \A a \in s0 .. s0 + Len(src) : m2[a] = m0[a]
          /\ LET z == Min({a \in 0 .. NameSize - 1 : m2[a] = 0})
             IN  [k \in 1 .. z |-> m2[k - 1]] = Take(src, NameSize - 1)

=============================================================================

--------------------------------- MODULE TCP ---------------------------------
(***************************************************************************)
(* The KOS TCP stack (src/tcp.c) with the IP send path and ARP cache that  *)
(* carry its segments (src/ip.c, src/network.c), talking to one remote     *)
(* host that behaves as RFC 793 asks.                                      *)
(*                                                                         *)
(* KOS side: the socket list in its prepend order, each socket a record of *)
(* the fields tcp.c reads or writes, the receive ring with its 32-bit      *)
(* head/tail counters, and next_port.  The application may call any API    *)
(* function on any socket of the list: tcp_accept is declared in net.h but *)
(* defined nowhere, so the handle of a passively opened socket is given to *)
(* the application directly.                                               *)
(*                                                                         *)
(* Scaling: 2^32 becomes U32, TCP_RX_BUF_SIZE becomes RX_BUF (U32 is a     *)
(* multiple of it, as 2^32 is of 65536), tcp_seq_num (0x12345678) becomes  *)
(* ISN.  The peer's bytes are numbered by their stream position, so a lost,*)
(* duplicated or reordered byte shows in what the application reads.      *)
(* Checksums, addresses and the TX buffer (never used) are left out; the   *)
(* kmalloc of the segment is taken to succeed.                             *)
(***************************************************************************)
EXTENDS Integers, Sequences, FiniteSets, SequencesExt

CONSTANTS
    Ids,            \* addresses the slab can give a struct socket
    U32,            \* 2^32, scaled
    RX_BUF,         \* TCP_RX_BUF_SIZE, scaled
    ISN,            \* tcp_seq_num as tcp_init sets it
    PEER_ISN,       \* the remote host's initial sequence number
    LPORT,          \* the port the application binds
    PPORT,          \* the remote host's port
    EPHEMERAL,      \* the first port tcp_connect hands out (49152)
    MaxData,        \* bytes the remote application writes, in all
    MaxSeg,         \* largest payload of one remote segment
    MaxSend,        \* bytes the KOS application sends, in all
    MaxPorts,       \* ephemeral ports tcp_connect may hand out
    PeerRole,       \* "client": the remote host opens; "server": it listens
    ARP_PRELOADED   \* the remote host is in the ARP cache from the start

ASSUME U32 % RX_BUF = 0 /\ MaxData < U32 /\ PeerRole \in {"client", "server"}

VARIABLES
    sockets, sk, next_port,      \* tcp.c: the list, the structs, next_port
    arp,                         \* network.c: the remote host is cached
    toKos, toPeer,               \* segments in flight, in order
    pst, prem, puna, pnxt, prnxt, pSent, pAcked,   \* the remote host
    kGot, kSent, kOpen           \* history: what the KOS application read
                                 \* and sent; the connection not yet reaped

kosVars  == <<sockets, sk, next_port, arp>>
peerVars == <<pst, prem, puna, pnxt, prnxt, pSent, pAcked>>
ghost    == <<kGot, kSent, kOpen>>
vars     == <<kosVars, toKos, toPeer, peerVars, ghost>>

Add(a, b) == (a + b) % U32
Diff(a, b) == (a - b) % U32

States == {"CLOSED", "LISTEN", "SYN_SENT", "SYN_RECV", "ESTABLISHED",
           "FIN_WAIT1", "FIN_WAIT2", "CLOSE_WAIT", "CLOSING", "LAST_ACK",
           "TIME_WAIT"}
Flags == {"FIN", "SYN", "RST", "PSH", "ACK"}

\* tcp_socket: kzalloc'd, so every counter is 0 and the state TCP_CLOSED.
ZeroSock == [st |-> "CLOSED", lport |-> 0, rport |-> 0, una |-> 0,
             nxt |-> 0, rnxt |-> 0, rh |-> 0, rt |-> 0,
             ring |-> [k \in 0 .. RX_BUF - 1 |-> 0]]

Live == Range(sockets)

\* The socket of the remote host's connection, and that socket once it has
\* taken bytes of the remote host's stream (rx_tail does not come back to 0
\* while MaxData < U32).
IsConn(r) == r.lport = LPORT /\ r.rport = PPORT /\ r.st # "LISTEN"
HasStream(r) == IsConn(r) /\ r.rt # 0

\* tcp_tx: the segment carries snd_nxt and rcv_nxt; ip_send drops it when
\* arp_lookup misses (arp_request sends nothing); snd_nxt then advances
\* for a SYN without ACK, for a FIN and by the payload length.
Seg(r, fl, d) == [sp |-> r.lport, dp |-> r.rport, fl |-> fl, seq |-> r.nxt,
                  ack |-> r.rnxt, data |-> d]
Tx(r, fl, d) ==
    [r EXCEPT !.nxt = Add(@, (IF "SYN" \in fl /\ "ACK" \notin fl THEN 1 ELSE 0)
                           + (IF "FIN" \in fl THEN 1 ELSE 0) + Len(d))]
IpSend(segs) == toPeer' = IF arp THEN toPeer \o segs ELSE toPeer

\* The whole of an API call on socket i: new record r, segments out.
Call(i, r, out) ==
    /\ sk' = [sk EXCEPT ![i] = r]
    /\ IpSend(out)
    /\ UNCHANGED <<sockets, next_port, arp, toKos, peerVars>>

TcpSocket ==
    \E i \in Ids \ Live :
        /\ sk' = [sk EXCEPT ![i] = ZeroSock]
        /\ sockets' = <<i>> \o sockets
        /\ UNCHANGED <<next_port, arp, toKos, toPeer, peerVars, ghost>>

TcpBind(i) ==
    /\ sk[i].st = "CLOSED" /\ sk[i].lport # LPORT
    /\ Call(i, [sk[i] EXCEPT !.lport = LPORT], << >>)
    /\ UNCHANGED ghost


TcpConnect(i) ==
    /\ sk[i].st = "CLOSED"
    /\ LET r == [sk[i] EXCEPT !.rport = PPORT,
                    !.lport = IF @ = 0 THEN next_port ELSE @,
                    !.st = "SYN_SENT", !.una = ISN, !.nxt = Add(ISN, 1)]
       IN /\ sk' = [sk EXCEPT ![i] = Tx(r, {"SYN"}, << >>)]
          /\ IpSend(<<Seg(r, {"SYN"}, << >>)>>)
    /\ next_port' = IF sk[i].lport = 0 THEN (next_port + 1) % 65536
                                       ELSE next_port
    /\ UNCHANGED <<sockets, arp, toKos, peerVars, ghost>>

\* The KOS application's bytes are not looked at by any property: value 0.
TcpSend(i, k) ==
    /\ sk[i].st = "ESTABLISHED" /\ kSent + k <= MaxSend
    /\ LET d == [j \in 1 .. k |-> 0]
       IN Call(i, Tx(sk[i], {"ACK", "PSH"}, d), <<Seg(sk[i], {"ACK", "PSH"}, d)>>)
    /\ kSent' = kSent + k
    /\ UNCHANGED <<kGot, kOpen>>

\* tcp_recv's copy out of the ring, split where it wraps.
RingRead(ring, head, len) ==
    IF head + len > RX_BUF
    THEN [j \in 1 .. RX_BUF - head |-> ring[head + j - 1]]
         \o [j \in 1 .. len - (RX_BUF - head) |-> ring[j - 1]]
    ELSE [j \in 1 .. len |-> ring[head + j - 1]]

TcpRecv(i, k) ==
    LET r == sk[i]
        available == Diff(r.rt, r.rh)
        len == IF k > available THEN available ELSE k
    IN /\ r.st \in {"ESTABLISHED", "CLOSE_WAIT"}
       /\ available # 0
       /\ Call(i, [r EXCEPT !.rh = Add(@, len)], << >>)
       /\ kGot' = kGot \o RingRead(r.ring, r.rh % RX_BUF, len)
       /\ UNCHANGED <<kSent, kOpen>>

TcpClose(i) ==
    LET r == sk[i] IN
    /\ r.st \in {"ESTABLISHED", "CLOSE_WAIT", "SYN_SENT", "SYN_RECV"}
    /\ CASE r.st = "ESTABLISHED" ->
              Call(i, Tx([r EXCEPT !.st = "FIN_WAIT1"], {"FIN", "ACK"}, << >>),
                   <<Seg(r, {"FIN", "ACK"}, << >>)>>)
         [] r.st = "CLOSE_WAIT" ->
              Call(i, Tx([r EXCEPT !.st = "LAST_ACK"], {"FIN", "ACK"}, << >>),
                   <<Seg(r, {"FIN", "ACK"}, << >>)>>)
         [] OTHER -> Call(i, [r EXCEPT !.st = "CLOSED"], << >>)
    /\ UNCHANGED ghost

\* Listening again on a socket that held the stream drops what it held.
TcpListen(i) ==
    /\ sk[i].st = "CLOSED" /\ sk[i].lport # 0
    /\ Call(i, [sk[i] EXCEPT !.st = "LISTEN"], << >>)
    /\ kOpen' = (kOpen /\ ~HasStream(sk[i]))
    /\ UNCHANGED <<kGot, kSent>>

\* tcp_cleanup unlinks and frees every CLOSED socket.  Reaping the socket
\* that has taken bytes of the remote host's stream ends that stream.
TcpCleanup ==
    LET dead == {i \in Live : sk[i].st = "CLOSED"} IN
    /\ dead # {}
    /\ sockets' = SelectSeq(sockets, LAMBDA i : i \notin dead)
    /\ sk' = [i \in Ids |-> IF i \in dead THEN ZeroSock ELSE sk[i]]
    /\ kOpen' = (kOpen /\ \A i \in dead : ~HasStream(sk[i]))
    /\ UNCHANGED <<next_port, arp, toKos, toPeer, peerVars, kGot, kSent>>

\* tcp_timer_tick: no code path enters TIME_WAIT and time_wait_timer is only
\* ever zeroed by kzalloc, so this can change nothing; it is defined for
\* the record and left out of Next.
TcpTimerTick ==
    /\ \E i \in Live : sk[i].st = "TIME_WAIT"
    /\ sk' = [i \in Ids |-> IF i \in Live /\ sk[i].st = "TIME_WAIT"
                            THEN [sk[i] EXCEPT !.st = "CLOSED"] ELSE sk[i]]
    /\ UNCHANGED <<sockets, next_port, arp, toKos, toPeer, peerVars, ghost>>

\* arp_rx of a reply: arp_add caches the remote host (the only way in).
ArpReply ==
    /\ ~arp /\ arp' = TRUE
    /\ UNCHANGED <<sockets, sk, next_port, toKos, toPeer, peerVars, ghost>>

\* Mutant: one memcpy at tail, not split at the end of the buffer.
RingWriteNoSplit(ring, tail, d, len) ==
    [k \in 0 .. (IF tail + len > RX_BUF THEN tail + len - 1 ELSE RX_BUF - 1) |->
        IF tail <= k /\ k < tail + len THEN d[k - tail + 1] ELSE ring[k]]

\* tcp_rx's copy into the ring, split where it wraps.
RingWrite(ring, tail, d, len) ==
    IF tail + len > RX_BUF
    THEN LET first == RX_BUF - tail IN
         [k \in 0 .. RX_BUF - 1 |->
             IF k >= tail THEN d[k - tail + 1]
             ELSE IF k < len - first THEN d[first + k + 1] ELSE ring[k]]
    ELSE [k \in 0 .. RX_BUF - 1 |->
             IF tail <= k /\ k < tail + len THEN d[k - tail + 1] ELSE ring[k]]

\* tcp_rx, case TCP_ESTABLISHED: take the ACK, then in-order data trimmed
\* to the free space (and ACK it), then a FIN (and ACK it).
\* Mutant: the payload is not trimmed to the free space.
InOrderNoTrim(r, g) ==
    LET len == Len(g.data)
    IN [r EXCEPT !.ring = RingWrite(@, r.rt % RX_BUF, g.data, len),
                 !.rt = Add(@, len), !.rnxt = Add(@, len)]
InOrder(r, g) ==
    LET space == (RX_BUF - Diff(r.rt, r.rh)) % U32
        len == IF Len(g.data) > space THEN space ELSE Len(g.data)
    IN [r EXCEPT !.ring = RingWrite(@, r.rt % RX_BUF, g.data, len),
                 !.rt = Add(@, len), !.rnxt = Add(@, len)]
Established(r, g) ==
    LET r1 == IF "ACK" \in g.fl THEN [r EXCEPT !.una = g.ack] ELSE r
        take == Len(g.data) > 0 /\ g.seq = r1.rnxt
        r2 == IF take THEN InOrder(r1, g) ELSE r1
        r3 == [r2 EXCEPT !.st = "CLOSE_WAIT", !.rnxt = Add(@, 1)]
    IN [r |-> IF "FIN" \in g.fl THEN r3 ELSE r2,
        out |-> (IF take THEN <<Seg(r2, {"ACK"}, << >>)>> ELSE << >>)
                \o (IF "FIN" \in g.fl THEN <<Seg(r3, {"ACK"}, << >>)>> ELSE << >>)]

\* tcp_rx for every state but LISTEN: the new record and the segments out.
Rx(r, g) ==
    CASE r.st = "SYN_SENT" /\ {"SYN", "ACK"} \subseteq g.fl
                           /\ g.ack = Add(r.una, 1) ->
            LET r1 == [r EXCEPT !.st = "ESTABLISHED", !.rnxt = Add(g.seq, 1),
                                !.una = g.ack]
            IN [r |-> r1, out |-> <<Seg(r1, {"ACK"}, << >>)>>]
      [] r.st = "SYN_RECV" /\ "ACK" \in g.fl ->
            [r |-> [r EXCEPT !.st = "ESTABLISHED"], out |-> << >>]
      [] r.st = "ESTABLISHED" -> Established(r, g)
      [] r.st \in {"CLOSE_WAIT", "LAST_ACK"} /\ "ACK" \in g.fl ->
            [r |-> [r EXCEPT !.st = "CLOSED"], out |-> << >>]
      [] OTHER -> [r |-> r, out |-> << >>]

\* tcp_rx's lookup: the first socket of the list bound to (dport, sport),
\* or listening on dport; 0 when there is none.
Lookup(g) ==
    SelectInSeq(sockets, LAMBDA i : \/ sk[i].lport = g.dp /\ sk[i].rport = g.sp
                                    \/ sk[i].st = "LISTEN" /\ sk[i].lport = g.dp)

\* tcp_rx on a listener: a SYN makes a SYN_RECV child (tcp_socket, so it is
\* prepended) with snd_una = snd_nxt = the listener's snd_nxt, and answers
\* SYN|ACK, which does not advance snd_nxt.  No free struct: kzalloc fails.
Child(l, g) ==
    [ZeroSock EXCEPT !.st = "SYN_RECV", !.lport = l.lport, !.rport = g.sp,
                     !.rnxt = Add(g.seq, 1), !.una = l.nxt, !.nxt = l.nxt]

\* network_rx -> ip_rx -> tcp_rx of the segment at the head of the wire.
KosRx ==
    /\ toKos # << >>
    /\ toKos' = Tail(toKos)
    /\ LET g == Head(toKos)
           n == Lookup(g)
           i == sockets[n]
           free == Ids \ Live
       IN CASE n = 0 -> UNCHANGED <<sockets, sk, toPeer>>
            [] sk[i].st = "LISTEN" /\ "SYN" \in g.fl /\ free # {} ->
                 LET c == CHOOSE c \in free : TRUE IN
                 /\ sockets' = <<c>> \o sockets
                 /\ sk' = [sk EXCEPT ![c] = Child(sk[i], g)]
                 /\ IpSend(<<Seg(Child(sk[i], g), {"SYN", "ACK"}, << >>)>>)
            [] sk[i].st = "LISTEN" -> UNCHANGED <<sockets, sk, toPeer>>
            [] OTHER ->
                 LET res == Rx(sk[i], g) IN
                 /\ sk' = [sk EXCEPT ![i] = res.r]
                 /\ IpSend(res.out)
                 /\ UNCHANGED sockets
    /\ UNCHANGED <<next_port, arp, peerVars, ghost>>

-----------------------------------------------------------------------------
(***************************************************************************)
(* The remote host: one connection, RFC 793 rules.  It retransmits what is *)
(* unacknowledged when nothing is in flight (its timer), accepts only the  *)
(* segment at rcv_nxt and acknowledges anything else that needs it.  It   *)
(* keeps at most RX_BUF bytes unacknowledged: the window KOS advertises is *)
(* (uint16_t)65536 = 0, which a strict host would answer only with one-    *)
(* byte probes, so the receive path is checked against a host that sends  *)
(* more.                                                                   *)
(***************************************************************************)
Synced == {"ESTABLISHED", "FIN_WAIT", "CLOSE_WAIT", "LAST_ACK"}

PSeg(fl, sq, ak, d) ==
    [sp |-> PPORT, dp |-> prem, fl |-> fl, seq |-> sq, ack |-> ak, data |-> d]
PeerOut(segs) == toKos' = toKos \o segs

PeerConnect ==
    /\ pst = "CLOSED"
    /\ pst' = "SYN_SENT" /\ prem' = LPORT
    /\ puna' = PEER_ISN /\ pnxt' = Add(PEER_ISN, 1)
    /\ toKos' = toKos \o <<[sp |-> PPORT, dp |-> LPORT, fl |-> {"SYN"},
                            seq |-> PEER_ISN, ack |-> 0, data |-> << >>]>>
    /\ UNCHANGED <<kosVars, toPeer, prnxt, pSent, pAcked, ghost>>

PeerSend(k) ==
    /\ pst \in {"ESTABLISHED", "CLOSE_WAIT"}
    /\ Len(pSent) + k <= MaxData /\ Diff(pnxt, puna) + k <= RX_BUF
    /\ LET d == [j \in 1 .. k |-> Len(pSent) + j] IN
       /\ PeerOut(<<PSeg({"ACK", "PSH"}, pnxt, prnxt, d)>>)
       /\ pSent' = pSent \o d
    /\ pnxt' = Add(pnxt, k)
    /\ UNCHANGED <<kosVars, toPeer, pst, prem, puna, prnxt, pAcked, ghost>>

PeerClose ==
    /\ pst \in {"ESTABLISHED", "CLOSE_WAIT"}
    /\ pst' = IF pst = "ESTABLISHED" THEN "FIN_WAIT" ELSE "LAST_ACK"
    /\ PeerOut(<<PSeg({"FIN", "ACK"}, pnxt, prnxt, << >>)>>)
    /\ pnxt' = Add(pnxt, 1)
    /\ UNCHANGED <<kosVars, toPeer, prem, puna, prnxt, pSent, pAcked, ghost>>

\* Retransmission timeout: nothing in flight and something unacknowledged.
PeerRetransmit ==
    LET unacked == SubSeq(pSent, pAcked + 1, Len(pSent)) IN
    /\ toKos = << >> /\ toPeer = << >> /\ puna # pnxt
    /\ pst # "DONE"
    /\ PeerOut(<<CASE pst = "SYN_SENT" -> PSeg({"SYN"}, PEER_ISN, 0, << >>)
                   [] pst = "SYN_RCVD" -> PSeg({"SYN", "ACK"}, PEER_ISN, prnxt, << >>)
                   [] unacked # << >> -> PSeg({"ACK", "PSH"}, puna, prnxt, unacked)
                   [] OTHER -> PSeg({"FIN", "ACK"}, puna, prnxt, << >>)>>)
    /\ UNCHANGED <<kosVars, toPeer, peerVars, ghost>>

\* A synchronized host's answer to one segment: cumulative ACK, then the
\* segment's data and FIN if it starts at rcv_nxt.
PeerSynced(g) ==
    LET adv == Diff(g.ack, puna)
        ok == "ACK" \in g.fl /\ 0 < adv /\ adv <= Diff(pnxt, puna)
        inseq == g.seq = prnxt
        fin == inseq /\ "FIN" \in g.fl
        una2 == IF ok THEN g.ack ELSE puna
        rnxt2 == IF inseq THEN Add(prnxt, Len(g.data) + IF fin THEN 1 ELSE 0)
                 ELSE prnxt
    IN /\ puna' = una2 /\ prnxt' = rnxt2
       /\ pAcked' = IF ok THEN Min({Len(pSent), pAcked + adv}) ELSE pAcked
       /\ pst' = CASE fin /\ pst = "ESTABLISHED" -> "CLOSE_WAIT"
                   [] fin /\ pst = "FIN_WAIT" -> "DONE"
                   [] pst = "LAST_ACK" /\ una2 = pnxt -> "DONE"
                   [] OTHER -> pst
       /\ PeerOut(IF Len(g.data) > 0 \/ "FIN" \in g.fl
                  THEN <<PSeg({"ACK"}, pnxt, rnxt2, << >>)>> ELSE << >>)

PeerRx ==
    /\ toPeer # << >>
    /\ toPeer' = Tail(toPeer)
    /\ LET g == Head(toPeer) IN
       CASE g.dp # PPORT \/ (pst # "LISTEN" /\ g.sp # prem) ->
              UNCHANGED <<toKos, peerVars>>
         [] pst = "LISTEN" /\ g.fl = {"SYN"} ->
              /\ pst' = "SYN_RCVD" /\ prem' = g.sp
              /\ prnxt' = Add(g.seq, 1)
              /\ puna' = PEER_ISN /\ pnxt' = Add(PEER_ISN, 1)
              /\ toKos' = toKos \o <<[sp |-> PPORT, dp |-> g.sp, fl |-> {"SYN", "ACK"},
                                      seq |-> PEER_ISN, ack |-> Add(g.seq, 1),
                                      data |-> << >>]>>
              /\ UNCHANGED <<pSent, pAcked>>
         [] pst = "SYN_SENT" /\ {"SYN", "ACK"} \subseteq g.fl /\ g.ack = pnxt ->
              /\ pst' = "ESTABLISHED" /\ puna' = g.ack
              /\ prnxt' = Add(g.seq, 1)
              /\ PeerOut(<<PSeg({"ACK"}, pnxt, Add(g.seq, 1), << >>)>>)
              /\ UNCHANGED <<prem, pnxt, pSent, pAcked>>
         [] pst = "SYN_RCVD" /\ "ACK" \in g.fl /\ g.ack = pnxt ->
              /\ pst' = "ESTABLISHED" /\ puna' = g.ack
              /\ UNCHANGED <<toKos, prem, pnxt, prnxt, pSent, pAcked>>
         [] pst \in Synced -> PeerSynced(g) /\ UNCHANGED <<prem, pnxt, pSent>>
         [] OTHER -> UNCHANGED <<toKos, peerVars>>
    /\ UNCHANGED <<kosVars, ghost>>

-----------------------------------------------------------------------------
Init ==
    /\ sockets = << >> /\ sk = [i \in Ids |-> ZeroSock]
    /\ next_port = EPHEMERAL /\ arp = ARP_PRELOADED
    /\ toKos = << >> /\ toPeer = << >>
    /\ pst = IF PeerRole = "client" THEN "CLOSED" ELSE "LISTEN"
    /\ prem = 0 /\ puna = 0 /\ pnxt = 0 /\ prnxt = 0
    /\ pSent = << >> /\ pAcked = 0
    /\ kGot = << >> /\ kSent = 0 /\ kOpen = TRUE

\* The application never builds the remote host's address pair itself: it
\* does not connect from the port it listens on, nor rebind a socket it
\* connected.  So the connection has one socket, the listener's child.
KosApp ==
    \/ TcpSocket \/ TcpCleanup
    \/ \E i \in Live :
         \/ TcpBind(i) /\ sk[i].rport = 0
         \/ TcpListen(i) \/ TcpClose(i)
         \/ TcpConnect(i) /\ sk[i].lport # LPORT /\ next_port < EPHEMERAL + MaxPorts
         \/ \E k \in 1 .. MaxSeg : TcpSend(i, k) \/ TcpRecv(i, k)

Peer ==
    \/ PeerConnect \/ PeerClose \/ PeerRetransmit \/ PeerRx
    \/ \E k \in 1 .. MaxSeg : PeerSend(k)

Next == KosApp \/ KosRx \/ ArpReply \/ Peer

\* The wire delivers, and the remote host's timer fires.
Fairness == WF_vars(KosRx) /\ WF_vars(PeerRx) /\ WF_vars(PeerRetransmit)

Spec == Init /\ [][Next]_vars /\ Fairness

-----------------------------------------------------------------------------
Ports == {0, LPORT, PPORT} \cup (EPHEMERAL .. EPHEMERAL + MaxPorts)
Segs == [sp : Ports, dp : Ports,
         fl : SUBSET Flags, seq : 0 .. U32 - 1, ack : 0 .. U32 - 1,
         data : Seq(Nat)]

TypeOK ==
    /\ sockets \in Seq(Ids) /\ Len(sockets) = Cardinality(Live)
    /\ \A i \in Ids : sk[i].st \in States /\ sk[i].ring \in [0 .. RX_BUF - 1 -> Nat]
                      /\ {sk[i].una, sk[i].nxt, sk[i].rnxt, sk[i].rh, sk[i].rt}
                         \subseteq 0 .. U32 - 1
    /\ toKos \in Seq(Segs) /\ toPeer \in Seq(Segs)
    /\ pAcked \in 0 .. Len(pSent) /\ kOpen \in BOOLEAN

\* The bytes of the remote host's stream that sit in the receive ring of the
\* socket holding its connection, oldest first.
ConnBuf ==
    LET c == {i \in Live : IsConn(sk[i])}
        r == sk[CHOOSE i \in c : TRUE]
    IN IF c = {} THEN << >> ELSE RingRead(r.ring, r.rh % RX_BUF, Diff(r.rt, r.rh))

Stream == INSTANCE ByteStream WITH Cap <- RX_BUF, Bytes <- 1 .. MaxData,
              sent <- pSent, buf <- ConnBuf, got <- kGot, open <- kOpen

\* tcp_rx's in-order check, trim to the free space and wrapping copy into
\* the ring, with tcp_recv's wrapping copy out and the modular head/tail
\* counters, deliver the remote host's bytes as a byte stream through a
\* buffer of TCP_RX_BUF_SIZE: in order, without loss inside what was
\* accepted, without duplicates, never more than the buffer holds.
StreamRefinement == Stream!Spec

\* tcp_rx's rcv_nxt, the next sequence number KOS expects and the one its
\* ACKs carry, moves only over bytes of the remote host's stream that KOS
\* stored (read by the application or in the ring) and then over a FIN
\* that follows them: every stream byte numbered below the connection
\* socket's rcv_nxt is stored.  A statement about KOS's own state, whether
\* or not its ACKs reach the remote host.
RcvNxtOverStored ==
    kOpen =>
      \A i \in Live :
        IsConn(sk[i]) =>
          LET covered == Diff(sk[i].rnxt, Add(PEER_ISN, 1))
          IN  (IF covered < Len(pSent) THEN covered ELSE Len(pSent))
                <= Len(kGot) + Len(ConnBuf)

\* A socket tcp_connect left in SYN_SENT leaves it (for ESTABLISHED, or
\* CLOSED when the application gives up) once the remote host answers.
ConnectCompletes == \A i \in Ids : sk[i].st = "SYN_SENT" ~> sk[i].st # "SYN_SENT"

====

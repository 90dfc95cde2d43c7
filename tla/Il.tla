--------------------------------- MODULE Il ---------------------------------
(***************************************************************************)
(* IL, the reliable message protocol under 9P (ip/il.c).  A client and a   *)
(* server, each with one conversation, exchange packets over a network     *)
(* that loses, duplicates, delays and reorders.  The server has a listener *)
(* beside its conversation; while the conversation is in use a new call    *)
(* finds none free (Fsnewcall).  Every connection has the same ports, so   *)
(* old packets are not told from new ones by their addresses.              *)
(*                                                                         *)
(* iliput runs with the conversation locked: a packet is one step.  The    *)
(* writer (ilkick) and the timer process (ilackproc) do not lock it: the   *)
(* state they test may have changed when they go on.  Timers only say when *)
(* the timer process acts, so they may expire at any tick; round trip      *)
(* times are left out.  A timer or writer that is overtaken by             *)
(* illocalclose sends from port 0: here too from the connection's port,    *)
(* which can do more.  A message is <<start, n>>: the n-th that the end    *)
(* which chose start wrote on its connection.                              *)
(***************************************************************************)
EXTENDS Integers, FiniteSetsExt, SequencesExt

CONSTANTS Window,     \* Defaultwin
          MaxRexmit,  \* 16
          FastTries,  \* the 4 of ilstart
          Nqt,        \* 8
          Maxrq,      \* input queue limit, in messages
          Cases       \* bounds: a set of records as described at "bound"

ASSUME IlAssumption ==
  /\ Window \in Nat \ {0} /\ Maxrq \in Nat \ {0} /\ Nqt \in Nat \ {0}
  /\ MaxRexmit \in Nat /\ FastTries \in 0..MaxRexmit

Ends == {"c", "s"}
Peer(h) == IF h = "c" THEN "s" ELSE "c"

VARIABLES
  bound,      \* the case, one of Cases, which bounds the model:
              \*   starts[h]: what nrand gives ilcbinit of h, in turn
              \*   msgs[h]:   how many messages h writes on a connection
              \*   closers:   the ends whose process closes the conversation
              \*   racing:    the ends whose writer and timer may be overtaken
              \*   cut:       DeathTime passes and iladvise reports come
              \*   cap:       how many packets the network holds
  cb,         \* the Ilcb of each end
  listening,  \* the server's listener is in Illistening, throughout
  nstart,     \* starts each end has used
  inuse,      \* conv->inuse: a process has the conversation open
  hung,       \* conv->rq is hung up or closed
  rq,         \* length of conv->rq
  passed,     \* messages given to rq on this connection, in order
  got,        \* all messages ever given to rq
  kick,       \* the writer is past the state test of ilkick
  tick,       \* the state ilackproc has seen, "" when it sleeps
  net         \* packets under way

app  == <<bound, listening, nstart, inuse>>
up   == <<rq, passed, got>>
vars == <<cb, app, hung, up, kick, tick, net>>

NoData == <<0, 0>>

Init ==
  /\ bound \in Cases
  /\ cb = [h \in Ends |->
             [state |-> "Closed", start |-> 0, rstart |-> 0, next |-> 0, recvd |-> 0, acksent |-> 0,
              rexmit |-> 0, unacked |-> <<>>, outo |-> {}, qtx |-> 1, qt |-> [x \in 0..Nqt |-> 0]]]
  /\ listening \in BOOLEAN
  /\ nstart = [h \in Ends |-> 0] /\ inuse = [h \in Ends |-> FALSE]
  /\ hung = [h \in Ends |-> TRUE]
  /\ rq = [h \in Ends |-> 0] /\ passed = [h \in Ends |-> <<>>] /\ got = [h \in Ends |-> {}]
  /\ kick = [h \in Ends |-> FALSE] /\ tick = [h \in Ends |-> ""]
  /\ net = {}

-----------------------------------------------------------------------------
(* Packets. *)
Pkt(h, type, id, ack, spec, data) ==
  [to |-> Peer(h), type |-> type, id |-> id, ack |-> ack, spec |-> spec, data |-> data]

(* ilsendctl: the packet; what it does to the control block is Acked. *)
ilsendctl(h, type, id, ack, spec) == Pkt(h, type, id, ack, spec, NoData)
Acked(ic, ack) == [ic EXCEPT !.acksent = ack]

(* ilreject, and ilsendctl with the header of the packet answered. *)
ilreject(h, p) == ilsendctl(h, "close", p.ack, p.id, 0)

(* A full network loses the next packet. *)
Emit(rest, pkts) == IF Cardinality(rest \cup pkts) <= bound.cap THEN rest \cup pkts ELSE rest

Put(h, ic)  == cb' = [cb EXCEPT ![h] = ic]
Xmit(pkts)  == net' = Emit(net, pkts)

-----------------------------------------------------------------------------
(* Operations on the control block. *)

(* ilackto: messages up to ackto are acknowledged. *)
ilackto(ic, ackto) ==
  LET left == SelectSeq(ic.unacked, LAMBDA b : b.id > ackto)
  IN  IF left = ic.unacked THEN ic ELSE [ic EXCEPT !.unacked = left, !.rexmit = 0]

(* iloutoforder: the window check, and the sorted list without duplicates, *)
(* here the set of its blocks.                                             *)
iloutoforder(ic, p) ==
  IF p.id <= ic.recvd \/ p.id > ic.recvd + Window \/ \E b \in ic.outo : b.id = p.id THEN ic
  ELSE [ic EXCEPT !.outo = @ \cup {[id |-> p.id, data |-> p.data]}]

(* ilpullup: the blocks that continue recvd without a gap go to rq. *)
Sorted(ic) == SetToSortSeq(ic.outo, LAMBDA a, b : a.id < b.id)

(* Mutant: the gap in front of a block is not noticed. *)
M_Ready(ic) == IF ic.state = "Established" THEN Cardinality(ic.outo) ELSE 0

Ready(ic) ==
  IF ic.state # "Established" THEN 0
  ELSE Cardinality({i \in DOMAIN Sorted(ic) : Sorted(ic)[i].id = ic.recvd + i})

Pulled(ic) == [i \in 1..Ready(ic) |-> Sorted(ic)[i].data]
ilpullup(ic) ==
  LET n == Ready(ic)
  IN  IF n = 0 THEN ic
      ELSE [ic EXCEPT !.recvd = Sorted(ic)[n].id, !.outo = {b \in @ : b.id > Sorted(ic)[n].id}]

(* ilnextqt: remember the highest id sent. *)
ilnextqt(ic) ==
  LET x == IF ic.qtx + 1 > Nqt THEN 1 ELSE ic.qtx + 1
  IN  [ic EXCEPT !.qtx = x, !.qt = [@ EXCEPT ![x] = ic.next - 1, ![0] = ic.next - 1]]

(* Mutant: the retransmission is not counted. *)
M_ilbackoff(ic) == ic

(* ilbackoff; rexmit is only compared with MaxRexmit. *)
ilbackoff(ic) == [ic EXCEPT !.rexmit = IF @ > MaxRexmit THEN @ ELSE @ + 1]

(* ilfreeq *)
ilfreeq(ic) == [ic EXCEPT !.unacked = <<>>, !.outo = {}]

(* ilcbinit; rstart, acksent and qt keep what the last connection left. *)
ilcbinit(ic, start, state) ==
  [ic EXCEPT !.state = state, !.start = start, !.next = start + 1, !.recvd = 0, !.rexmit = 0,
             !.unacked = <<>>, !.outo = {}, !.qtx = 1]

(* illocalclose *)
illocalclose(ic) == [ic EXCEPT !.state = "Closed"]

(* ilhangup *)
ilhangup(h, ic) == Put(h, illocalclose(ic)) /\ hung' = [hung EXCEPT ![h] = TRUE]

(* ilrexmit: the first unacknowledged message goes again, as a dataquery. *)
ilrexmit(ic) == ilbackoff(ilnextqt(ic))
Rexmitted(h, ic) ==
  LET b == Head(ic.unacked) IN Pkt(h, "dataquery", b.id, ic.recvd, ilnextqt(ic).qtx, b.data)

(* The blocks pulled up from ic go to rq with qpass. *)
Pass(h, ic) ==
  /\ rq' = [rq EXCEPT ![h] = @ + Ready(ic)]
  /\ passed' = [passed EXCEPT ![h] = @ \o Pulled(ic)]
  /\ got' = [got EXCEPT ![h] = @ \cup ToSet(Pulled(ic))]

-----------------------------------------------------------------------------
(* The processes that use the conversations. *)

(* Opening a conversation: Fsprotoclone takes one that neither a process   *)
(* nor the protocol uses, reopens its queues, and ilcbinit takes a start.  *)
Free(h)      == ~inuse[h] /\ cb[h].state = "Closed" /\ nstart[h] < Len(bound.starts[h])
NextStart(h) == bound.starts[h][nstart[h] + 1]
Open(h) ==
  /\ inuse' = [inuse EXCEPT ![h] = TRUE] /\ nstart' = [nstart EXCEPT ![h] = @ + 1]
  /\ hung' = [hung EXCEPT ![h] = FALSE]
  /\ rq' = [rq EXCEPT ![h] = 0] /\ passed' = [passed EXCEPT ![h] = <<>>]
  /\ UNCHANGED <<bound, listening, got, kick, tick>>

(* ilconnect and ilstart, with !fasttimeout or without. *)
ilconnect ==
  /\ Free("c") /\ Open("c")
  /\ \E tries \in {0, MaxRexmit - FastTries} :
       LET ic == [ilcbinit(cb["c"], NextStart("c"), "Syncer") EXCEPT !.rexmit = tries]
       IN  /\ Put("c", Acked(ic, ic.recvd))
           /\ Xmit({ilsendctl("c", "sync", ic.start, ic.recvd, 0)})

(* ilclose, of the last user of the conversation. *)
ilclose(h) ==
  /\ h \in bound.closers /\ inuse[h] /\ ~kick[h]
  /\ inuse' = [inuse EXCEPT ![h] = FALSE] /\ hung' = [hung EXCEPT ![h] = TRUE]
  /\ LET ic == cb[h]
     IN  IF ic.state \in {"Syncer", "Syncee", "Established"}
         THEN /\ Put(h, ilfreeq(Acked([ic EXCEPT !.state = "Closing"], ic.recvd)))
              /\ Xmit({ilsendctl(h, "close", ic.next, ic.recvd, 0)})
         ELSE Put(h, ilfreeq(ic)) /\ UNCHANGED net
  /\ UNCHANGED <<bound, listening, nstart, up, kick, tick>>

(* A process reads a message from rq. *)
Read(h) ==
  /\ inuse[h] /\ rq[h] > 0
  /\ rq' = [rq EXCEPT ![h] = @ - 1]
  /\ UNCHANGED <<cb, app, hung, passed, got, kick, tick, net>>

(* ilkick: a write to a connection that is over ... *)
Writes(h) == inuse[h] /\ ~kick[h] /\ cb[h].next - cb[h].start <= bound.msgs[h]
Over(h)   == cb[h].state \in {"Closed", "Closing"}
KickHangup(h) ==
  /\ Writes(h) /\ Over(h) /\ hung' = [hung EXCEPT ![h] = TRUE]
  /\ UNCHANGED <<cb, app, up, kick, tick, net>>

(* ... or to one that is not, which may be when the message goes out. *)
KickTest(h) ==
  /\ h \in bound.racing /\ Writes(h) /\ ~Over(h) /\ kick' = [kick EXCEPT ![h] = TRUE]
  /\ UNCHANGED <<cb, app, hung, up, tick, net>>

(* Mutant: the message is sent and not kept (ilackq). *)
M_KickSend(h) ==
  /\ kick[h] \/ (h \notin bound.racing /\ Writes(h) /\ ~Over(h))
  /\ kick' = [kick EXCEPT ![h] = FALSE]
  /\ LET ic == cb[h]
     IN  /\ Put(h, Acked([ic EXCEPT !.next = @ + 1], ic.recvd))
         /\ Xmit({Pkt(h, "data", ic.next, ic.recvd, 0, <<ic.start, ic.next - ic.start>>)})
  /\ UNCHANGED <<app, hung, up, tick>>

(* Take an id, keep a copy (ilackq) and send. *)
KickSend(h) ==
  /\ kick[h] \/ (h \notin bound.racing /\ Writes(h) /\ ~Over(h))
  /\ kick' = [kick EXCEPT ![h] = FALSE]
  /\ LET ic == cb[h]
         b  == [id |-> ic.next, data |-> <<ic.start, ic.next - ic.start>>]
     IN  /\ Put(h, Acked([ic EXCEPT !.next = @ + 1, !.unacked = Append(@, b)], ic.recvd))
         /\ Xmit({Pkt(h, "data", b.id, ic.recvd, 0, b.data)})
  /\ UNCHANGED <<app, hung, up, tick>>

-----------------------------------------------------------------------------
(* iliput: a packet p arrives at h; rest is the network without it, or     *)
(* with it when there is another copy.                                     *)
Reply(rest, pkts) == net' = Emit(rest, pkts)
Listens(h)        == h = "s" /\ listening

(* No conversation: a sync without listener is rejected, and so is what is *)
(* not a sync by the listener, or a sync when no conversation is free.     *)
Reject(h, p, rest) ==
  /\ cb[h].state = "Closed"
  /\ \/ p.type = "sync" /\ (Listens(h) => inuse[h])
     \/ p.type # "sync" /\ Listens(h)
  /\ Reply(rest, {ilreject(h, p)})
  /\ UNCHANGED <<cb, app, hung, up, kick, tick>>

(* A new call, processed in Ilsyncee. *)
Newcall(h, p, rest) ==
  /\ Listens(h) /\ Free(h) /\ p.type = "sync" /\ Open(h)
  /\ LET ic == [ilcbinit(cb[h], NextStart(h), "Syncee") EXCEPT !.rstart = p.id]
     IN  IF p.ack # 0 THEN Put(h, illocalclose(ic)) /\ net' = rest
         ELSE /\ Put(h, Acked([ic EXCEPT !.recvd = p.id], p.id))
              /\ Reply(rest, {ilsendctl(h, "sync", ic.start, p.id, 0)})

(* Mutant: the ack of the sync is not compared with start. *)
M_Syncer(h, p, rest) ==
  LET ic == cb[h]
      est == [ic EXCEPT !.recvd = p.id, !.rstart = p.id, !.state = "Established", !.rexmit = 0]
  IN  /\ ic.state = "Syncer"
      /\ \/ /\ p.type = "sync"
            /\ Put(h, Acked(est, p.id)) /\ Reply(rest, {ilsendctl(h, "ack", ic.next, p.id, 0)})
            /\ UNCHANGED hung
         \/ /\ p.type = "close" /\ p.ack = ic.start
            /\ ilhangup(h, ic) /\ net' = rest
      /\ UNCHANGED <<app, up, kick, tick>>

(* _ilprocess in Ilsyncer.  ilpullup finds nothing: data was not accepted  *)
(* in this state.                                                          *)
Syncer(h, p, rest) ==
  LET ic == cb[h]
      est == [ic EXCEPT !.recvd = p.id, !.rstart = p.id, !.state = "Established", !.rexmit = 0]
  IN  /\ ic.state = "Syncer"
      /\ \/ /\ p.type = "sync" /\ p.ack = ic.start
            /\ Put(h, Acked(est, p.id)) /\ Reply(rest, {ilsendctl(h, "ack", ic.next, p.id, 0)})
            /\ UNCHANGED hung
         \/ /\ (p.type = "sync" /\ p.ack # ic.start) \/ (p.type = "close" /\ p.ack = ic.start)
            /\ ilhangup(h, ic) /\ net' = rest
      /\ UNCHANGED <<app, up, kick, tick>>

(* ... in Ilsyncee (data that establishes the connection is in Data). *)
Syncee(h, p, rest) ==
  LET ic == cb[h]
  IN  /\ ic.state = "Syncee"
      /\ \/ /\ p.type = "sync" /\ p.id = ic.rstart /\ p.ack = 0
            /\ Put(h, Acked([ic EXCEPT !.recvd = p.id], p.id))
            /\ Reply(rest, {ilsendctl(h, "sync", ic.start, p.id, 0)}) /\ UNCHANGED hung
         \/ /\ p.type = "sync" /\ ~(p.id = ic.rstart /\ p.ack = 0)
            /\ Put(h, illocalclose(ic)) /\ net' = rest /\ UNCHANGED hung
         \/ /\ p.type = "ack" /\ p.ack = ic.start
            /\ Put(h, [ic EXCEPT !.state = "Established", !.rexmit = 0])
            /\ net' = rest /\ UNCHANGED hung
         \/ /\ p.type = "close" /\ p.ack = ic.start
            /\ ilhangup(h, ic) /\ net' = rest
      /\ UNCHANGED <<app, up, kick, tick>>

(* Ildata and Ildataquery in Ilestablished, and Ildata in Ilsyncee when it *)
(* acknowledges the sync: dropped while rq is full, except a dataquery.    *)
Data(h, p, rest) ==
  LET ic   == cb[h]
      est  == IF ic.state = "Syncee" THEN [ic EXCEPT !.state = "Established", !.rexmit = 0] ELSE ic
      full == p.type = "data" /\ rq[h] >= Maxrq
      new  == iloutoforder(ilackto(est, p.ack), p)
      done == ilpullup(new)
  IN  /\ \/ ic.state = "Established" /\ p.type \in {"data", "dataquery"}
         \/ ic.state = "Syncee" /\ p.type = "data" /\ p.ack = ic.start
      /\ IF full THEN Put(h, est) /\ net' = rest /\ UNCHANGED up
         ELSE /\ Pass(h, new)
              /\ IF p.type = "data" THEN Put(h, done) /\ net' = rest
                 ELSE /\ Put(h, Acked(done, done.recvd))
                      /\ Reply(rest, {ilsendctl(h, "state", done.next, done.recvd, p.spec)})
      /\ UNCHANGED <<app, hung, kick, tick>>

(* Ilstate in Ilestablished: the peer lacks what had been sent when it was *)
(* asked.                                                                  *)
State(h, p, rest) ==
  LET ic == ilackto(cb[h], p.ack)
  IN  /\ cb[h].state = "Established" /\ p.type = "state"
      /\ IF ic.qt[p.spec] > p.ack /\ ic.unacked # <<>>
         THEN Put(h, ilrexmit(ic)) /\ Reply(rest, {Rexmitted(h, ic)})
         ELSE Put(h, ic) /\ net' = rest
      /\ UNCHANGED <<app, hung, up, kick, tick>>

(* Ilsync, Ilack, Ilquery and Ilclose in Ilestablished. *)
Control(h, p, rest) ==
  LET ic == cb[h]
  IN  /\ ic.state = "Established"
      /\ \/ /\ p.type = "sync" /\ p.id # ic.rstart
            /\ ilhangup(h, ic) /\ net' = rest
         \/ /\ p.type = "sync" /\ p.id = ic.rstart
            /\ Put(h, Acked(ic, ic.rstart))
            /\ Reply(rest, {ilsendctl(h, "ack", ic.next, ic.rstart, 0)}) /\ UNCHANGED hung
         \/ /\ p.type = "ack"
            /\ Put(h, ilackto(ic, p.ack)) /\ net' = rest /\ UNCHANGED hung
         \/ /\ p.type = "query"
            /\ Put(h, Acked(ilackto(ic, p.ack), ic.recvd))
            /\ Reply(rest, {ilsendctl(h, "state", ic.next, ic.recvd, p.spec)}) /\ UNCHANGED hung
         \/ /\ p.type = "close" /\ p.ack >= ic.start /\ p.ack <= ic.next
            /\ Put(h, ilfreeq(Acked([ic EXCEPT !.recvd = p.id, !.state = "Closing"], p.id)))
            /\ Reply(rest, {ilsendctl(h, "close", ic.next, p.id, 0)}) /\ UNCHANGED hung
      /\ UNCHANGED <<app, up, kick, tick>>

(* Ilclose in Ilclosing: answered with a close, over when ours is acked. *)
Closing(h, p, rest) ==
  LET ic == Acked([cb[h] EXCEPT !.recvd = p.id], p.id)
  IN  /\ ic.state = "Closing" /\ p.type = "close"
      /\ Reply(rest, {ilsendctl(h, "close", ic.next, p.id, 0)})
      /\ IF p.ack = ic.next THEN ilhangup(h, ic) ELSE Put(h, ic) /\ UNCHANGED hung
      /\ UNCHANGED <<app, up, kick, tick>>

(* The network delivers a packet, or loses it; a packet that no case above *)
(* takes is dropped, which is as if it were lost.                          *)
iliput(h) ==
  \E p \in {q \in net : q.to = h} : \E rest \in {net, net \ {p}} :
    \/ Reject(h, p, rest) \/ Newcall(h, p, rest) \/ Syncer(h, p, rest) \/ Syncee(h, p, rest)
    \/ Data(h, p, rest) \/ State(h, p, rest) \/ Control(h, p, rest) \/ Closing(h, p, rest)

Lose ==
  /\ \E p \in net : net' = net \ {p}
  /\ UNCHANGED <<cb, app, hung, up, kick, tick>>

(* iladvise: a packet of ours could not be delivered. *)
iladvise(h) ==
  /\ bound.cut /\ cb[h].state = "Syncer" /\ ilhangup(h, cb[h])
  /\ UNCHANGED <<app, up, kick, tick, net>>

-----------------------------------------------------------------------------
(* ilackproc: read the state ... *)
TickRead(h) ==
  /\ h \in bound.racing /\ tick[h] = "" /\ cb[h].state # "Closed"
  /\ tick' = [tick EXCEPT ![h] = cb[h].state]
  /\ UNCHANGED <<cb, app, hung, up, kick, net>>

(* ... and look at the timers.  Several of Ilestablished may be due in one *)
(* round: the model takes a round for each.                                *)
Seen(h) == IF h \in bound.racing THEN tick[h] ELSE cb[h].state
Ticked(h) ==
  /\ Seen(h) \notin {"", "Closed"}
  /\ tick' = [tick EXCEPT ![h] = ""] /\ UNCHANGED <<app, up, kick>>

TickNone(h) == Ticked(h) /\ UNCHANGED <<cb, hung, net>>

(* The retransmission timer. *)
TickTimeout(h) ==
  LET ic == cb[h]
  IN  /\ Ticked(h)
      /\ Seen(h) = "Established" => ic.unacked # <<>>
      /\ \/ /\ ic.rexmit > MaxRexmit
            /\ ilhangup(h, ic) /\ UNCHANGED net
         \/ /\ ic.rexmit <= MaxRexmit /\ Seen(h) = "Closing"
            /\ Put(h, ilbackoff(Acked(ic, ic.recvd))) /\ UNCHANGED hung
            /\ Xmit({ilsendctl(h, "close", ic.next, ic.recvd, 0)})
         \/ /\ ic.rexmit <= MaxRexmit /\ Seen(h) \in {"Syncer", "Syncee"}
            /\ Put(h, ilbackoff(Acked(ic, ic.recvd))) /\ UNCHANGED hung
            /\ Xmit({ilsendctl(h, "sync", ic.start, ic.recvd, 0)})
         \/ /\ ic.rexmit <= MaxRexmit /\ Seen(h) = "Established"
            /\ Put(h, ilbackoff(Acked(ilnextqt(ic), ic.recvd))) /\ UNCHANGED hung
            /\ Xmit({ilsendctl(h, "query", ic.next, ic.recvd, ilnextqt(ic).qtx)})

(* acktime: what was received is acknowledged. *)
TickAck(h) ==
  LET ic == cb[h]
  IN  /\ Seen(h) = "Established" /\ ic.recvd # ic.acksent /\ Ticked(h)
      /\ Put(h, Acked(ic, ic.recvd)) /\ UNCHANGED hung
      /\ Xmit({ilsendctl(h, "ack", ic.next, ic.recvd, 0)})

(* querytime: a query, or the end when nothing came for DeathTime. *)
TickQuery(h) ==
  LET ic == cb[h]
  IN  /\ Seen(h) = "Established" /\ Ticked(h)
      /\ \/ bound.cut /\ ilhangup(h, ic) /\ UNCHANGED net
         \/ /\ Put(h, Acked(ilnextqt(ic), ic.recvd)) /\ UNCHANGED hung
            /\ Xmit({ilsendctl(h, "query", ic.next, ic.recvd, ilnextqt(ic).qtx)})

Tick(h) == TickNone(h) \/ TickTimeout(h) \/ TickAck(h) \/ TickQuery(h)

Next ==
  \/ ilconnect \/ Lose
  \/ \E h \in Ends :
       \/ ilclose(h) \/ Read(h) \/ KickHangup(h) \/ KickTest(h) \/ KickSend(h)
       \/ iliput(h) \/ iladvise(h)
       \/ TickRead(h) \/ Tick(h)

(* ilackproc comes round for ever, and a timer that is set expires. *)
Fairness == \A h \in Ends : WF_vars(TickRead(h)) /\ WF_vars(Tick(h)) /\ SF_vars(TickTimeout(h))

Spec == Init /\ [][Next]_vars /\ Fairness

-----------------------------------------------------------------------------
(* What rq was given on a connection is what the peer wrote on it, from    *)
(* the first message on, each once and in order (ilpullup), whatever the   *)
(* network loses, doubles and delays and whoever retransmits, provided     *)
(* that the starts of connections one after the other are more than a      *)
(* window apart, as they are in MCIl.  nrand does not see to that: a late  *)
(* message of an old connection may lie in the window of the new one.      *)
InOrder ==
  \A h \in Ends : \A i \in DOMAIN passed[h] : passed[h][i] = <<cb[h].rstart, i>>

(* A message that was sent and is no longer kept for retransmission was    *)
(* given to the peer's rq (ilackq, ilackto).  It depends on the starts: an *)
(* old acknowledgement frees messages of a connection that nrand gave a    *)
(* lower start than the one before.  The starts of MCIl increase.          *)
AckedReceived ==
  \A h \in Ends :
    LET ic == cb[h]
    IN  ic.state \in {"Syncer", "Syncee", "Established"} =>
          \A n \in ic.start + 1 .. ic.next - 1 :
            (\E b \in ToSet(ic.unacked) : b.id = n) \/ <<ic.start, n - ic.start>> \in got[Peer(h)]

(* Two established ends are on the same connection, or neither takes the   *)
(* other's start for its peer's: an old sync cannot bring about a          *)
(* connection that only one of the two means.                              *)
StartsAgree ==
  (\A h \in Ends : cb[h].state = "Established") =>
    (cb["c"].rstart = cb["s"].start <=> cb["s"].rstart = cb["c"].start)

(* A conversation always comes back to rest, closed or with all it wrote   *)
(* acknowledged: no call, close or message waits for ever for a peer that  *)
(* is gone or a packet that was lost (ilackproc, MaxRexmit).               *)
ComesToRest ==
  \A h \in Ends :
    []<>(cb[h].state = "Closed" \/ (cb[h].state = "Established" /\ cb[h].unacked = <<>>))
=============================================================================

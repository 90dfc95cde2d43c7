------------------------------- MODULE Lib9p -------------------------------
(***************************************************************************)
(* lib9p, the library the file servers of LP49 are written with (srv.c,    *)
(* req.c, fid.c, intmap.c of src/lib9p).  The srv loop takes a request and *)
(* calls its handler; the program behind it answers with respond at once   *)
(* or later, from another thread.  A client sends requests whose tags are  *)
(* not in use, and does not use a fid before the request that makes it has *)
(* been answered.                                                          *)
(*                                                                         *)
(* Requests and fids are numbered as they are allocated and their numbers  *)
(* not used again, so a stale pointer shows.  incref and decref are plain  *)
(* r->ref++ and --r->ref, so one of two updates of a count at the same     *)
(* time may be lost; the model ends where that happens (LostUpdate).  A    *)
(* file tree (srv->tree) is not modelled; Twstat is as Tstat.              *)
(***************************************************************************)
EXTENDS Integers, FiniteSetsExt, SequencesExt

CONSTANTS Tags, Fids,  \* what the client uses, sets of numbers
          Workers,     \* threads of the program that answer requests
          Uses,        \* what a client does: the types of its requests, and as
                       \* bounds their number, the tags and the fids it uses
          Nobody

ASSUME Lib9pAssumption ==
  /\ 0 \notin Fids \cup Tags /\ Tags \subseteq Nat /\ Nobody \notin Workers \cup {"srv"}
  /\ Uses \subseteq [types : SUBSET STRING, tags : SUBSET Tags, fids : SUBSET Fids, reqs : Nat]

VARIABLES
  use,    \* one of Uses
  mem,    \* the server's memory: fid and req objects, fpool and rpool
  th,     \* th[t]: the calls of respond that thread t is in, innermost last
  wlock,  \* who has srv->wlock
  out,    \* replies under way to the client
  has,    \* fids the client has, as far as it knows
  lost    \* an update of a count was lost

vars == <<use, mem, th, wlock, out, has, lost>>

Threads == {"srv"} \cup Workers

Init ==
  /\ use \in Uses
  /\ mem = [fid |-> <<>>, req |-> <<>>, fpool |-> [n \in Fids |-> 0], rpool |-> [t \in Tags |-> 0]]
  /\ th = [t \in Threads |-> <<>>] /\ wlock = Nobody /\ out = <<>> /\ has = {}
  /\ lost = FALSE

-----------------------------------------------------------------------------
(* Fids (fid.c): s is the memory, r a request, its field the one that      *)
(* refers to the fid.                                                      *)
Set(s, r, field, f) == [s EXCEPT !.req[r] = [@ EXCEPT ![field] = f]]

Freed == [ref |-> 0, omode |-> -1]

allocfid(s, r, field, n) ==
  LET f == Len(s.fid) + 1
  IN  Set([s EXCEPT !.fid = Append(@, [ref |-> 2, omode |-> -1]), !.fpool[n] = f], r, field, f)

lookupfid(s, r, field, n) ==
  Set([s EXCEPT !.fid[s.fpool[n]].ref = @ + 1], r, field, s.fpool[n])

closefid(s, f) ==
  IF f = 0 THEN s
  ELSE [s EXCEPT !.fid[f] = IF @.ref = 1 THEN Freed ELSE [@ EXCEPT !.ref = @ - 1]]

(* The reference of the map goes to the caller. *)
removefid(s, n) == [s EXCEPT !.fpool[n] = 0]

(* Requests (req.c).  The last reference gone, a request lets go of what   *)
(* it refers to; its flushes have been answered.                           *)
NoMsg == [type |-> "", tag |-> 0, fidno |-> 0, other |-> 0, mode |-> 0, oldtag |-> 0]
NewReq(n) ==
  [ref |-> n, fid |-> 0, newfid |-> 0, afid |-> 0, oldreq |-> 0, flush |-> <<>>,
   responded |-> n = 0, parked |-> FALSE, written |-> n = 0, after |-> {}]

RECURSIVE closereq(_, _)
closereq(s, r) ==
  LET q == s.req[r]
      t == [s EXCEPT !.req[r] = NoMsg @@ NewReq(0)]
      u == closefid(closefid(closefid(t, q.fid), q.newfid), q.afid)
  IN  IF q.ref # 1 THEN [s EXCEPT !.req[r].ref = @ - 1]
      ELSE IF q.oldreq = 0 THEN u ELSE closereq(u, q.oldreq)

(* allocreq, in getreq.  Not in the code: written, the reply has gone out; *)
(* after, what a flush has to wait for.                                    *)
allocreq(q) ==
  LET old == {o \in DOMAIN mem.req : mem.req[o].tag = q.oldtag /\ ~mem.req[o].written}
  IN  [mem EXCEPT !.req = Append(@, [q @@ NewReq(2) EXCEPT !.after = old]),
                  !.rpool[q.tag] = Len(mem.req) + 1]

-----------------------------------------------------------------------------
(* The handlers of srv.c: s with request r allocated, q what it asks.  The *)
(* result says whether respond is called, or the program behind it.        *)
Do(s, next) == [s |-> s, next |-> next]

sauth(s, r, q) ==
  IF s.fpool[q.fidno] # 0 THEN Do(s, "error") ELSE Do(allocfid(s, r, "afid", q.fidno), "app")

sattach(s, r, q) ==
  LET t == allocfid(s, r, "fid", q.fidno)
  IN  IF s.fpool[q.fidno] # 0 THEN Do(s, "error")
      ELSE IF q.other = 0 THEN Do(t, "app")
      ELSE IF t.fpool[q.other] = 0 THEN Do(t, "error")
      ELSE Do(lookupfid(t, r, "afid", q.other), "app")

(* mode says of a walk that it has names and starts at no directory. *)
swalk(s, r, q) ==
  LET t == lookupfid(s, r, "fid", q.fidno)
  IN  IF s.fpool[q.fidno] = 0 THEN Do(s, "error")
      ELSE IF t.fid[t.req[r].fid].omode # -1 \/ q.mode = 1 THEN Do(t, "error")
      ELSE IF q.fidno = q.other THEN Do(lookupfid(t, r, "newfid", q.fidno), "app")
      ELSE IF t.fpool[q.other] # 0 THEN Do(t, "error")
      ELSE Do(allocfid(t, r, "newfid", q.other), "app")

(* sopen, screate, sread, swrite, sstat and swstat; OEXEC is 3, and so is  *)
(* omode & 3 when the fid is not open.                                     *)
ModeAllows(type, omode) ==
  CASE type \in {"open", "create"} -> omode = -1
    [] type = "read"  -> omode % 4 \in {0, 2, 3}
    [] type = "write" -> omode % 4 \in {1, 2}
    [] OTHER -> TRUE

sfid(s, r, q) ==
  LET t == lookupfid(s, r, "fid", q.fidno)
  IN  IF s.fpool[q.fidno] = 0 THEN Do(s, "error")
      ELSE Do(t, IF ModeAllows(q.type, t.fid[t.req[r].fid].omode) THEN "app" ELSE "error")

(* sclunk and sremove *)
sclunk(s, r, q) ==
  IF s.fpool[q.fidno] = 0 THEN Do(s, "error")
  ELSE Do(removefid(Set(s, r, "fid", s.fpool[q.fidno]), q.fidno),
          IF q.type = "remove" THEN "app" ELSE "ok")

sflush(s, r, q) ==
  LET o == s.rpool[q.oldtag]
  IN  IF o = 0 THEN Do(s, "ok")
      ELSE Do(Set([s EXCEPT !.req[o].ref = @ + 1], r, "oldreq", o), IF o = r THEN "ok" ELSE "app")

Handle(s, r, q) ==
  CASE q.type = "version" -> Do(s, "ok")
    [] q.type = "auth"    -> sauth(s, r, q)
    [] q.type = "attach"  -> sattach(s, r, q)
    [] q.type = "flush"   -> sflush(s, r, q)
    [] q.type = "walk"    -> swalk(s, r, q)
    [] q.type \in {"clunk", "remove"} -> sclunk(s, r, q)
    [] OTHER -> sfid(s, r, q)

-----------------------------------------------------------------------------
(* Requests whose answer the client has not received. *)
Waited    == {q \in ToSet(mem.req) : ~q.written} \cup ToSet(out)
Idle      == use.tags \ {w.tag : w \in Waited}
Makes(q)  == IF q.type = "walk" THEN {q.other} \ {q.fidno}
             ELSE IF q.type \in {"auth", "attach"} THEN {q.fidno} ELSE {}
Takes(q)  == IF q.type \in {"clunk", "remove"} THEN {q.fidno} ELSE {}

(* What a client may ask, with the first tag that is not in use. *)
Msgs(type) ==
  [type   : {type},
   tag    : {t \in Idle : \A u \in Idle : t <= u},
   fidno  : IF type \in {"version", "flush"} THEN {0} ELSE use.fids,
   other  : CASE type = "walk" -> use.fids [] type = "attach" -> use.fids \cup {0} [] OTHER -> {0},
   mode   : IF type \in {"open", "create", "walk"} THEN {0, 1} ELSE {0},
   oldtag : IF type = "flush" THEN use.tags ELSE {0}]

May(q) ==
  \A w \in Waited : {q.fidno, q.other} \cap (Makes(w) \cup Takes(w)) = {}

-----------------------------------------------------------------------------
(* A call of respond(r, e). *)
Frame(r, e) == [r |-> r, e |-> e, at |-> "hand", i |-> 1]
Calls(t, frames) == th' = [th EXCEPT ![t] = frames]

(* What the program answers; rflush asserts that a flush does not fail. *)
Outcomes(type) ==
  CASE type = "walk"  -> {"ok", "error", "partial"}
    [] type = "flush" -> {"ok"}
    [] OTHER          -> {"ok", "error"}

(* The program leaves r for later. *)
Park(s, r, b) == [s EXCEPT !.req[r].parked = b]

(* srv: getreq, the handler, and the program when it is called: it answers *)
(* r or leaves it.  srv->flush may answer the old request first.           *)
srv ==
  /\ th["srv"] = <<>> /\ Len(mem.req) < use.reqs
  /\ \E type \in use.types : \E q \in Msgs(type) :
       LET r == Len(mem.req) + 1
           h == Handle(allocreq(q), r, q)
           o == h.s.req[r].oldreq
       IN  /\ May(q)
           /\ \/ /\ h.next # "app" /\ mem' = h.s /\ Calls("srv", <<Frame(r, h.next)>>)
              \/ /\ h.next = "app"
                 /\ \/ \E e \in Outcomes(type) : mem' = h.s /\ Calls("srv", <<Frame(r, e)>>)
                    \/ mem' = Park(h.s, r, TRUE) /\ UNCHANGED th
              \/ /\ h.next = "app" /\ type = "flush" /\ h.s.req[o].parked
                 /\ \E e \in Outcomes(mem.req[o].type) \ {"partial"} :
                      Calls("srv", <<Frame(r, "ok"), Frame(o, e)>>)
                 /\ mem' = Park(h.s, o, FALSE)
  /\ UNCHANGED <<use, wlock, out, has, lost>>

(* A thread of the program answers a request that was left. *)
Answer(t) ==
  /\ th[t] = <<>>
  /\ \E r \in DOMAIN mem.req : \E e \in Outcomes(mem.req[r].type) :
       mem.req[r].parked /\ mem' = Park(mem, r, FALSE) /\ Calls(t, <<Frame(r, e)>>)
  /\ UNCHANGED <<use, wlock, out, has, lost>>

(* respond, innermost call of t. *)
Top(t)      == Last(th[t])
At(t, at)   == th[t] # <<>> /\ Top(t).at = at
Goto(t, at) == Calls(t, [th[t] EXCEPT ![Len(th[t])].at = at])
Return(t)   == Calls(t, Front(th[t]))

(* Mutant: the number is given free and the reference of the map kept. *)
M_Undo(s, n) == removefid(s, n)

(* A fid that was allocated for a request that failed goes. *)
Undo(s, n) == closefid(removefid(s, n), s.fpool[n])

(* Mutant: a fid walked to halfway stays. *)
M_Hand(s, r, e) ==
  LET q == s.req[r]
  IN  CASE q.type = "auth" /\ e = "error" /\ q.afid # 0  -> Undo(s, q.fidno)
        [] q.type = "attach" /\ e = "error" /\ q.fid # 0 -> Undo(s, q.fidno)
        [] q.type = "walk" /\ e = "error" /\ q.fidno # q.other /\ q.newfid # 0 -> Undo(s, q.other)
        [] q.type \in {"open", "create"} /\ e = "ok" -> [s EXCEPT !.fid[q.fid].omode = q.mode]
        [] OTHER -> s

(* rauth, rattach, rwalk, ropen and rcreate; the others change nothing     *)
(* that is modelled.                                                       *)
Hand(s, r, e) ==
  LET q == s.req[r]
  IN  CASE q.type = "auth" /\ e = "error" /\ q.afid # 0  -> Undo(s, q.fidno)
        [] q.type = "attach" /\ e = "error" /\ q.fid # 0 -> Undo(s, q.fidno)
        [] q.type = "walk" /\ e # "ok" /\ q.fidno # q.other /\ q.newfid # 0 -> Undo(s, q.other)
        [] q.type \in {"open", "create"} /\ e = "ok" -> [s EXCEPT !.fid[q.fid].omode = q.mode]
        [] OTHER -> s

RespondHand(t) ==
  /\ At(t, "hand") /\ mem.req[Top(t).r].type # "flush"
  /\ mem' = Hand(mem, Top(t).r, Top(t).e)
  /\ Goto(t, "send")
  /\ UNCHANGED <<use, wlock, out, has, lost>>

(* Mutant: the flush does not wait. *)
M_rflush(t) ==
  /\ At(t, "hand") /\ mem.req[Top(t).r].type = "flush" /\ Goto(t, "send")
  /\ LET r == Top(t).r
         o == mem.req[r].oldreq
     IN  mem' = IF o = 0 THEN mem ELSE closereq(Set(mem, r, "oldreq", 0), o)
  /\ UNCHANGED <<use, wlock, out, has, lost>>

(* rflush: a flush is put off until the old request has been answered. *)
rflush(t) ==
  /\ At(t, "hand") /\ mem.req[Top(t).r].type = "flush"
  /\ LET r == Top(t).r
         o == mem.req[r].oldreq
     IN  IF o # 0 /\ ~mem.req[o].responded
         THEN mem' = [mem EXCEPT !.req[o].flush = Append(@, r)] /\ Return(t)
         ELSE /\ mem' = IF o = 0 THEN mem ELSE closereq(Set(mem, r, "oldreq", 0), o)
              /\ Goto(t, "send")
  /\ UNCHANGED <<use, wlock, out, has, lost>>

(* The reply: with wlock, the tag is given free and the reply written. *)
RespondLock(t) ==
  /\ At(t, "send") /\ wlock = Nobody /\ wlock' = t
  /\ LET r == Top(t).r
     IN  mem' = closereq([mem EXCEPT !.rpool[mem.req[r].tag] = 0], r)
  /\ Goto(t, "write") /\ UNCHANGED <<use, out, has, lost>>

(* What the client sees of it. *)
Reply(q, e) == [type |-> q.type, tag |-> q.tag, fidno |-> q.fidno, other |-> q.other, e |-> e]

RespondWrite(t) ==
  /\ At(t, "write") /\ wlock' = Nobody
  /\ mem' = [mem EXCEPT !.req[Top(t).r].written = TRUE]
  /\ out' = Append(out, Reply(mem.req[Top(t).r], Top(t).e))
  /\ Goto(t, "wrote") /\ UNCHANGED <<use, has, lost>>

(* No one will add flushes now ... *)
RespondDone(t) ==
  /\ At(t, "wrote") /\ Goto(t, "flushes")
  /\ mem' = [mem EXCEPT !.req[Top(t).r].responded = TRUE]
  /\ UNCHANGED <<use, wlock, out, has, lost>>

(* Mutant: the flushes are forgotten. *)
M_RespondFlushes(t) ==
  /\ At(t, "flushes") /\ Return(t)
  /\ mem' = closereq([mem EXCEPT !.req[Top(t).r].flush = <<>>], Top(t).r)
  /\ UNCHANGED <<use, wlock, out, has, lost>>

(* ... and those there are answered; then r is let go. *)
RespondFlushes(t) ==
  /\ At(t, "flushes")
  /\ LET f  == Top(t)
         fl == mem.req[f.r].flush
     IN  IF f.i <= Len(fl)
         THEN /\ Calls(t, Append([th[t] EXCEPT ![Len(th[t])].i = @ + 1], Frame(fl[f.i], "ok")))
              /\ UNCHANGED mem
         ELSE mem' = closereq([mem EXCEPT !.req[f.r].flush = <<>>], f.r) /\ Return(t)
  /\ UNCHANGED <<use, wlock, out, has, lost>>

Respond(t) ==
  \/ RespondHand(t) \/ rflush(t) \/ RespondLock(t) \/ RespondWrite(t)
  \/ RespondDone(t) \/ RespondFlushes(t)

(* The client receives a reply. *)
Receive ==
  /\ out # <<>> /\ out' = Tail(out)
  /\ LET q == Head(out)
     IN  has' = (IF q.e = "ok" THEN has \cup Makes(q) ELSE has) \ Takes(q)
  /\ UNCHANGED <<use, mem, th, wlock, lost>>

(* The memory after the next step of respond in t that updates counts. *)
After(t) ==
  LET r == Top(t).r
      o == mem.req[r].oldreq
      flush == mem.req[r].type = "flush"
  IN  CASE At(t, "hand") /\ ~flush -> Hand(mem, r, Top(t).e)
        [] At(t, "hand") /\ flush /\ o # 0 /\ mem.req[o].responded -> closereq(Set(mem, r, "oldreq", 0), o)
        [] At(t, "send") /\ wlock = Nobody -> closereq(mem, r)
        [] At(t, "flushes") /\ Top(t).i > Len(mem.req[r].flush) -> closereq(mem, r)
        [] OTHER -> mem

(* ... of t inside respond, or of the srv loop, in the handler of a request. *)
Afters(t) ==
  IF th[t] # <<>> THEN {After(t)}
  ELSE {Handle(allocreq(q), Len(mem.req) + 1, q).s :
          q \in {q \in UNION {Msgs(type) : type \in use.types} :
                   t = "srv" /\ Len(mem.req) < use.reqs /\ May(q)}}

(* The requests or the fids whose count differs. *)
Updated(a, b) == {i \in DOMAIN a : a[i].ref # b[i].ref}
Keep(old, new, on) ==
  [i \in DOMAIN new |-> IF i \in on THEN [new[i] EXCEPT !.ref = old[i].ref] ELSE new[i]]

(* t loads a count, u loads it, t stores what it makes of it, u stores     *)
(* what it does: the update of t is lost.                                  *)
LostUpdate(t, u) ==
  /\ th[u] # <<>> /\ After(u) # mem
  /\ \E s \in Afters(t) :
       LET reqs == Updated(mem.req, s.req) \cap Updated(mem.req, After(u).req)
           fids == Updated(mem.fid, s.fid) \cap Updated(mem.fid, After(u).fid)
       IN  /\ reqs # {} \/ fids # {}
           /\ mem' = [s EXCEPT !.req = Keep(mem.req, @, reqs), !.fid = Keep(mem.fid, @, fids)]
  /\ lost' = TRUE
  /\ UNCHANGED <<use, th, wlock, out, has>>

Next ==
  /\ ~lost
  /\ \/ srv \/ Receive
     \/ \E t \in Threads : Respond(t) \/ (t # "srv" /\ Answer(t))
     \/ \E t, u \in Threads : t # u /\ LostUpdate(t, u)

(* Threads inside respond run on. *)
Spec == Init /\ [][Next]_vars /\ \A t \in Threads : WF_vars(~lost /\ Respond(t))

-----------------------------------------------------------------------------
Live  == {r \in DOMAIN mem.req : mem.req[r].ref > 0}
Count(b) == IF b THEN 1 ELSE 0

(* r is with the program, in a call of respond or on a list of flushes. *)
InHand(r) ==
  \/ mem.req[r].parked
  \/ \E t \in Threads : \E i \in DOMAIN th[t] : th[t][i].r = r
  \/ ~mem.req[r].responded /\ \E x \in Live : r \in ToSet(mem.req[x].flush)

(* Until two threads update one count at the same time, every reference to *)
(* a request or a fid is counted and none is left over, whoever answers    *)
(* and in whatever order: nothing is freed in use or never (closereq,      *)
(* closefid).  respond is called once for a request (its assertion that    *)
(* r->responded is 0).  A lost update breaks it: intmap.c:98 expects of    *)
(* inc() "to have its own locking", which incref does not have.            *)
RefsExact == ~lost =>
  /\ \A r \in DOMAIN mem.req :
       mem.req[r].ref = Cardinality({t \in Tags : mem.rpool[t] = r}) + Count(InHand(r))
                        + Cardinality({x \in Live : mem.req[x].oldreq = r})
  /\ \A f \in DOMAIN mem.fid :
       mem.fid[f].ref = Cardinality({n \in Fids : mem.fpool[n] = f})
                        + Cardinality({x \in Live : mem.req[x].fid = f})
                        + Cardinality({x \in Live : mem.req[x].newfid = f})
                        + Cardinality({x \in Live : mem.req[x].afid = f})
  /\ \A t \in Threads : \A i \in DOMAIN th[t] :
       th[t][i].at # "flushes" => ~mem.req[th[t][i].r].responded

(* When every request has been answered, client and server agree on which  *)
(* fids there are, whatever failed and whatever was answered late (rwalk,  *)
(* rattach, rauth, sclunk, sremove), as long as no count went wrong.       *)
FidsAgree == ~lost /\ Waited = {} => has = {n \in Fids : mem.fpool[n] # 0}

Open(t) == {r \in DOMAIN mem.req : mem.req[r].tag = t /\ ~mem.req[r].written}
Server == INSTANCE Server9p WITH
  asked  <- {t \in Tags : Open(t) # {}},
  after  <- [t \in Tags |-> {u \in Tags : \E r \in Open(t) : Open(u) \cap mem.req[r].after # {}}],
  out    <- [i \in DOMAIN out |-> out[i].tag]

(* lib9p is a 9P server: each request is answered once, and a flush after  *)
(* the request it flushes, even if that is being answered meanwhile (up to *)
(* the first lost update of a count, as everything here).                  *)
ImplementsServer9p == Server!Spec

(* A flush of another request does not stay unanswered once that request   *)
(* and the program have answered (rflush, respond).                        *)
FlushAnswered ==
  LET Waits(q) == /\ q.type = "flush" /\ q.oldtag # q.tag /\ ~q.written /\ ~q.parked
                  /\ \A o \in q.after : mem.req[o].written
  IN  []<>(lost \/ \A r \in DOMAIN mem.req : ~Waits(mem.req[r]))
=============================================================================

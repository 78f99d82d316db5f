------------------------ MODULE FilterProcessProofs ------------------------
(***************************************************************************)
(* Proofs about FilterProcess, for every number of requests, payload       *)
(* length, cap and pipe size.                                              *)
(*                                                                         *)
(* None of the three properties is inductive.  What the watchdog counts is *)
(* compared with the silence it stands for; what git accepts and where the *)
(* filter reads are two ends of one argument, which follows the two        *)
(* streams packet by packet: where in git's request the filter reads, and  *)
(* what of an answer git has still to read.                                *)
(***************************************************************************)
EXTENDS FilterProcess, SequenceTheorems, TLAPS

AnyPacket == [k: Kinds, q: 0..N, i: Nat]

(* The types the arguments below need; TypeOK adds bounds to them. *)
Types ==
    /\ conf \in [plan: [Ids -> Plans], required: BOOLEAN, local: BOOLEAN, stall: {0, Stall}]
    /\ git \in {"send", "status1", "content", "status2", "done", "dead"}
    /\ req \in Ids /\ sent \in Nat /\ status \in {"", "success", "error"}
    /\ content \in Seq(AnyPacket)
    /\ result \in [Ids -> {"none", "accepted", "failed"}]
    /\ accepted \in [Ids -> Seq(AnyPacket)]
    /\ toF \in Seq(AnyPacket) /\ toG \in Seq(AnyPacket)
    /\ fpc \in FilterPcs
    /\ f \in [q: 0..N, lines: 0..1, got: Nat]
    /\ wr \in Seq(AnyPacket) /\ tmp \in 0..(FileLen + Surplus)
    /\ verdict \in [Ids -> {"none", "ok", "long", "err", "torn"}] /\ overrun \in BOOLEAN

-----------------------------------------------------------------------------
(* The watchdog. *)

(* The idle polls counted since the last byte are polls without a byte:    *)
(* unless bytes came since the last poll, which the next poll will notice. *)
Counted ==
    /\ conf.stall \in Nat /\ tmp \in Nat
    /\ dl \in [seen: Nat, idle: Nat, silent: Nat]
    /\ fpc = "download" => dl.seen <= tmp /\ (tmp > dl.seen \/ dl.silent >= dl.idle)
    /\ StallMeansSilence

-----------------------------------------------------------------------------
(* The two streams. *)

(* How long a request and an answer are. *)
ReqLen(q) == conf.plan[q].size + 3
AnsLen(q) == IF conf.plan[q].cmd = "clean" THEN 1 ELSE FileLen

(* What the filter has answered and git has not read. *)
Pending == toG \o wr

(* The filter has read the first a packets of git's request, and those git *)
(* wrote after them are in the pipe.                                       *)
At(a) ==
    /\ a + Len(toF) <= ReqLen(req)
    /\ \A i \in 1..Len(toF) : toF[i] = Request(req)[a + i]
    /\ ~GitEnded => a + Len(toF) = sent

Begins    == fpc \in {"start", "hdr", "write", "stopped"} /\ f = Idle /\ At(0)
InHeader  == fpc = "hdr" /\ f = [q |-> req, lines |-> 1, got |-> 0] /\ At(1)
InPayload == fpc \in {"runtime", "payload"} /\ f.q = req /\ f.lines = 0 /\ At(2 + f.got)
AtWork    == /\ fpc \in {"clean", "parse", "hot", "store", "cold", "download", "stalled",
                        "manifest"}
             /\ f.q = req /\ toF = <<>> /\ git # "send"
Finishing == fpc = "finish" /\ f.q = req /\ toF = <<>> /\ git # "send"
Answered  == fpc \in {"write", "hdr"} /\ f = Idle /\ toF = <<>> /\ git # "send"

Reading == Begins \/ InHeader \/ InPayload \/ AtWork

(* Unless a payload was given up half-read, the filter is where git's      *)
(* request has it.                                                         *)
Sync == ~overrun /\ fpc # "exited" => Reading \/ Finishing \/ Answered

(* git has nothing to read and has read nothing of an answer. *)
Unanswered ==
    /\ Pending = <<>> /\ status = "" /\ content = <<>> /\ git \in {"send", "status1"}
    /\ fpc = "exited" \/ (~overrun /\ Reading)

(* The next packet git reads is the flush left over from an error reply:   *)
(* whatever follows, the request fails and the process is stopped.         *)
Poisoned ==
    /\ Len(Pending) > 0 /\ Pending[1].k = "flush"
    /\ status = "" /\ content = <<>> /\ git \in {"send", "status1"}
    /\ fpc # "stopped"

(* git is reading an error reply. *)
Erring ==
    /\ git \in {"send", "status1"} /\ content = <<>> /\ fpc # "stopped"
    /\ overrun \/ fpc = "exited" \/ Answered
    /\ \/ /\ status = "" /\ Len(Pending) > 3
          /\ Pending[1].k = "err" /\ Pending[2].k = "errtext"
          /\ Pending[3].k = "flush" /\ Pending[4].k = "flush"
       \/ /\ status = "error" /\ git = "status1" /\ Len(Pending) > 2
          /\ Pending[1].k = "errtext" /\ Pending[2].k = "flush" /\ Pending[3].k = "flush"
       \/ /\ status = "error" /\ git = "status1" /\ Len(Pending) > 1
          /\ Pending[1].k = "flush" /\ Pending[2].k = "flush"

(* What git has read of the content is the beginning of the answer, and    *)
(* the r packets after the first h that it has to read continue it.        *)
Own(h, r) ==
    /\ \A i \in 1..Len(content) : content[i] = Pkt("out", req, i)
    /\ \A i \in 1..r : Pending[h + i] = Pkt("out", req, Len(content) + i)

(* The first h packets git has to read are what is left of the first       *)
(* status list.                                                            *)
Opening(h) ==
    \/ /\ h = 2 /\ git = "status1" /\ status = "" /\ content = <<>>
       /\ Pending[1].k = "ok" /\ Pending[2].k = "flush"
    \/ /\ h = 1 /\ git = "status1" /\ status = "success" /\ content = <<>>
       /\ Pending[1].k = "flush"
    \/ h = 0 /\ git = "content" /\ status = "success"

(* The filter has decided the request with an answer of n packets: the     *)
(* whole one, or one with a tail.                                          *)
Decided(n) ==
    \/ verdict[req] = "ok" /\ n = AnsLen(req)
    \/ verdict[req] = "long" /\ ~conf.local /\ n > AnsLen(req)

(* git has read such an answer. *)
Taken ==
    \/ verdict[req] = "ok" /\ content = Answer(req)
    \/ /\ verdict[req] = "long" /\ ~conf.local /\ Len(content) > AnsLen(req)
       /\ \A i \in 1..Len(content) : content[i] = Pkt("out", req, i)

(* git is reading the answer to its request before its last status list:   *)
(* one still being written, a whole one, or one that ended in an error.    *)
ReadsOpen(h, r) ==
    /\ Finishing /\ r + Len(content) = f.got
    /\ Len(Pending) = h + r /\ Own(h, r)
ReadsWhole(h, r) ==
    /\ Answered /\ Decided(r + Len(content))
    /\ Len(Pending) = h + r + 3 /\ Own(h, r)
    /\ Pending[h + r + 1].k = "flush" /\ Pending[h + r + 2].k = "ok"
    /\ Pending[h + r + 3].k = "flush"
ReadsTorn(h, r) ==
    /\ Answered /\ verdict[req] = "torn"
    /\ Len(Pending) = h + r + 2
    /\ \A i \in 1..r : Pending[h + i].k # "flush"
    /\ Pending[h + r + 1].k = "flush" /\ Pending[h + r + 2].k = "flush"

Answering ==
    /\ ~overrun
    /\ \E h \in 0..2, r \in 0..Len(Pending) :
         Opening(h) /\ (ReadsOpen(h, r) \/ ReadsWhole(h, r) \/ ReadsTorn(h, r))

(* git is reading the last status list. *)
Closing ==
    /\ ~overrun /\ Answered /\ git = "status2" /\ status = "success"
    /\ \/ /\ Taken
          /\ Len(Pending) \in 1..2 /\ Pending[Len(Pending)].k = "flush"
          /\ Len(Pending) = 2 => Pending[1].k = "ok"
       \/ verdict[req] = "torn" /\ Len(Pending) = 1 /\ Pending[1].k = "flush"

Phase == GitEnded \/ Unanswered \/ Poisoned \/ Erring \/ Answering \/ Closing

(* Only a request that is not decided yet is read or worked on. *)
Undecided ==
    /\ ~GitEnded => \A q \in Ids : q >= req => result[q] = "none"
    /\ \A i \in 1..Len(toF) :
         (toF[i].k = "hdr" => toF[i].q \in Ids /\ result[toF[i].q] # "accepted")
    /\ f.q \in Ids => result[f.q] # "accepted"

(* The temporary file is complete, and more than that only in server mode. *)
Filled == tmp >= FileLen /\ (tmp > FileLen => ~conf.local)

(* How far git has written, and what the filter's program counter implies. *)
Places ==
    /\ git = "send" => sent < ReqLen(req)
    /\ git \in {"status1", "content", "status2"} => sent = ReqLen(req)
    /\ wr # <<>> => fpc \in {"write", "finish"}
    /\ fpc \in {"hdr", "runtime", "payload", "drain", "exited", "stopped"} => wr = <<>>
    /\ fpc \in {"runtime", "parse", "hot", "store", "cold", "download", "stalled", "manifest",
                "finish"} =>
         f.q \in Ids /\ conf.plan[f.q].cmd = "smudge"
    /\ fpc \in {"payload", "clean"} => f.q \in Ids
    /\ fpc = "clean" => conf.plan[f.q].cmd = "clean"
    /\ fpc = "manifest" => tmp = FileLen
    /\ fpc = "finish" => f.got <= tmp /\ Filled
    /\ fpc = "stopped" => f = Idle /\ toF = <<>> /\ toG = <<>> /\ ~overrun /\ git \in {"send", "done"}
    /\ fpc = "start" => wr = <<>> /\ f = Idle
    /\ fpc = "write" => f = Idle

WireInv == Types /\ Places /\ Undecided /\ Sync /\ Phase /\ AcceptedOwn

-----------------------------------------------------------------------------
(* The packets. *)

LEMMA PacketTypes ==
    /\ Flush \in AnyPacket /\ Flush.k = "flush"
    /\ \A k \in Kinds, q \in 0..N, i \in Nat :
         Pkt(k, q, i) \in AnyPacket /\ Pkt(k, q, i).k = k /\ Pkt(k, q, i).q = q
<1>1. N \in Nat
  BY FilterAssumption
<1>2. QED
  BY <1>1 DEF Flush, Pkt, AnyPacket, Kinds

(* One sequence after another. *)
LEMMA Joined ==
    ASSUME NEW S, NEW s \in Seq(S), NEW t \in Seq(S)
    PROVE  /\ s \o t \in Seq(S) /\ Len(s \o t) = Len(s) + Len(t)
           /\ \A i \in 1..Len(s) : (s \o t)[i] = s[i]
           /\ \A i \in 1..Len(t) : (s \o t)[Len(s) + i] = t[i]
  OBVIOUS

(* The request of q, packet by packet. *)
LEMMA RequestFacts ==
    ASSUME Types, NEW q \in Ids
    PROVE  /\ ReqLen(q) \in Nat /\ ReqLen(q) > 3 /\ Len(Request(q)) = ReqLen(q)
           /\ \A i \in 1..ReqLen(q) : Request(q)[i] \in AnyPacket
           /\ Request(q)[1] = Pkt("hdr", q, 0) /\ Request(q)[2] = Flush
           /\ \A i \in 3..(ReqLen(q) - 1) : Request(q)[i] = Pkt("pay", q, i - 2)
           /\ Request(q)[ReqLen(q)] = Flush
<1> DEFINE n == conf.plan[q].size
           head == <<Pkt("hdr", q, 0), Flush>>
           body == [i \in 1..n |-> Pkt("pay", q, i)]
<1>1. n \in Nat /\ n > 0 /\ q \in 0..N
  <2>1. n \in 1..MaxPay
    BY DEF Types, Plans
  <2>2. QED
    BY <2>1, FilterAssumption DEF Ids
<1> HIDE DEF n
<1>2. head \in Seq(AnyPacket) /\ Len(head) = 2 /\ head[1] = Pkt("hdr", q, 0) /\ head[2] = Flush
  BY <1>1, PacketTypes DEF Kinds
<1>3. body \in Seq(AnyPacket) /\ Len(body) = n /\ \A i \in 1..n : body[i] = Pkt("pay", q, i)
  <2>1. \A i \in 1..n : Pkt("pay", q, i) \in AnyPacket
    BY <1>1, PacketTypes DEF Kinds
  <2>2. QED
    BY <1>1, <2>1
<1>4. <<Flush>> \in Seq(AnyPacket) /\ Len(<<Flush>>) = 1 /\ <<Flush>>[1] = Flush
  BY PacketTypes
<1>5. Request(q) = (head \o body) \o <<Flush>>
  BY DEF Request, n
<1> HIDE DEF head, body
<1>6. /\ head \o body \in Seq(AnyPacket) /\ Len(head \o body) = 2 + n
      /\ (head \o body)[1] = head[1] /\ (head \o body)[2] = head[2]
      /\ \A i \in 1..n : (head \o body)[2 + i] = body[i]
  <2>1. head \in Seq(AnyPacket) /\ body \in Seq(AnyPacket)
    BY <1>2, <1>3
  <2>2. /\ head \o body \in Seq(AnyPacket) /\ Len(head \o body) = Len(head) + Len(body)
        /\ \A i \in 1..Len(head) : (head \o body)[i] = head[i]
        /\ \A i \in 1..Len(body) : (head \o body)[Len(head) + i] = body[i]
    BY <2>1, Joined
  <2>3. 1 \in 1..2 /\ 2 \in 1..2 /\ Len(head) = 2 /\ Len(body) = n
    BY <1>2, <1>3
  <2>4. QED
    BY <2>2, <2>3, Zenon
<1>7. /\ Request(q) \in Seq(AnyPacket) /\ Len(Request(q)) = 3 + n
      /\ \A i \in 1..(2 + n) : Request(q)[i] = (head \o body)[i]
      /\ Request(q)[3 + n] = Flush
  <2> DEFINE hb == head \o body
  <2> HIDE DEF hb
  <2>1. /\ Request(q) \in Seq(AnyPacket) /\ Len(Request(q)) = Len(hb) + 1
        /\ \A i \in 1..Len(hb) : Request(q)[i] = hb[i]
        /\ Request(q)[Len(hb) + 1] = <<Flush>>[1]
    <3>1. 1 \in 1..1
      OBVIOUS
    <3>2. hb \in Seq(AnyPacket) /\ Request(q) = hb \o <<Flush>>
      BY <1>5, <1>6 DEF hb
    <3>3. QED
      BY <3>1, <3>2, <1>4, Joined
  <2>2. Len(hb) = 2 + n /\ (2 + n) + 1 = 3 + n
    BY <1>1, <1>6 DEF hb
  <2>3. QED
    BY <2>1, <2>2, <1>4 DEF hb
<1>8. ReqLen(q) = 3 + n
  BY <1>1 DEF ReqLen, n
<1>9. \A i \in 1..(3 + n) : Request(q)[i] \in AnyPacket
  BY <1>1, <1>7
<1>10. Request(q)[1] = head[1] /\ Request(q)[2] = head[2] /\ Request(q)[3 + n] = Flush
  BY <1>1, <1>6, <1>7
<1>11. \A i \in 3..(2 + n) : Request(q)[i] = Pkt("pay", q, i - 2)
  <2> SUFFICES ASSUME NEW i \in 3..(2 + n) PROVE Request(q)[i] = Pkt("pay", q, i - 2)
    OBVIOUS
  <2>1. i - 2 \in 1..n /\ i \in 1..(2 + n) /\ 2 + (i - 2) = i
    BY <1>1
  <2>2. QED
    BY <2>1, <1>3, <1>6, <1>7
<1>12. QED
  BY <1>1, <1>2, <1>7, <1>8, <1>9, <1>10, <1>11

(* The answer to q, packet by packet. *)
LEMMA AnswerFacts ==
    ASSUME Types, NEW q \in Ids
    PROVE  /\ AnsLen(q) \in Nat /\ AnsLen(q) > 0
           /\ Answer(q) \in Seq(AnyPacket) /\ Len(Answer(q)) = AnsLen(q)
           /\ \A i \in 1..AnsLen(q) : Answer(q)[i] = Pkt("out", q, i)
<1>1. AnsLen(q) \in Nat /\ AnsLen(q) > 0 /\ q \in 0..N
  BY FilterAssumption DEF AnsLen, Ids
<1>2. Answer(q) = [i \in 1..AnsLen(q) |-> Pkt("out", q, i)]
  BY DEF Answer, AnsLen
<1>3. \A i \in 1..AnsLen(q) : Pkt("out", q, i) \in AnyPacket
  BY <1>1, PacketTypes DEF Kinds
<1> HIDE DEF AnsLen, Answer
<1>4. QED
  BY <1>1, <1>2, <1>3

(* The replies, packet by packet. *)
LEMMA ReplyFacts ==
    ASSUME NEW q \in 0..N
    PROVE  /\ ErrorReply(q) \in Seq(AnyPacket) /\ Len(ErrorReply(q)) = 4
           /\ ErrorReply(q)[1].k = "err" /\ ErrorReply(q)[2].k = "errtext"
           /\ ErrorReply(q)[3].k = "flush" /\ ErrorReply(q)[4].k = "flush"
           /\ StatusList(q) \in Seq(AnyPacket) /\ Len(StatusList(q)) = 2
           /\ StatusList(q)[1].k = "ok" /\ StatusList(q)[2].k = "flush"
           /\ <<Flush>> \o StatusList(q) \in Seq(AnyPacket)
           /\ Len(<<Flush>> \o StatusList(q)) = 3
           /\ (<<Flush>> \o StatusList(q))[1].k = "flush"
           /\ (<<Flush>> \o StatusList(q))[2].k = "ok"
           /\ (<<Flush>> \o StatusList(q))[3].k = "flush"
<1>1. /\ Pkt("err", q, 0) \in AnyPacket /\ Pkt("err", q, 0).k = "err"
      /\ Pkt("errtext", q, 0) \in AnyPacket /\ Pkt("errtext", q, 0).k = "errtext"
      /\ Pkt("ok", q, 0) \in AnyPacket /\ Pkt("ok", q, 0).k = "ok"
      /\ Flush \in AnyPacket /\ Flush.k = "flush"
  BY PacketTypes DEF Kinds
<1>2. /\ ErrorReply(q) \in Seq(AnyPacket) /\ Len(ErrorReply(q)) = 4
      /\ ErrorReply(q)[1].k = "err" /\ ErrorReply(q)[2].k = "errtext"
      /\ ErrorReply(q)[3].k = "flush" /\ ErrorReply(q)[4].k = "flush"
  BY <1>1 DEF ErrorReply
<1>3. /\ StatusList(q) \in Seq(AnyPacket) /\ Len(StatusList(q)) = 2
      /\ StatusList(q)[1].k = "ok" /\ StatusList(q)[2].k = "flush"
  BY <1>1 DEF StatusList
<1>4. <<Flush>> \in Seq(AnyPacket) /\ Len(<<Flush>>) = 1 /\ <<Flush>>[1] = Flush
  BY <1>1
<1>5. /\ <<Flush>> \o StatusList(q) \in Seq(AnyPacket) /\ Len(<<Flush>> \o StatusList(q)) = 3
      /\ (<<Flush>> \o StatusList(q))[1] = Flush
      /\ (<<Flush>> \o StatusList(q))[2] = StatusList(q)[1]
      /\ (<<Flush>> \o StatusList(q))[3] = StatusList(q)[2]
  <2> DEFINE u == <<Flush>> \o StatusList(q)
  <2>1. u \in Seq(AnyPacket) /\ Len(u) = 1 + 2
    BY <1>3, <1>4, Joined
  <2>2. \A i \in 1..1 : u[i] = <<Flush>>[i]
    BY <1>3, <1>4, Joined
  <2>3. \A i \in 1..2 : u[1 + i] = StatusList(q)[i]
    BY <1>3, <1>4, Joined
  <2> HIDE DEF u
  <2>4. u[2] = StatusList(q)[1] /\ u[3] = StatusList(q)[2] /\ u[1] = <<Flush>>[1]
    <3>1. 1 + 1 = 2 /\ 1 + 2 = 3 /\ 1 \in 1..2 /\ 2 \in 1..2 /\ 1 \in 1..1
      OBVIOUS
    <3>2. u[1 + 1] = StatusList(q)[1] /\ u[1 + 2] = StatusList(q)[2]
      BY <2>3, <3>1
    <3>3. QED
      BY <3>1, <3>2, <2>2
  <2>5. QED
    BY <2>1, <2>4, <1>4 DEF u
<1>6. QED
  BY <1>1, <1>2, <1>3, <1>4, <1>5

(* A whole answer of clean: both status lists around the content. *)
CleanAnswer(q) == StatusList(q) \o Answer(q) \o <<Flush>> \o StatusList(q)

LEMMA CleanReply ==
    ASSUME Types, NEW q \in Ids
    PROVE  /\ CleanAnswer(q) \in Seq(AnyPacket) /\ Len(CleanAnswer(q)) = AnsLen(q) + 5
           /\ CleanAnswer(q)[1].k = "ok" /\ CleanAnswer(q)[2].k = "flush"
           /\ \A i \in 1..AnsLen(q) : CleanAnswer(q)[2 + i] = Pkt("out", q, i)
           /\ CleanAnswer(q)[AnsLen(q) + 3].k = "flush" /\ CleanAnswer(q)[AnsLen(q) + 4].k = "ok"
           /\ CleanAnswer(q)[AnsLen(q) + 5].k = "flush"
<1> DEFINE w == CleanAnswer(q)
           n == AnsLen(q)
           a == StatusList(q) \o Answer(q)
           b == a \o <<Flush>>
<1>1. q \in 0..N
  BY FilterAssumption DEF Ids
<1>2. /\ StatusList(q) \in Seq(AnyPacket) /\ Len(StatusList(q)) = 2
      /\ StatusList(q)[1].k = "ok" /\ StatusList(q)[2].k = "flush"
  BY <1>1, ReplyFacts
<1>3. /\ n \in Nat /\ n > 0 /\ Answer(q) \in Seq(AnyPacket) /\ Len(Answer(q)) = n
      /\ \A i \in 1..n : Answer(q)[i] = Pkt("out", q, i)
  BY AnswerFacts
<1>4. <<Flush>> \in Seq(AnyPacket) /\ Len(<<Flush>>) = 1 /\ <<Flush>>[1].k = "flush"
  BY PacketTypes
<1> HIDE DEF n
<1>0. 1 \in 1..1 /\ 1 \in 1..2 /\ 2 \in 1..2
  OBVIOUS
<1>5. /\ a \in Seq(AnyPacket) /\ Len(a) = 2 + n
      /\ a[1] = StatusList(q)[1] /\ a[2] = StatusList(q)[2]
      /\ \A i \in 1..n : a[2 + i] = Answer(q)[i]
  <2>1. StatusList(q) \in Seq(AnyPacket) /\ Answer(q) \in Seq(AnyPacket)
    BY <1>2, <1>3
  <2>2. /\ a \in Seq(AnyPacket) /\ Len(a) = Len(StatusList(q)) + Len(Answer(q))
        /\ \A i \in 1..Len(StatusList(q)) : a[i] = StatusList(q)[i]
        /\ \A i \in 1..Len(Answer(q)) : a[Len(StatusList(q)) + i] = Answer(q)[i]
    BY <2>1, Joined
  <2> HIDE DEF a
  <2>3. QED
    BY <2>2, <1>0, <1>2, <1>3, Zenon
<1> HIDE DEF a
<1>6. /\ b \in Seq(AnyPacket) /\ Len(b) = (2 + n) + 1
      /\ \A i \in 1..(2 + n) : b[i] = a[i]
      /\ b[(2 + n) + 1] = <<Flush>>[1]
  BY <1>0, <1>4, <1>5, Joined
<1>7. w = b \o StatusList(q)
  BY DEF a, CleanAnswer
<1> HIDE DEF b, w
<1>8. /\ w \in Seq(AnyPacket) /\ Len(w) = ((2 + n) + 1) + 2
      /\ \A i \in 1..((2 + n) + 1) : w[i] = b[i]
      /\ w[((2 + n) + 1) + 1] = StatusList(q)[1]
      /\ w[((2 + n) + 1) + 2] = StatusList(q)[2]
  <2>1. StatusList(q) \in Seq(AnyPacket) /\ b \in Seq(AnyPacket)
    BY <1>2, <1>6
  <2> DEFINE d == b \o StatusList(q)
  <2>2. /\ d \in Seq(AnyPacket) /\ Len(d) = Len(b) + Len(StatusList(q))
        /\ \A i \in 1..Len(b) : d[i] = b[i]
        /\ \A i \in 1..Len(StatusList(q)) : d[Len(b) + i] = StatusList(q)[i]
    BY <2>1, Joined
  <2>3. w = d
    BY <1>7
  <2> HIDE DEF d
  <2>4. QED
    BY <2>2, <2>3, <1>0, <1>2, <1>6, Zenon
<1>9. \A i \in 1..n : w[2 + i] = Pkt("out", q, i)
  <2> SUFFICES ASSUME NEW i \in 1..n PROVE w[2 + i] = Pkt("out", q, i)
    OBVIOUS
  <2>1. 2 + i \in 1..((2 + n) + 1) /\ 2 + i \in 1..(2 + n)
    BY <1>3
  <2>2. QED
    BY <2>1, <1>3, <1>5, <1>6, <1>8
<1>10. w[1].k = "ok" /\ w[2].k = "flush"
  <2>1. 1 \in 1..(2 + n) /\ 2 \in 1..(2 + n) /\ 1 \in 1..((2 + n) + 1) /\ 2 \in 1..((2 + n) + 1)
    BY <1>3
  <2>2. QED
    BY <2>1, <1>2, <1>5, <1>6, <1>8
<1>11. w[n + 3].k = "flush" /\ w[n + 4].k = "ok" /\ w[n + 5].k = "flush" /\ Len(w) = n + 5
  <2>1. /\ n + 3 = (2 + n) + 1 /\ n + 4 = ((2 + n) + 1) + 1 /\ n + 5 = ((2 + n) + 1) + 2
        /\ (2 + n) + 1 \in 1..((2 + n) + 1)
    BY <1>3
  <2>2. QED
    BY <2>1, <1>2, <1>4, <1>6, <1>8
<1>12. QED
  BY <1>8, <1>9, <1>10, <1>11 DEF n, w

-----------------------------------------------------------------------------
(* The watchdog. *)

LEMMA InitCounted == ASSUME Init PROVE Counted
<1>1. conf.stall \in Nat
  <2>1. conf.stall \in {0, Stall}
    BY DEF Init
  <2>2. QED
    BY <2>1, FilterAssumption
<1>2. tmp = 0 /\ dl = [seen |-> 0, idle |-> 0, silent |-> 0] /\ fpc = "start"
  BY DEF Init, NoDl
<1>3. QED
  BY <1>1, <1>2 DEF Counted, StallMeansSilence

LEMMA Recount ==
    ASSUME NEW d \in [seen: Nat, idle: Nat, silent: Nat]
    PROVE  /\ [d EXCEPT !.idle = @ + 1, !.silent = @ + 1] \in [seen: Nat, idle: Nat, silent: Nat]
           /\ [d EXCEPT !.idle = @ + 1, !.silent = @ + 1].seen = d.seen
           /\ [d EXCEPT !.idle = @ + 1, !.silent = @ + 1].idle = d.idle + 1
           /\ [d EXCEPT !.idle = @ + 1, !.silent = @ + 1].silent = d.silent + 1
<1>1. d.idle + 1 \in Nat /\ d.silent + 1 \in Nat
  OBVIOUS
<1>2. QED
  BY <1>1

LEMMA NextCounted == ASSUME Counted, [Next]_vars PROVE Counted'
<1> USE DEF Counted, StallMeansSilence
<1>0. /\ FileLen \in Nat /\ Surplus \in Nat /\ NoDl \in [seen: Nat, idle: Nat, silent: Nat]
      /\ NoDl.silent = 0 /\ NoDl.idle = 0 /\ NoDl.seen = 0
  BY FilterAssumption DEF NoDl
<1>1. UNCHANGED conf
  BY DEF Next, GitStep, GitSpawn, GitSend, GitPipeBroken, GitFail, GitReadStatus, GitReadContent,
     GitJudge, FilterStep, FilterStart, FilterExit, ReadHeaderLine, ReadHeaderGarbage,
     ReadHeaderEnd, EnsureRuntime, HeaderEof, ReadPayload, PayloadGivenUp, ReadPayloadEnd,
     PayloadEof, Quiet, Clean, SmudgeParse, SmudgeHot, SmudgeLocal, SmudgeStaged, SmudgeCold,
     WatchdogPoll, WatchdogAbort, WritePacket, WriteDone, FinishChunk, FinishEnd, FinishTorn,
     WriteBroken, Network, DownloadBytes, DownloadDone, FetchManifest, DownloadError, Ended, vars
<1>2. CASE DownloadBytes
  <2>1. /\ tmp' = tmp + 1 /\ dl' \in [seen: Nat, idle: Nat, silent: Nat]
        /\ dl'.seen = dl.seen /\ fpc' = fpc /\ fpc = "download"
    BY <1>2 DEF DownloadBytes
  <2>2. tmp + 1 > dl.seen /\ dl.seen <= tmp + 1
    BY <1>2 DEF DownloadBytes
  <2>3. QED
    BY <1>1, <2>1, <2>2
<1>3. CASE WatchdogPoll
  <2>1. /\ dl' \in [seen: Nat, idle: Nat, silent: Nat] /\ fpc = "download" /\ UNCHANGED tmp
        /\ dl'.silent = dl.silent + 1
        /\ \/ dl'.seen = tmp /\ dl'.idle = 0 /\ fpc' = fpc
           \/ tmp <= dl.seen /\ dl'.seen = dl.seen /\ dl'.idle = dl.idle + 1 /\ fpc' = fpc
           \/ tmp <= dl.seen /\ dl.idle + 1 >= conf.stall /\ fpc' = "stalled"
    <3>1. dl.seen \in Nat /\ dl.idle \in Nat /\ dl.silent \in Nat
      OBVIOUS
    <3>2. CASE dl' = [seen |-> tmp, idle |-> 0, silent |-> dl.silent + 1]
      BY <1>3, <3>1, <3>2 DEF WatchdogPoll
    <3>3. CASE dl' = [dl EXCEPT !.idle = @ + 1, !.silent = @ + 1]
      <4>1. /\ dl'.seen = dl.seen /\ dl'.idle = dl.idle + 1 /\ dl'.silent = dl.silent + 1
            /\ dl' \in [seen: Nat, idle: Nat, silent: Nat]
        BY <3>1, <3>3, Recount
      <4>2. QED
        BY <1>3, <4>1 DEF WatchdogPoll
    <3>4. QED
      BY <1>3, <3>2, <3>3 DEF WatchdogPoll
  <2>2. QED
    BY <1>1, <2>1
<1>4. CASE SmudgeCold
  <2>1. tmp' = 0 /\ dl' = NoDl /\ fpc' # "stalled"
    BY <1>4 DEF SmudgeCold, Report
  <2>2. QED
    BY <1>0, <1>1, <2>1
<1>5. CASE UNCHANGED vars
  BY <1>5 DEF vars, filterVars
<1>6. (GitStep \/ (FilterStep /\ ~WatchdogPoll) \/ DownloadDone \/ FetchManifest
         \/ DownloadError \/ Ended)
      => /\ tmp' \in Nat
         /\ UNCHANGED <<fpc, dl, tmp>> \/ (dl' = NoDl /\ fpc' \notin {"download", "stalled"})
            \/ (UNCHANGED dl /\ fpc' \notin {"download", "stalled"})
  <2>1. GitStep => tmp' \in Nat /\ (UNCHANGED <<fpc, dl, tmp>> 
                     \/ (dl' = NoDl /\ fpc' = "stopped") \/ (UNCHANGED dl /\ fpc' = "start"))
    <3>1. ASSUME NEW rest, GitFail(rest)
          PROVE  UNCHANGED <<fpc, dl, tmp>> \/ (dl' = NoDl /\ fpc' = "stopped" /\ tmp' = 0)
      BY <3>1 DEF GitFail
    <3>2. GitSpawn => UNCHANGED <<dl, tmp>> /\ fpc' = "start"
      BY DEF GitSpawn
    <3>3. GitSend \/ GitReadStatus \/ GitReadContent => UNCHANGED <<fpc, dl, tmp>>
      BY DEF GitSend, GitReadStatus, GitReadContent, filterVars
    <3>4. GitPipeBroken \/ GitJudge => UNCHANGED <<fpc, dl, tmp>> \/ \E rest : GitFail(rest)
      BY DEF GitPipeBroken, GitJudge, filterVars
    <3>5. QED
      BY <3>1, <3>2, <3>3, <3>4 DEF GitStep
  <2>2. Clean \/ SmudgeParse \/ SmudgeHot \/ SmudgeLocal \/ SmudgeStaged \/ WatchdogAbort
          \/ DownloadDone \/ FetchManifest \/ DownloadError
        => tmp' \in Nat /\ fpc' \notin {"download", "stalled"} /\ (dl' = NoDl \/ UNCHANGED dl)
    <3>1. /\ SmudgeHot \/ SmudgeLocal \/ SmudgeStaged \/ SmudgeParse => tmp' \in Nat
          /\ Clean \/ WatchdogAbort \/ DownloadDone \/ FetchManifest \/ DownloadError => UNCHANGED tmp
      <4>1. SmudgeHot => tmp' \in Nat
        BY <1>0 DEF SmudgeHot
      <4>2. SmudgeLocal => tmp' \in Nat
        BY <1>0 DEF SmudgeLocal
      <4>3. SmudgeStaged => tmp' \in Nat
        BY <1>0 DEF SmudgeStaged, Overwritten
      <4>4. SmudgeParse => tmp' = 0
        BY DEF SmudgeParse
      <4>5. Clean \/ WatchdogAbort \/ DownloadDone \/ FetchManifest \/ DownloadError => UNCHANGED tmp
        BY DEF Clean, WatchdogAbort, DownloadDone, FetchManifest, DownloadError
      <4>6. QED
        BY <4>1, <4>2, <4>3, <4>4, <4>5
    <3>2. ASSUME NEW v, Report(v) PROVE dl' = NoDl /\ fpc' = "write"
      BY <3>2 DEF Report
    <3>3. BeginFinish => dl' = NoDl /\ fpc' = "finish"
      BY DEF BeginFinish
    <3>4. QED
      BY <3>1, <3>2, <3>3 DEF Clean, SmudgeParse, SmudgeHot, SmudgeLocal, SmudgeStaged,
         WatchdogAbort, DownloadDone, FetchManifest, DownloadError
  <2>3. FilterStart \/ ReadHeaderLine \/ ReadHeaderGarbage \/ ReadHeaderEnd \/ EnsureRuntime
          \/ HeaderEof \/ ReadPayload \/ PayloadGivenUp \/ ReadPayloadEnd \/ PayloadEof
        => tmp' \in Nat /\ fpc' \notin {"download", "stalled"} /\ (dl' = NoDl \/ UNCHANGED dl)
    BY DEF FilterStart, ReadHeaderLine, ReadHeaderGarbage, ReadHeaderEnd, EnsureRuntime,
       HeaderEof, ReadPayload, PayloadGivenUp, ReadPayloadEnd, PayloadEof, FilterExit, Report
  <2>4. WritePacket \/ WriteDone \/ FinishChunk \/ FinishEnd \/ FinishTorn \/ WriteBroken
        => tmp' \in Nat /\ fpc' \notin {"download", "stalled"} /\ (dl' = NoDl \/ UNCHANGED dl)
    BY DEF WritePacket, WriteDone, FinishChunk, FinishEnd, FinishTorn, WriteBroken, FilterExit,
       Report, Quiet
  <2>5. Ended => UNCHANGED <<fpc, dl, tmp>>
    BY DEF Ended, vars, filterVars
  <2>6. QED
    BY <2>1, <2>2, <2>3, <2>4, <2>5 DEF FilterStep
<1>7. QED
  BY <1>0, <1>1, <1>2, <1>3, <1>4, <1>5, <1>6 DEF Next, Network

(* The watchdog gives a download up only after as many polls without a byte *)
(* as the limit says, whatever the limit and however bytes and polls        *)
(* interleave (download_cold).                                              *)
THEOREM WatchdogFair == Spec => []StallMeansSilence
<1>1. Counted => StallMeansSilence
  BY DEF Counted
<1>2. QED
  BY <1>1, InitCounted, NextCounted, PTL DEF Spec

-----------------------------------------------------------------------------
(* Types. *)

LEMMA IdleType == Idle \in [q: 0..N, lines: 0..1, got: Nat] /\ Idle.q = 0 /\ Idle.lines = 0
<1>1. 0 \in 0..N
  BY FilterAssumption
<1>2. QED
  BY <1>1 DEF Idle

LEMMA InitTypes == ASSUME Init PROVE Types
<1>1. 1 \in Ids /\ 0 \in 0..(FileLen + Surplus) /\ 0 \in 0..N
  BY FilterAssumption DEF Ids
<1>2. <<>> \in Seq(AnyPacket)
  OBVIOUS
<1>3. f \in [q: 0..N, lines: 0..1, got: Nat]
  BY IdleType DEF Init
<1>4. QED
  BY <1>1, <1>2, <1>3 DEF Init, Types, FilterPcs

(* git ends a request that failed. *)
LEMMA FailTypes ==
    ASSUME Types, NEW rest \in Seq(AnyPacket), GitFail(rest)
    PROVE  Types'
<1>1. req' \in Ids
  <2>1. req \in 1..N /\ N \in Nat
    BY FilterAssumption DEF Types, Ids
  <2>2. req' = req \/ (req # N /\ req' = req + 1)
    BY DEF GitFail
  <2>3. QED
    BY <2>1, <2>2 DEF Ids
<1>2. /\ git' \in {"send", "status1", "content", "status2", "done", "dead"}
      /\ sent' \in Nat /\ status' \in {"", "success", "error"} /\ content' \in Seq(AnyPacket)
      /\ UNCHANGED <<conf, accepted, verdict>>
  <2>1. /\ git' \in {"send", "done", "dead"} /\ sent' = 0 /\ status' = "" /\ content' = <<>>
        /\ UNCHANGED <<conf, accepted, verdict>>
    BY DEF GitFail
  <2>2. <<>> \in Seq(AnyPacket)
    OBVIOUS
  <2>3. QED
    BY <2>1, <2>2
<1>3. result' \in [Ids -> {"none", "accepted", "failed"}]
  BY DEF GitFail, Types
<1>4. /\ toF' \in Seq(AnyPacket) /\ toG' \in Seq(AnyPacket)
      /\ fpc' \in FilterPcs /\ f' \in [q: 0..N, lines: 0..1, got: Nat]
      /\ wr' \in Seq(AnyPacket) /\ tmp' \in 0..(FileLen + Surplus) /\ overrun' \in BOOLEAN
  <2>1. 0 \in 0..(FileLen + Surplus) /\ <<>> \in Seq(AnyPacket)
    BY FilterAssumption
  <2>2. CASE conf.required \/ status = "error"
    BY <2>2 DEF GitFail, Types
  <2>3. CASE ~(conf.required \/ status = "error")
    <3>1. /\ toF' = <<>> /\ toG' = <<>> /\ fpc' = "stopped" /\ f' = Idle /\ wr' = <<>> /\ tmp' = 0
          /\ overrun' = FALSE
      BY <2>3 DEF GitFail
    <3>2. QED
      BY <2>1, <3>1, IdleType DEF FilterPcs
  <2>4. QED
    BY <2>2, <2>3
<1>5. QED
  BY <1>1, <1>2, <1>3, <1>4 DEF Types

LEMMA GitTypes == ASSUME Types, Places, GitStep PROVE Types'
<1>1. CASE GitSpawn
  BY <1>1 DEF GitSpawn, Types, gitVars, FilterPcs
<1>2. CASE GitSend
  <2>1. Request(req)[sent + 1] \in AnyPacket
    <3>1. req \in Ids /\ sent \in Nat /\ sent < ReqLen(req)
      BY <1>2 DEF GitSend, Places, Types
    <3>2. ReqLen(req) \in Nat /\ \A i \in 1..ReqLen(req) : Request(req)[i] \in AnyPacket
      BY <3>1, RequestFacts
    <3>3. sent + 1 \in 1..ReqLen(req)
      BY <3>1, <3>2
    <3>4. QED
      BY <3>2, <3>3
  <2>2. /\ toF' = Append(toF, Request(req)[sent + 1]) /\ sent' = sent + 1
        /\ git' \in {"status1", "send"}
        /\ UNCHANGED <<conf, req, status, content, result, accepted, toG, filterVars>>
    BY <1>2 DEF GitSend
  <2>3. toF \in Seq(AnyPacket) /\ sent \in Nat
    BY DEF Types
  <2>4. toF' \in Seq(AnyPacket) /\ sent' \in Nat
    BY <2>1, <2>2, <2>3
  <2>5. QED
    BY <2>2, <2>4 DEF Types, filterVars
<1>3. CASE GitPipeBroken
  BY <1>3, FailTypes DEF GitPipeBroken, Types
<1>4. CASE GitReadStatus
  <2>1. /\ toG # <<>> /\ toG' = Tail(toG)
        /\ UNCHANGED <<conf, git, req, sent, content, result, accepted, toF, filterVars>>
    BY <1>4 DEF GitReadStatus
  <2>2. status' \in {"", "success", "error"}
    BY <1>4 DEF GitReadStatus, Types
  <2>3. toG' \in Seq(AnyPacket)
    <3>1. toG \in Seq(AnyPacket)
      BY DEF Types
    <3>2. QED
      BY <2>1, <3>1
  <2>4. QED
    BY <2>1, <2>2, <2>3 DEF Types, filterVars
<1>5. CASE GitReadContent
  <2>1. toG # <<>> /\ toG \in Seq(AnyPacket) /\ content \in Seq(AnyPacket)
    BY <1>5 DEF GitReadContent, Types
  <2>2. Tail(toG) \in Seq(AnyPacket) /\ Append(content, Head(toG)) \in Seq(AnyPacket)
    BY <2>1
  <2>3. QED
    BY <1>5, <2>2 DEF GitReadContent, Types, filterVars
<1>6. CASE GitJudge
  <2>1. toG # <<>> /\ toG \in Seq(AnyPacket)
    BY <1>6 DEF GitJudge, Types
  <2>2. Tail(toG) \in Seq(AnyPacket)
    BY <2>1
  <2>3. CASE git' = "content" /\ toG' = Tail(toG)
             /\ UNCHANGED <<conf, req, sent, status, content, result, accepted, toF, filterVars>>
    BY <2>2, <2>3 DEF Types, filterVars
  <2>4. CASE /\ result' = [result EXCEPT ![req] = "accepted"]
             /\ accepted' = [accepted EXCEPT ![req] = content]
             /\ git' = IF req = N THEN "done" ELSE "send"
             /\ req' = IF req = N THEN req ELSE req + 1
             /\ sent' = 0 /\ status' = "" /\ content' = <<>> /\ toG' = Tail(toG)
             /\ UNCHANGED <<conf, toF, filterVars>>
    <3>1. req' \in Ids
      <4>1. req \in 1..N /\ N \in Nat
        BY FilterAssumption DEF Types, Ids
      <4>2. req' = req \/ (req # N /\ req' = req + 1)
        BY <2>4
      <4>3. QED
        BY <4>1, <4>2 DEF Ids
    <3>2. /\ result' \in [Ids -> {"none", "accepted", "failed"}]
          /\ accepted' \in [Ids -> Seq(AnyPacket)]
      BY <2>4 DEF Types
    <3>3. /\ git' \in {"send", "status1", "content", "status2", "done", "dead"}
          /\ content' \in Seq(AnyPacket)
      <4>1. content' = <<>> /\ git' \in {"send", "done"}
        BY <2>4
      <4>2. <<>> \in Seq(AnyPacket)
        OBVIOUS
      <4>3. QED
        BY <4>1, <4>2
    <3>4. QED
      BY <2>2, <2>4, <3>1, <3>2, <3>3 DEF Types, filterVars
  <2>5. CASE GitFail(Tail(toG))
    BY <2>2, <2>5, FailTypes
  <2>6. QED
    BY <1>6, <2>3, <2>4, <2>5 DEF GitJudge
<1>7. QED
  BY <1>1, <1>2, <1>3, <1>4, <1>5, <1>6 DEF GitStep

(* A step of the filter leaves git's own state alone. *)
FilterFrame == UNCHANGED <<conf, git, req, sent, status, content, result, accepted>>

LEMMA FilterFrames == FilterStep \/ Network => FilterFrame
<1>1. FilterExit \/ Quiet => FilterFrame
  BY DEF FilterExit, Quiet, FilterFrame, gitVars
<1>2. Network => Quiet
  BY DEF Network, SmudgeCold, DownloadBytes, DownloadDone, FetchManifest, DownloadError
<1>3. Clean \/ SmudgeParse \/ SmudgeHot \/ SmudgeLocal \/ SmudgeStaged
        \/ WatchdogPoll \/ WatchdogAbort \/ FinishEnd \/ FinishTorn => Quiet
  BY DEF Clean, SmudgeParse, SmudgeHot, SmudgeLocal, SmudgeStaged, WatchdogPoll,
     WatchdogAbort, FinishEnd, FinishTorn
<1>4. FilterStart \/ ReadHeaderLine \/ ReadHeaderGarbage \/ ReadHeaderEnd \/ EnsureRuntime
        \/ HeaderEof \/ ReadPayload \/ PayloadGivenUp \/ ReadPayloadEnd \/ PayloadEof
      => FilterFrame \/ FilterExit
  BY DEF FilterStart, ReadHeaderLine, ReadHeaderGarbage, ReadHeaderEnd, EnsureRuntime, HeaderEof,
     ReadPayload, PayloadGivenUp, ReadPayloadEnd, PayloadEof, FilterFrame, gitVars
<1>5. WritePacket \/ WriteDone \/ FinishChunk \/ WriteBroken => FilterFrame \/ FilterExit
  BY DEF WritePacket, WriteDone, FinishChunk, WriteBroken, FilterFrame, gitVars
<1>6. QED
  BY <1>1, <1>2, <1>3, <1>4, <1>5 DEF FilterStep

(* What a step of the filter may change. *)
FilterTypes ==
    /\ toF \in Seq(AnyPacket) /\ toG \in Seq(AnyPacket)
    /\ fpc \in FilterPcs /\ f \in [q: 0..N, lines: 0..1, got: Nat]
    /\ wr \in Seq(AnyPacket) /\ tmp \in 0..(FileLen + Surplus)
    /\ verdict \in [Ids -> {"none", "ok", "long", "err", "torn"}] /\ overrun \in BOOLEAN

LEMMA ExitTypes == ASSUME Types, FilterExit PROVE FilterTypes'
<1>1. <<>> \in Seq(AnyPacket)
  OBVIOUS
<1>2. QED
  BY <1>1, IdleType DEF FilterExit, FilterTypes, Types, FilterPcs

LEMMA ReportTypes ==
    ASSUME Types, NEW v \in {"err", "torn"}, Report(v)
    PROVE  /\ fpc' \in FilterPcs /\ f' \in [q: 0..N, lines: 0..1, got: Nat]
           /\ wr' \in Seq(AnyPacket)
           /\ verdict' \in [Ids -> {"none", "ok", "long", "err", "torn"}]
<1>1. f.q \in 0..N
  BY DEF Types
<1>2. ErrorReply(f.q) \in Seq(AnyPacket)
  BY <1>1, ReplyFacts
<1>3. verdict' \in [Ids -> {"none", "ok", "long", "err", "torn"}]
  BY DEF Report, Types
<1>4. QED
  BY <1>2, <1>3, IdleType DEF Report, FilterPcs

LEMMA ReadTypes ==
    ASSUME Types,
           FilterStart \/ ReadHeaderLine \/ ReadHeaderGarbage \/ ReadHeaderEnd \/ EnsureRuntime
             \/ HeaderEof \/ ReadPayload \/ PayloadGivenUp \/ ReadPayloadEnd \/ PayloadEof
    PROVE  FilterTypes'
<1>0. /\ toF \in Seq(AnyPacket) /\ (Incoming => Tail(toF) \in Seq(AnyPacket))
      /\ (Incoming => Head(toF).q \in 0..N)
      /\ f.q \in 0..N /\ f.lines \in 0..1 /\ f.got \in Nat
  <2>1. toF # <<>> => Head(toF) \in AnyPacket /\ Tail(toF) \in Seq(AnyPacket)
    <3>1. toF \in Seq(AnyPacket)
      BY DEF Types
    <3>2. QED
      BY <3>1
  <2>2. QED
    BY <2>1 DEF Types, Incoming, AnyPacket
<1>1. CASE FilterExit
  BY <1>1, ExitTypes
<1>2. CASE FilterStart /\ ~FilterExit
  BY <1>2 DEF FilterStart, FilterTypes, Types, FilterPcs
<1>3. CASE ReadHeaderLine
  <2>1. /\ f' = [f EXCEPT !.lines = 1,
                         !.q = IF f.q = 0 /\ Head(toF).k = "hdr" THEN Head(toF).q ELSE f.q]
        /\ toF' = Tail(toF) /\ Incoming
        /\ UNCHANGED <<toG, fpc, wr, tmp, verdict, overrun>>
    BY <1>3 DEF ReadHeaderLine, Consume
  <2>2. (IF f.q = 0 /\ Head(toF).k = "hdr" THEN Head(toF).q ELSE f.q) \in 0..N /\ 1 \in 0..1
    BY <1>0, <2>1
  <2>3. f' \in [q: 0..N, lines: 0..1, got: Nat]
    BY <2>1, <2>2 DEF Types
  <2>4. QED
    BY <1>0, <2>1, <2>3 DEF FilterTypes, Types
<1>4. CASE ReadHeaderEnd
  <2>1. /\ f' = [f EXCEPT !.lines = 0] /\ toF' = Tail(toF) /\ Incoming
        /\ fpc' \in {"exited", "drain", "runtime", "payload"}
        /\ UNCHANGED <<toG, wr, tmp, verdict, overrun>>
    BY <1>4 DEF ReadHeaderEnd, Consume
  <2>2. f' \in [q: 0..N, lines: 0..1, got: Nat]
    <3>1. f \in [q: 0..N, lines: 0..1, got: Nat]
      BY DEF Types
    <3>2. 0 \in 0..1
      OBVIOUS
    <3>3. QED
      BY <2>1, <3>1, <3>2
  <2>3. QED
    BY <1>0, <2>1, <2>2 DEF FilterTypes, Types, FilterPcs
<1>5. CASE EnsureRuntime /\ ~FilterExit
  BY <1>5 DEF EnsureRuntime, FilterTypes, Types, FilterPcs
<1>6. CASE ReadPayload
  <2>1. /\ f' = [f EXCEPT !.got = @ + 1] /\ toF' = Tail(toF) /\ Incoming
        /\ UNCHANGED <<toG, fpc, wr, tmp, verdict, overrun>>
    BY <1>6 DEF ReadPayload, Consume
  <2>2. f.got + 1 \in Nat
    BY <1>0
  <2>3. f' \in [q: 0..N, lines: 0..1, got: Nat]
    BY <2>1, <2>2 DEF Types
  <2>4. QED
    BY <1>0, <2>1, <2>3 DEF FilterTypes, Types
<1>7. CASE PayloadGivenUp
  <2>1. toF' = Tail(toF) /\ Incoming /\ Report("err") /\ overrun' = TRUE /\ UNCHANGED <<toG, tmp>>
    BY <1>7 DEF PayloadGivenUp, Consume
  <2>2. QED
    BY <1>0, <2>1, ReportTypes DEF FilterTypes, Types
<1>8. CASE ReadPayloadEnd
  <2>1. /\ toF' = Tail(toF) /\ Incoming /\ UNCHANGED <<toG, tmp, overrun>>
        /\ Report("err") \/ (fpc' \in {"clean", "parse"} /\ UNCHANGED <<f, wr, verdict>>)
    BY <1>8 DEF ReadPayloadEnd, Consume
  <2>2. CASE Report("err")
    BY <1>0, <2>1, <2>2, ReportTypes DEF FilterTypes, Types
  <2>3. CASE fpc' \in {"clean", "parse"} /\ UNCHANGED <<f, wr, verdict>>
    BY <1>0, <2>1, <2>3 DEF FilterTypes, Types, FilterPcs
  <2>4. QED
    BY <2>1, <2>2, <2>3
<1>9. QED
  BY <1>1, <1>2, <1>3, <1>4, <1>5, <1>6, <1>7, <1>8 DEF ReadHeaderGarbage, HeaderEof, PayloadEof

LEMMA FinishTypes ==
    ASSUME Types, BeginFinish
    PROVE  fpc' \in FilterPcs /\ f' \in [q: 0..N, lines: 0..1, got: Nat] /\ wr' \in Seq(AnyPacket)
<1>1. f.q \in 0..N
  BY DEF Types
<1>2. f' \in [q: 0..N, lines: 0..1, got: Nat]
  BY DEF BeginFinish, Types
<1>3. QED
  BY <1>1, <1>2, ReplyFacts DEF BeginFinish, FilterPcs

LEMMA WorkTypes ==
    ASSUME Types, Places,
           Clean \/ SmudgeParse \/ SmudgeHot \/ SmudgeLocal \/ SmudgeStaged
             \/ WatchdogPoll \/ WatchdogAbort \/ Network
    PROVE  FilterTypes'
<1>1. UNCHANGED <<toF, toG, overrun>>
  BY DEF Clean, SmudgeParse, SmudgeHot, SmudgeLocal, SmudgeStaged, SmudgeCold, WatchdogPoll,
     WatchdogAbort, Network, DownloadBytes, DownloadDone, FetchManifest, DownloadError, Quiet
<1>2. tmp' \in 0..(FileLen + Surplus)
  <2>0. FileLen \in Nat /\ FileLen > 0 /\ Surplus \in Nat /\ tmp \in 0..(FileLen + Surplus)
    <3>1. tmp \in 0..(FileLen + Surplus)
      BY DEF Types
    <3>2. QED
      BY <3>1, FilterAssumption
  <2>1. SmudgeHot => tmp' \in 0..(FileLen + Surplus)
    BY <2>0 DEF SmudgeHot
  <2>2. SmudgeLocal => tmp' \in 0..(FileLen + Surplus)
    BY <2>0 DEF SmudgeLocal
  <2>3. SmudgeStaged => tmp' \in 0..(FileLen + Surplus)
    BY <2>0 DEF SmudgeStaged, Overwritten
  <2>4. DownloadBytes => tmp' \in 0..(FileLen + Surplus)
    BY <2>0 DEF DownloadBytes
  <2>5. SmudgeParse \/ SmudgeCold => tmp' = 0
    BY DEF SmudgeParse, SmudgeCold
  <2>6. Clean \/ WatchdogPoll \/ WatchdogAbort \/ DownloadDone \/ FetchManifest \/ DownloadError
        => UNCHANGED tmp
    BY DEF Clean, WatchdogPoll, WatchdogAbort, DownloadDone, FetchManifest, DownloadError
  <2>7. QED
    BY <2>0, <2>1, <2>2, <2>3, <2>4, <2>5, <2>6 DEF Network
<1>3. \/ Report("err")
      \/ BeginFinish /\ UNCHANGED verdict
      \/ /\ UNCHANGED <<f, wr, verdict>>
         /\ fpc' \in {"hot", "store", "cold", "download", "stalled", "manifest"}
      \/ UNCHANGED <<fpc, f, wr, verdict>>
      \/ /\ Clean /\ wr' = StatusList(f.q) \o Answer(f.q) \o <<Flush>> \o StatusList(f.q)
         /\ verdict' = [verdict EXCEPT ![f.q] = "ok"] /\ fpc' = "write" /\ f' = Idle
  BY DEF Clean, SmudgeParse, SmudgeHot, SmudgeLocal, SmudgeStaged, SmudgeCold, WatchdogPoll,
     WatchdogAbort, Network, DownloadBytes, DownloadDone, FetchManifest, DownloadError
<1>4. CASE Report("err")
  BY <1>1, <1>2, <1>4, ReportTypes DEF FilterTypes, Types
<1>5. CASE BeginFinish /\ UNCHANGED verdict
  BY <1>1, <1>2, <1>5, FinishTypes DEF FilterTypes, Types
<1>6. CASE UNCHANGED <<f, wr, verdict>>
           /\ fpc' \in {"hot", "store", "cold", "download", "stalled", "manifest"}
  BY <1>1, <1>2, <1>6 DEF FilterTypes, Types, FilterPcs
<1>7. CASE UNCHANGED <<fpc, f, wr, verdict>>
  BY <1>1, <1>2, <1>7 DEF FilterTypes, Types
<1>8. CASE /\ Clean /\ wr' = StatusList(f.q) \o Answer(f.q) \o <<Flush>> \o StatusList(f.q)
           /\ verdict' = [verdict EXCEPT ![f.q] = "ok"] /\ fpc' = "write" /\ f' = Idle
  <2>1. f.q \in Ids
    BY <1>8 DEF Clean, Places
  <2>2. wr' \in Seq(AnyPacket)
    BY <1>8, <2>1, CleanReply DEF CleanAnswer
  <2>3. verdict' \in [Ids -> {"none", "ok", "long", "err", "torn"}]
    BY <1>8 DEF Types
  <2>4. QED
    BY <1>1, <1>2, <1>8, <2>2, <2>3, IdleType DEF FilterTypes, Types, FilterPcs
<1>9. QED
  BY <1>3, <1>4, <1>5, <1>6, <1>7, <1>8

LEMMA WriteTypes ==
    ASSUME Types,
           WritePacket \/ WriteDone \/ FinishChunk \/ FinishEnd \/ FinishTorn \/ WriteBroken
    PROVE  FilterTypes'
<1>0. /\ f.q \in 0..N /\ f.got \in Nat /\ toG \in Seq(AnyPacket) /\ wr \in Seq(AnyPacket)
      /\ f \in [q: 0..N, lines: 0..1, got: Nat]
  BY DEF Types
<1>1. CASE WritePacket
  <2>1. wr # <<>> /\ toG' = Append(toG, Head(wr)) /\ wr' = Tail(wr)
        /\ UNCHANGED <<toF, fpc, f, tmp, verdict, overrun>>
    BY <1>1 DEF WritePacket
  <2>2. toG' \in Seq(AnyPacket) /\ wr' \in Seq(AnyPacket)
    BY <1>0, <2>1
  <2>3. QED
    BY <2>1, <2>2 DEF FilterTypes, Types
<1>2. CASE WriteDone
  BY <1>2 DEF WriteDone, FilterTypes, Types, FilterPcs
<1>3. CASE FinishChunk
  <2>1. /\ toG' = Append(toG, Pkt("out", f.q, f.got + 1)) /\ f' = [f EXCEPT !.got = @ + 1]
        /\ UNCHANGED <<toF, fpc, wr, tmp, verdict, overrun>>
    BY <1>3 DEF FinishChunk
  <2>2. f.got + 1 \in Nat /\ Pkt("out", f.q, f.got + 1) \in AnyPacket
    BY <1>0, PacketTypes DEF Kinds
  <2>3. toG' \in Seq(AnyPacket) /\ f' \in [q: 0..N, lines: 0..1, got: Nat]
    BY <1>0, <2>1, <2>2
  <2>4. QED
    BY <2>1, <2>3 DEF FilterTypes, Types
<1>4. CASE FinishEnd
  <2>1. /\ wr' = <<Flush>> \o StatusList(f.q)
        /\ verdict' \in {[verdict EXCEPT ![f.q] = "ok"], [verdict EXCEPT ![f.q] = "long"]}
        /\ fpc' = "write" /\ f' = Idle /\ UNCHANGED <<toF, toG, tmp, overrun>>
    BY <1>4 DEF FinishEnd, Quiet
  <2>2. wr' \in Seq(AnyPacket)
    BY <1>0, <2>1, ReplyFacts
  <2>3. verdict' \in [Ids -> {"none", "ok", "long", "err", "torn"}]
    BY <2>1 DEF Types
  <2>4. QED
    BY <2>1, <2>2, <2>3, IdleType DEF FilterTypes, Types, FilterPcs
<1>5. CASE FinishTorn
  <2>1. Report("torn") /\ UNCHANGED <<toF, toG, tmp, overrun>>
    BY <1>5 DEF FinishTorn, Quiet
  <2>2. QED
    BY <2>1, ReportTypes DEF FilterTypes, Types
<1>6. CASE WriteBroken
  BY <1>6, ExitTypes DEF WriteBroken
<1>7. QED
  BY <1>1, <1>2, <1>3, <1>4, <1>5, <1>6

LEMMA NextTypes == ASSUME Types, Places, [Next]_vars PROVE Types'
<1>1. CASE GitStep
  BY <1>1, GitTypes
<1>2. CASE FilterStep \/ Network
  <2>1. FilterTypes'
    BY <1>2, ReadTypes, WorkTypes, WriteTypes DEF FilterStep
  <2>2. QED
    BY <1>2, <2>1, FilterFrames DEF FilterFrame, FilterTypes, Types
<1>3. CASE Ended \/ UNCHANGED vars
  BY <1>3 DEF Ended, vars, gitVars, filterVars, Types
<1>4. QED
  BY <1>1, <1>2, <1>3 DEF Next

-----------------------------------------------------------------------------
(* Places. *)

LEMMA ConfConstant == [Next]_vars => UNCHANGED conf
<1>1. GitStep => UNCHANGED conf
  BY DEF GitStep, GitSpawn, GitSend, GitPipeBroken, GitFail, GitReadStatus, GitReadContent,
     GitJudge
<1>2. QED
  BY <1>1, FilterFrames DEF Next, Ended, vars, FilterFrame

LEMMA InitPlaces == ASSUME Init PROVE Places
<1>1. Types /\ req \in Ids
  BY InitTypes DEF Types
<1>2. ReqLen(req) > 3 /\ ReqLen(req) \in Nat
  BY <1>1, RequestFacts
<1>3. git = "send" /\ sent = 0 /\ wr = <<>> /\ fpc = "start" /\ f = Idle
  BY DEF Init
<1>4. QED
  BY <1>2, <1>3 DEF Places

LEMMA FailPlaces ==
    ASSUME Types, Types', Places, UNCHANGED conf, NEW rest, GitFail(rest),
           fpc # "stopped"
    PROVE  Places'
<1>1. ReqLen(req)' > 3 /\ ReqLen(req)' \in Nat
  <2>1. req' \in Ids
    BY DEF Types
  <2>2. ReqLen(req') > 3 /\ ReqLen(req') \in Nat
    BY <2>1, RequestFacts
  <2>3. ReqLen(req)' = ReqLen(req')
    BY DEF ReqLen
  <2>4. QED
    BY <2>2, <2>3
<1>2. sent' = 0 /\ git' \in {"dead", "done", "send"}
  BY DEF GitFail
<1>3. CASE conf.required \/ status = "error"
  <2>1. UNCHANGED <<conf, toF, fpc, f, wr, tmp, overrun>>
    BY <1>3 DEF GitFail
  <2>2. QED
    BY <1>1, <1>2, <2>1 DEF Places, Filled
<1>4. CASE ~(conf.required \/ status = "error")
  <2>1. /\ toF' = <<>> /\ toG' = <<>> /\ fpc' = "stopped" /\ f' = Idle /\ wr' = <<>>
        /\ overrun' = FALSE /\ git' \in {"done", "send"}
    BY <1>4 DEF GitFail
  <2>2. QED
    BY <1>1, <1>2, <2>1 DEF Places
<1>5. QED
  BY <1>3, <1>4

LEMMA GitPlaces ==
    ASSUME Types, Types', Places, UNCHANGED conf, GitStep
    PROVE  Places'
<1>0. req \in Ids /\ sent \in Nat /\ ReqLen(req) \in Nat /\ Len(Request(req)) = ReqLen(req)
  <2>1. req \in Ids /\ sent \in Nat
    BY DEF Types
  <2>2. QED
    BY <2>1, RequestFacts
<1>1. CASE GitSpawn
  BY <1>1 DEF GitSpawn, Places, gitVars, ReqLen
<1>2. CASE GitSend
  <2>1. /\ git = "send" /\ fpc # "stopped" /\ sent' = sent + 1
        /\ git' = (IF sent + 1 = Len(Request(req)) THEN "status1" ELSE "send")
        /\ UNCHANGED <<conf, req, toG, fpc, f, wr, tmp, overrun>>
    BY <1>2 DEF GitSend, filterVars
  <2>2. sent < ReqLen(req)
    BY <2>1 DEF Places
  <2>3. ReqLen(req)' = ReqLen(req)
    BY <2>1 DEF ReqLen
  <2>4. (git' = "send" => sent' < ReqLen(req)) /\ (git' = "status1" => sent' = ReqLen(req))
        /\ git' \in {"send", "status1"}
    BY <1>0, <2>1, <2>2
  <2>5. QED
    BY <2>1, <2>3, <2>4 DEF Places, Filled
<1>3. CASE GitPipeBroken
  BY <1>3, FailPlaces DEF GitPipeBroken
<1>4. CASE GitReadStatus
  <2>1. toG # <<>> /\ UNCHANGED <<conf, git, req, sent, toF, fpc, f, wr, tmp, overrun>>
    BY <1>4 DEF GitReadStatus, filterVars
  <2>2. QED
    BY <2>1 DEF Places, Filled, ReqLen
<1>5. CASE GitReadContent
  <2>1. /\ toG # <<>> /\ git = "content" /\ git' \in {"content", "status2"}
        /\ UNCHANGED <<conf, req, sent, toF, fpc, f, wr, tmp, overrun>>
    BY <1>5 DEF GitReadContent, filterVars
  <2>2. QED
    BY <2>1 DEF Places, Filled, ReqLen
<1>6. CASE GitJudge
  <2>1. toG # <<>> /\ git \in {"status1", "status2"} /\ fpc # "stopped"
    BY <1>6 DEF GitJudge, Places
  <2>2. CASE git' = "content"
             /\ UNCHANGED <<conf, req, sent, status, content, result, accepted, toF, filterVars>>
    BY <2>1, <2>2 DEF Places, Filled, ReqLen, filterVars
  <2>3. CASE /\ git' = IF req = N THEN "done" ELSE "send"
             /\ sent' = 0 /\ UNCHANGED <<conf, toF, filterVars>>
    <3>1. ReqLen(req)' > 3 /\ ReqLen(req)' \in Nat
      <4>1. req' \in Ids
        BY DEF Types
      <4>2. ReqLen(req') > 3 /\ ReqLen(req') \in Nat
        BY <4>1, RequestFacts
      <4>3. QED
        BY <4>2 DEF ReqLen
    <3>2. UNCHANGED <<conf, toF, fpc, f, wr, tmp, overrun>> /\ git' \in {"send", "done"} /\ sent' = 0
      BY <2>3 DEF filterVars
    <3>3. QED
      BY <2>1, <3>1, <3>2 DEF Places, Filled
  <2>4. CASE GitFail(Tail(toG))
    BY <2>1, <2>4, FailPlaces
  <2>5. QED
    BY <1>6, <2>2, <2>3, <2>4 DEF GitJudge
<1>7. QED
  BY <1>1, <1>2, <1>3, <1>4, <1>5, <1>6 DEF GitStep

(* What a step of the filter does to what the invariants speak of: an exit, *)
(* an error reply, or one of the steps listed.                             *)
LEMMA ExitPlaces == ASSUME Types, Places, FilterFrame, FilterExit PROVE Places'
<1>1. fpc' = "exited" /\ wr' = <<>>
  BY DEF FilterExit
<1>2. QED
  BY <1>1 DEF Places, FilterFrame, ReqLen

LEMMA ReportPlaces ==
    ASSUME Types, Places, FilterFrame, NEW v, Report(v)
    PROVE  Places'
<1>1. fpc' = "write" /\ f' = Idle
  BY DEF Report
<1>2. QED
  BY <1>1 DEF Places, FilterFrame, ReqLen

LEMMA FilterPlaces ==
    ASSUME Types, Types', Places, FilterStep \/ Network
    PROVE  Places'
<1> DEFINE Here ==
      /\ wr' # <<>> => fpc' \in {"write", "finish"}
      /\ fpc' \in {"hdr", "runtime", "payload", "drain", "exited", "stopped"} => wr' = <<>>
      /\ fpc' \in {"runtime", "parse", "hot", "store", "cold", "download", "stalled", "manifest",
                  "finish"} =>
           f'.q \in Ids /\ conf.plan[f'.q].cmd = "smudge"
      /\ fpc' \in {"payload", "clean"} => f'.q \in Ids
      /\ fpc' = "clean" => conf.plan[f'.q].cmd = "clean"
      /\ fpc' = "manifest" => tmp' = FileLen
      /\ fpc' = "finish" => f'.got <= tmp' /\ Filled'
      /\ fpc' # "stopped"
      /\ fpc' = "start" => wr' = <<>> /\ f' = Idle
      /\ fpc' = "write" => f' = Idle
<1>0. FilterFrame
  BY FilterFrames
<1>a. /\ f.q \in 0..N /\ f.lines \in 0..1 /\ f.got \in Nat /\ FileLen \in Nat
      /\ tmp \in Nat /\ tmp' \in Nat
      /\ \A q \in 0..N : q # 0 => q \in Ids
  <2>1. /\ f.q \in 0..N /\ f.lines \in 0..1 /\ f.got \in Nat
        /\ tmp \in 0..(FileLen + Surplus) /\ tmp' \in 0..(FileLen + Surplus)
    BY DEF Types
  <2>2. QED
    BY <2>1, FilterAssumption DEF Ids
<1>b. Here => Places'
  <2>1. UNCHANGED <<conf, git, req, sent>>
    BY <1>0 DEF FilterFrame
  <2>2. QED
    BY <2>1 DEF Places, ReqLen
<1>1. CASE FilterExit
  BY <1>0, <1>1, ExitPlaces
<1>2. CASE Report("err") \/ Report("torn")
  BY <1>0, <1>2, ReportPlaces
<1>3. CASE FilterStart /\ ~FilterExit
  BY <1>3, <1>b DEF FilterStart, Places
<1>4. CASE ReadHeaderLine
  BY <1>4, <1>b DEF ReadHeaderLine, Places
<1>5. CASE ReadHeaderEnd
  <2>1. f'.q = f.q /\ wr' = <<>>
    BY <1>5 DEF ReadHeaderEnd, Places, Types
  <2>2. /\ fpc' \in {"exited", "drain", "runtime", "payload"}
        /\ fpc' = "runtime" => f.q # 0 /\ conf.plan[f.q].cmd = "smudge"
        /\ fpc' = "payload" => f.q # 0
    BY <1>5, <1>a DEF ReadHeaderEnd
  <2>3. QED
    BY <2>1, <2>2, <1>a, <1>b
<1>6. CASE EnsureRuntime /\ ~FilterExit
  BY <1>6, <1>b DEF EnsureRuntime, Places
<1>7. CASE ReadPayload
  <2>1. f'.q = f.q /\ UNCHANGED <<fpc, wr>> /\ fpc \in {"payload", "drain"}
    BY <1>7 DEF ReadPayload, Types
  <2>2. QED
    BY <2>1, <1>b DEF Places
<1>8. CASE ReadPayloadEnd /\ ~Report("err")
  <2>1. /\ fpc = "payload" /\ UNCHANGED <<f, wr>>
        /\ fpc' = IF conf.plan[f.q].cmd = "clean" THEN "clean" ELSE "parse"
    BY <1>8 DEF ReadPayloadEnd
  <2>2. f.q \in Ids => conf.plan[f.q].cmd \in {"clean", "smudge"}
    BY DEF Types, Plans
  <2>3. QED
    BY <2>1, <2>2, <1>b DEF Places
<1>9. CASE Clean /\ ~Report("err")
  BY <1>9, <1>b DEF Clean
<1>10. CASE BeginFinish /\ Filled'
            /\ fpc \in {"hot", "store", "manifest"}
  <2>1. fpc' = "finish" /\ f'.q = f.q /\ f'.got = 0
    BY <1>10 DEF BeginFinish, Types
  <2>2. QED
    BY <1>10, <1>a, <2>1, <1>b DEF Places
<1>11. CASE /\ fpc \in {"parse", "hot", "store", "cold", "download"}
            /\ fpc' \in {"hot", "store", "cold", "download", "stalled", "manifest"}
            /\ UNCHANGED <<f, wr>> /\ (fpc' = "manifest" => tmp' = FileLen)
  BY <1>11, <1>b DEF Places
<1>12. CASE WritePacket
  <2>1. fpc \in {"write", "finish"} /\ UNCHANGED <<fpc, f, tmp, conf>>
    BY <1>12 DEF WritePacket
  <2>2. QED
    BY <2>1, <1>b DEF Places, Filled
<1>13. CASE WriteDone
  BY <1>13, <1>b DEF WriteDone, Places
<1>14. CASE FinishChunk
  <2>1. /\ fpc = "finish" /\ UNCHANGED <<fpc, tmp, wr, conf>> /\ f.got < tmp
        /\ f'.q = f.q /\ f'.got = f.got + 1
    BY <1>14 DEF FinishChunk, Types
  <2>2. QED
    BY <2>1, <1>a, <1>b DEF Places, Filled
<1>15. CASE FinishEnd
  BY <1>15, <1>b DEF FinishEnd
<1>16. CASE FilterStep
  <2>1. ReadHeaderGarbage \/ HeaderEof \/ PayloadEof \/ WriteBroken => FilterExit
    BY DEF ReadHeaderGarbage, HeaderEof, PayloadEof, WriteBroken
  <2>2. PayloadGivenUp \/ WatchdogAbort \/ FinishTorn => Report("err") \/ Report("torn")
    BY DEF PayloadGivenUp, WatchdogAbort, FinishTorn
  <2>3. SmudgeParse \/ SmudgeHot \/ SmudgeLocal \/ SmudgeStaged =>
          \/ Report("err")
          \/ BeginFinish /\ Filled' /\ fpc \in {"hot", "store", "manifest"}
          \/ /\ fpc \in {"parse", "hot", "store", "cold", "download"}
             /\ fpc' \in {"hot", "store", "cold"} /\ UNCHANGED <<f, wr>>
    <3>1. SmudgeHot \/ SmudgeLocal => tmp' = FileLen \/ ~BeginFinish
      BY DEF SmudgeHot, SmudgeLocal, BeginFinish, Report
    <3>2. SmudgeStaged /\ BeginFinish => tmp' >= FileLen /\ ~conf.local
      BY <1>a DEF SmudgeStaged, Overwritten, BeginFinish
    <3>3. conf' = conf
      BY <1>0 DEF FilterFrame
    <3>4. BeginFinish /\ (SmudgeHot \/ SmudgeLocal \/ SmudgeStaged) => Filled'
      BY <1>a, <3>1, <3>2, <3>3 DEF Filled
    <3>5. QED
      BY <3>4 DEF SmudgeParse, SmudgeHot, SmudgeLocal, SmudgeStaged
  <2>4. WatchdogPoll => /\ fpc \in {"parse", "hot", "store", "cold", "download"}
                        /\ fpc' \in {"download", "stalled"}
                        /\ UNCHANGED <<f, wr>>
    BY DEF WatchdogPoll
  <2>5. QED
    BY <1>16, <2>1, <2>2, <2>3, <2>4, <1>1, <1>2, <1>3, <1>4, <1>5, <1>6, <1>7, <1>8, <1>9, <1>10,
       <1>11, <1>12, <1>13, <1>14, <1>15 DEF FilterStep
<1>17. CASE Network
  <2>1. \/ Report("err")
        \/ BeginFinish /\ Filled' /\ fpc \in {"hot", "store", "manifest"}
        \/ /\ fpc \in {"parse", "hot", "store", "cold", "download"}
           /\ fpc' \in {"hot", "store", "cold", "download", "stalled", "manifest"}
           /\ UNCHANGED <<f, wr>> /\ (fpc' = "manifest" => tmp' = FileLen)
    <3>1. FetchManifest => Filled'
      BY <1>a DEF FetchManifest, Places, Filled
    <3>2. QED
      BY <1>17, <3>1 DEF Network, SmudgeCold, DownloadBytes, DownloadDone, FetchManifest,
         DownloadError
  <2>2. QED
    BY <2>1, <1>2, <1>10, <1>11
<1>18. QED
  BY <1>16, <1>17

LEMMA NextPlaces == ASSUME Types, Types', Places, [Next]_vars PROVE Places'
<1>1. UNCHANGED vars => Places'
  BY DEF Places, Filled, vars, gitVars, filterVars, ReqLen
<1>2. QED
  BY <1>1, GitPlaces, FilterPlaces, ConfConstant DEF Next, Ended

-----------------------------------------------------------------------------
(* The packets git has still to read. *)

LEMMA MoveHead ==
    ASSUME NEW S, NEW s \in Seq(S), NEW t \in Seq(S), t # <<>>
    PROVE  Append(s, Head(t)) \o Tail(t) = s \o t
<1>1. Head(t) \in S /\ Tail(t) \in Seq(S) /\ Len(Tail(t)) = Len(t) - 1 /\ Len(t) > 0
      /\ \A i \in 1..Len(Tail(t)) : Tail(t)[i] = t[i + 1]
      /\ Head(t) = t[1] /\ Len(t) \in Nat /\ Len(s) \in Nat
  OBVIOUS
<1> DEFINE u == Append(s, Head(t))
<1>2. /\ u \in Seq(S) /\ Len(u) = Len(s) + 1
      /\ \A i \in 1..Len(s) : u[i] = s[i]
      /\ u[Len(s) + 1] = Head(t)
  BY <1>1
<1> DEFINE v == Tail(t)
<1>a. u \in Seq(S) /\ v \in Seq(S)
  BY <1>1, <1>2
<1> HIDE DEF u, v
<1>c. /\ Len(v) = Len(t) - 1 /\ Len(t) > 0 /\ \A i \in 1..Len(v) : v[i] = t[i + 1]
      /\ Head(t) = t[1] /\ Len(t) \in Nat /\ Len(s) \in Nat
  BY <1>1 DEF v
<1>3. /\ u \o v \in Seq(S) /\ Len(u \o v) = Len(u) + Len(v)
      /\ \A i \in 1..Len(u) : (u \o v)[i] = u[i]
      /\ \A i \in 1..Len(v) : (u \o v)[Len(u) + i] = v[i]
  BY <1>a, Joined
<1>4. /\ s \o t \in Seq(S) /\ Len(s \o t) = Len(s) + Len(t)
      /\ \A i \in 1..Len(s) : (s \o t)[i] = s[i]
      /\ \A i \in 1..Len(t) : (s \o t)[Len(s) + i] = t[i]
  BY Joined
<1> DEFINE a == u \o v
           b == s \o t
<1> HIDE DEF a, b
<1>5. Len(a) = Len(b)
  BY <1>c, <1>2, <1>3, <1>4 DEF a, b
<1>6. \A i \in 1..Len(b) : a[i] = b[i]
  <2> SUFFICES ASSUME NEW i \in 1..Len(b) PROVE a[i] = b[i]
    OBVIOUS
  <2>0. Len(b) = Len(s) + Len(t)
    BY <1>4 DEF b
  <2>1. CASE i <= Len(s)
    <3>1. i \in 1..Len(s) /\ i \in 1..Len(u)
      BY <2>0, <2>1, <1>c, <1>2
    <3>2. QED
      BY <3>1, <1>2, <1>3, <1>4 DEF a, b
  <2>2. CASE i = Len(s) + 1
    <3>1. i \in 1..Len(u) /\ 1 \in 1..Len(t)
      BY <2>2, <1>c, <1>2
    <3>2. a[i] = Head(t)
      BY <3>1, <2>2, <1>2, <1>3 DEF a
    <3>3. b[i] = t[1]
      BY <3>1, <2>2, <1>4 DEF b
    <3>4. QED
      BY <3>2, <3>3, <1>c
  <2>3. CASE i > Len(s) + 1
    <3> DEFINE j == i - (Len(s) + 1)
    <3>1. j \in 1..Len(v) /\ i = Len(u) + j /\ j + 1 \in 1..Len(t) /\ i = Len(s) + (j + 1)
      BY <2>0, <2>3, <1>c, <1>2
    <3> HIDE DEF j
    <3>2. a[i] = v[j]
      BY <3>1, <1>3 DEF a
    <3>3. b[i] = t[j + 1]
      BY <3>1, <1>4 DEF b
    <3>4. QED
      BY <3>1, <3>2, <3>3, <1>c
  <2>4. i <= Len(s) \/ i = Len(s) + 1 \/ i > Len(s) + 1
    BY <2>0, <1>c
  <2>5. QED
    BY <2>1, <2>2, <2>3, <2>4
<1>7. a \in Seq(S) /\ b \in Seq(S)
  BY <1>3, <1>4 DEF a, b
<1>8. a = b
  BY <1>5, <1>6, <1>7, SeqEqual
<1>9. QED
  BY <1>8 DEF a, b, u, v

LEMMA PendingType ==
    ASSUME Types
    PROVE  Pending \in Seq(AnyPacket) /\ Len(Pending) \in Nat /\ (toG = <<>> => Pending = wr)
           /\ (wr = <<>> => Pending = toG)
<1>1. toG \in Seq(AnyPacket) /\ wr \in Seq(AnyPacket)
  BY DEF Types
<1>2. QED
  BY <1>1, ConcatEmptySeq DEF Pending

(* git reads a packet. *)
LEMMA PendingRead ==
    ASSUME Types, toG # <<>>, toG' = Tail(toG), wr' = wr
    PROVE  /\ Len(Pending) > 0 /\ Head(toG) = Pending[1] /\ Len(Pending)' = Len(Pending) - 1
           /\ \A i \in 1..Len(Pending)' : Pending'[i] = Pending[i + 1]
<1> DEFINE s == toG
           t == wr
           u == Tail(toG)
<1>1. s \in Seq(AnyPacket) /\ t \in Seq(AnyPacket) /\ s # <<>>
  BY DEF Types
<1>2. Pending = s \o t /\ Pending' = u \o t
  BY DEF Pending
<1>3. /\ u \in Seq(AnyPacket) /\ Len(u) = Len(s) - 1 /\ Len(s) > 0 /\ Len(s) \in Nat
      /\ Len(t) \in Nat /\ Head(s) = s[1] /\ \A i \in 1..Len(u) : u[i] = s[i + 1]
  BY <1>1
<1> HIDE DEF s, t, u
<1>4. /\ s \o t \in Seq(AnyPacket) /\ Len(s \o t) = Len(s) + Len(t)
      /\ \A i \in 1..Len(s) : (s \o t)[i] = s[i]
      /\ \A i \in 1..Len(t) : (s \o t)[Len(s) + i] = t[i]
  BY <1>1, Joined
<1>5. /\ u \o t \in Seq(AnyPacket) /\ Len(u \o t) = Len(u) + Len(t)
      /\ \A i \in 1..Len(u) : (u \o t)[i] = u[i]
      /\ \A i \in 1..Len(t) : (u \o t)[Len(u) + i] = t[i]
  <2>1. u \in Seq(AnyPacket) /\ t \in Seq(AnyPacket)
    BY <1>1, <1>3
  <2>2. QED
    BY <2>1, Joined
<1> DEFINE a == u \o t
           b == s \o t
<1> HIDE DEF a, b
<1>6. Len(b) > 0 /\ Head(s) = b[1] /\ Len(a) = Len(b) - 1
  BY <1>3, <1>4, <1>5 DEF a, b
<1>7. \A i \in 1..Len(a) : a[i] = b[i + 1]
  <2> SUFFICES ASSUME NEW i \in 1..Len(a) PROVE a[i] = b[i + 1]
    OBVIOUS
  <2>0. Len(a) = Len(u) + Len(t)
    BY <1>5 DEF a
  <2>1. CASE i <= Len(u)
    <3>1. i \in 1..Len(u) /\ i + 1 \in 1..Len(s)
      BY <2>0, <2>1, <1>3
    <3>2. QED
      BY <3>1, <1>3, <1>4, <1>5 DEF a, b
  <2>2. CASE i > Len(u)
    <3> DEFINE j == i - Len(u)
    <3>1. j \in 1..Len(t) /\ i = Len(u) + j /\ i + 1 = Len(s) + j
      BY <2>0, <2>2, <1>3
    <3> HIDE DEF j
    <3>2. a[i] = t[j]
      BY <3>1, <1>5 DEF a
    <3>3. b[i + 1] = t[j]
      BY <3>1, <1>4 DEF b
    <3>4. QED
      BY <3>2, <3>3
  <2>3. QED
    BY <2>0, <2>1, <2>2, <1>3
<1>8. QED
  BY <1>2, <1>6, <1>7 DEF a, b, s

(* The filter moves a packet into the pipe. *)
LEMMA PendingWrite == ASSUME Types, WritePacket PROVE Pending' = Pending
<1>1. toG \in Seq(AnyPacket) /\ wr \in Seq(AnyPacket)
  BY DEF Types
<1>2. wr # <<>> /\ toG' = Append(toG, Head(wr)) /\ wr' = Tail(wr)
  BY DEF WritePacket
<1>3. QED
  BY <1>1, <1>2, MoveHead DEF Pending

(* The filter has something more to say. *)
LEMMA PendingReply ==
    ASSUME Types, Types', wr = <<>>, toG' = toG
    PROVE  /\ Len(Pending)' = Len(Pending) + Len(wr')
           /\ \A i \in 1..Len(Pending) : Pending'[i] = Pending[i]
           /\ \A i \in 1..Len(wr') : Pending'[Len(Pending) + i] = wr'[i]
<1>1. toG \in Seq(AnyPacket) /\ wr' \in Seq(AnyPacket) /\ Pending = toG
  BY PendingType DEF Types
<1>2. Pending' = toG \o wr'
  BY DEF Pending
<1>3. QED
  BY <1>1, <1>2, Joined

LEMMA PendingChunk ==
    ASSUME Types, NEW x \in AnyPacket, wr = <<>>, wr' = wr, toG' = Append(toG, x)
    PROVE  /\ Len(Pending)' = Len(Pending) + 1
           /\ \A i \in 1..Len(Pending) : Pending'[i] = Pending[i]
           /\ Pending'[Len(Pending) + 1] = x
<1>1. toG \in Seq(AnyPacket) /\ Pending = toG
  BY PendingType DEF Types
<1>2. Append(toG, x) \in Seq(AnyPacket)
  BY <1>1
<1>3. Pending' = Append(toG, x)
  BY <1>2, ConcatEmptySeq DEF Pending
<1>4. QED
  BY <1>1, <1>3

-----------------------------------------------------------------------------
(* The filter reads a request. *)

(* Only what the filter works on or has yet to read can be decided.        *)
LEMMA FilterUndecided ==
    ASSUME Types, Undecided, FilterStep \/ Network
    PROVE  Undecided'
<1>0. FilterFrame
  BY FilterFrames
<1>1. toF \in Seq(AnyPacket) /\ Len(toF) \in Nat /\ Idle.q \notin Ids
  <2>1. toF \in Seq(AnyPacket)
    BY DEF Types
  <2>2. 0 \notin 1..N
    BY FilterAssumption
  <2>3. QED
    BY <2>1, <2>2, IdleType DEF Ids
<1>2. /\ toF' = toF \/ (Incoming /\ toF' = Tail(toF))
      /\ f'.q \in {f.q, Idle.q} \/ (Incoming /\ Head(toF).k = "hdr" /\ f'.q = Head(toF).q)
  <2>1. \A v : Report(v) => f'.q = Idle.q
    BY DEF Report
  <2>2. FilterExit => f'.q = Idle.q /\ toF' = toF
    BY DEF FilterExit
  <2>3. BeginFinish => f'.q = f.q
    BY DEF BeginFinish, Types
  <2>4. Quiet => toF' = toF
    BY DEF Quiet
  <2>5. CASE ReadHeaderLine
    <3>1. f \in [q: 0..N, lines: 0..1, got: Nat]
      BY DEF Types
    <3>2. QED
      BY <2>5, <3>1 DEF ReadHeaderLine, Consume
  <2>6. CASE ReadHeaderEnd \/ ReadPayload
    <3>1. f \in [q: 0..N, lines: 0..1, got: Nat]
      BY DEF Types
    <3>2. QED
      BY <2>6, <3>1 DEF ReadHeaderEnd, ReadPayload, Consume
  <2>7. CASE PayloadGivenUp \/ ReadPayloadEnd
    BY <2>7, <2>1 DEF PayloadGivenUp, ReadPayloadEnd, Consume
  <2>8. CASE Network
    BY <2>8, <2>1, <2>3, <2>4 DEF Network, SmudgeCold, DownloadBytes, DownloadDone,
       FetchManifest, DownloadError
  <2>9. CASE Clean \/ SmudgeParse \/ SmudgeHot \/ SmudgeLocal \/ SmudgeStaged
               \/ WatchdogPoll \/ WatchdogAbort
    BY <2>9, <2>1, <2>3, <2>4 DEF Clean, SmudgeParse, SmudgeHot, SmudgeLocal, SmudgeStaged,
       WatchdogPoll, WatchdogAbort
  <2>10. CASE FilterStart \/ EnsureRuntime \/ ReadHeaderGarbage \/ HeaderEof \/ PayloadEof
    BY <2>10, <2>2 DEF FilterStart, EnsureRuntime, ReadHeaderGarbage, HeaderEof, PayloadEof
  <2>11. CASE WritePacket \/ WriteDone \/ FinishEnd \/ FinishTorn \/ WriteBroken
    BY <2>11, <2>1, <2>2, <2>4 DEF WritePacket, WriteDone, FinishEnd, FinishTorn, WriteBroken
  <2>12. CASE FinishChunk
    <3>1. f \in [q: 0..N, lines: 0..1, got: Nat]
      BY DEF Types
    <3>2. QED
      BY <2>12, <3>1 DEF FinishChunk
  <2>13. QED
    BY <2>5, <2>6, <2>7, <2>8, <2>9, <2>10, <2>11, <2>12 DEF FilterStep
<1>3. UNCHANGED <<git, req, result>>
  BY <1>0 DEF FilterFrame
<1>4. Incoming => /\ Head(toF) = toF[1] /\ 1 \in 1..Len(toF) /\ Len(Tail(toF)) = Len(toF) - 1
                  /\ \A i \in 1..Len(Tail(toF)) : Tail(toF)[i] = toF[i + 1] /\ i + 1 \in 1..Len(toF)
  BY <1>1 DEF Incoming
<1>5. \A i \in 1..Len(toF') :
        (toF'[i].k = "hdr" => toF'[i].q \in Ids /\ result[toF'[i].q] # "accepted")
  <2>1. CASE toF' = toF
    BY <2>1 DEF Undecided
  <2>2. CASE Incoming /\ toF' = Tail(toF)
    BY <2>2, <1>4 DEF Undecided
  <2>3. QED
    BY <1>2, <2>1, <2>2
<1>6. f'.q \in Ids => result[f'.q] # "accepted"
  BY <1>1, <1>2, <1>4 DEF Undecided
<1>7. QED
  BY <1>3, <1>5, <1>6 DEF Undecided, GitEnded

(* What git accepted stays as it was decided: the filter decides only      *)
(* requests that git has not accepted.                                     *)
LEMMA FilterAccepted ==
    ASSUME Types, Undecided, AcceptedOwn, FilterStep \/ Network
    PROVE  AcceptedOwn'
<1>0. FilterFrame
  BY FilterFrames
<1>1. \A q \in Ids : q # f.q => verdict'[q] = verdict[q]
  <2>1. verdict \in [Ids -> {"none", "ok", "long", "err", "torn"}]
    BY DEF Types
  <2>2. \A v : Report(v) => \A q \in Ids : q # f.q => verdict'[q] = verdict[q]
    BY <2>1 DEF Report
  <2>3. FilterExit => UNCHANGED verdict
    BY DEF FilterExit
  <2>4. CASE Clean \/ FinishEnd
    BY <2>1, <2>2, <2>4 DEF Clean, FinishEnd
  <2>5. CASE PayloadGivenUp \/ ReadPayloadEnd \/ SmudgeParse \/ SmudgeHot \/ SmudgeLocal
               \/ SmudgeStaged \/ WatchdogPoll \/ WatchdogAbort \/ FinishTorn
    BY <2>2, <2>5 DEF PayloadGivenUp, ReadPayloadEnd, SmudgeParse, SmudgeHot, SmudgeLocal,
       SmudgeStaged, WatchdogPoll, WatchdogAbort, FinishTorn
  <2>6. CASE Network
    BY <2>2, <2>6 DEF Network, SmudgeCold, DownloadBytes, DownloadDone, FetchManifest, DownloadError
  <2>7. CASE \/ FilterStart \/ ReadHeaderLine \/ ReadHeaderGarbage \/ ReadHeaderEnd
             \/ EnsureRuntime \/ HeaderEof \/ ReadPayload \/ PayloadEof
             \/ WritePacket \/ WriteDone \/ FinishChunk \/ WriteBroken
    BY <2>3, <2>7 DEF FilterStart, ReadHeaderLine, ReadHeaderGarbage, ReadHeaderEnd,
       EnsureRuntime, HeaderEof, ReadPayload, PayloadEof, WritePacket, WriteDone, FinishChunk,
       WriteBroken
  <2>8. QED
    BY <2>4, <2>5, <2>6, <2>7 DEF FilterStep
<1>2. UNCHANGED <<result, accepted, conf>> /\ \A q \in Ids : Answer(q)' = Answer(q)
  BY <1>0 DEF FilterFrame, Answer
<1>3. \A q \in Ids : result[q] = "accepted" => q # f.q
  BY DEF Undecided
<1>4. QED
  BY <1>1, <1>2, <1>3 DEF AcceptedOwn

LEMMA OneLess == ASSUME NEW a \in Nat, NEW m \in Nat, NEW k, k = m - 1 PROVE (a + 1) + k = a + m
  OBVIOUS

LEMMA OneLeft ==
    ASSUME NEW a \in Nat, NEW m \in Nat, NEW r \in Nat, m > 0, a + m <= r, a + 1 = r
    PROVE  m = 1 /\ a + m = r
  OBVIOUS

(* Where in the request the filter reads. *)
LEMMA AtFacts ==
    ASSUME Types, NEW a \in Nat, At(a), Incoming
    PROVE  /\ toF \in Seq(AnyPacket) /\ Len(toF) \in Nat /\ Len(toF) > 0
           /\ a + 1 <= ReqLen(req) /\ ReqLen(req) \in Nat /\ ReqLen(req) > 3
           /\ Head(toF) = Request(req)[a + 1]
           /\ Len(Tail(toF)) = Len(toF) - 1
           /\ \A i \in 1..Len(Tail(toF)) : Tail(toF)[i] = Request(req)[(a + 1) + i]
<1>1. toF \in Seq(AnyPacket) /\ req \in Ids
  BY DEF Types
<1>2. toF # <<>>
  BY DEF Incoming
<1>3. /\ Len(toF) \in Nat /\ Len(toF) > 0 /\ Head(toF) = toF[1] /\ Len(Tail(toF)) = Len(toF) - 1
      /\ \A i \in 1..Len(Tail(toF)) : Tail(toF)[i] = toF[i + 1]
  BY <1>1, <1>2
<1>4. ReqLen(req) \in Nat /\ ReqLen(req) > 3
  BY <1>1, RequestFacts
<1>5. a + Len(toF) <= ReqLen(req) /\ \A i \in 1..Len(toF) : toF[i] = Request(req)[a + i]
  BY DEF At
<1>6. \A i \in 1..Len(Tail(toF)) : Tail(toF)[i] = Request(req)[(a + 1) + i]
  <2> SUFFICES ASSUME NEW i \in 1..Len(Tail(toF))
               PROVE  Tail(toF)[i] = Request(req)[(a + 1) + i]
    OBVIOUS
  <2>1. i + 1 \in 1..Len(toF) /\ a + (i + 1) = (a + 1) + i
    BY <1>3
  <2>2. toF[i + 1] = Request(req)[a + (i + 1)]
    BY <1>5, <2>1
  <2>3. QED
    BY <1>3, <2>1, <2>2
<1>7. Head(toF) = Request(req)[a + 1] /\ a + 1 <= ReqLen(req)
  <2>1. 1 \in 1..Len(toF)
    BY <1>3
  <2>2. QED
    BY <1>3, <1>4, <1>5, <2>1
<1>8. QED
  BY <1>1, <1>3, <1>4, <1>6, <1>7

(* One packet further. *)
LEMMA AtConsume ==
    ASSUME Types, NEW a \in Nat, At(a), Incoming, Consume, FilterFrame
    PROVE  At(a + 1)'
<1>1. /\ Len(toF) \in Nat /\ Len(toF) > 0 /\ Len(Tail(toF)) = Len(toF) - 1
      /\ \A i \in 1..Len(Tail(toF)) : Tail(toF)[i] = Request(req)[(a + 1) + i]
  BY AtFacts
<1>2. toF' = Tail(toF) /\ UNCHANGED <<conf, git, req, sent>>
  BY DEF Consume, FilterFrame
<1>3. Request(req)' = Request(req) /\ ReqLen(req)' = ReqLen(req) /\ GitEnded' = GitEnded
  BY <1>2 DEF Request, ReqLen, GitEnded
<1>4. a + Len(toF) <= ReqLen(req) /\ (~GitEnded => a + Len(toF) = sent)
  BY DEF At
<1>5. a + Len(toF) = (a + 1) + Len(Tail(toF))
  BY <1>1, OneLess, Zenon
<1>6. QED
  BY <1>1, <1>2, <1>3, <1>4, <1>5 DEF At

LEMMA AtStays ==
    ASSUME NEW a, At(a), FilterFrame, UNCHANGED toF
    PROVE  At(a)'
<1>1. Request(req)' = Request(req) /\ ReqLen(req)' = ReqLen(req) /\ GitEnded' = GitEnded
  BY DEF Request, ReqLen, GitEnded, FilterFrame
<1>2. QED
  BY <1>1 DEF At, FilterFrame

(* The filter's steps that take it from a request to work on it. *)
LEMMA ReadingSync ==
    ASSUME Types, Places, Sync, ~overrun,
           \/ ReadHeaderLine \/ ReadHeaderEnd \/ ReadPayload
           \/ (FilterStart /\ ~FilterExit) \/ (EnsureRuntime /\ ~FilterExit) \/ ReadPayloadEnd
    PROVE  Reading' /\ Reading
<1>0. FilterFrame /\ req \in Ids /\ req \in Nat /\ req # 0
  <2>1. req \in Ids
    BY DEF Types
  <2>2. QED
    <3>1. FilterFrame
      BY FilterFrames DEF FilterStep
    <3>2. req \in Nat /\ req # 0
      BY <2>1, FilterAssumption DEF Ids
    <3>3. QED
      BY <2>1, <3>1, <3>2
<1>a. /\ Request(req)[1].k = "hdr" /\ Request(req)[1].q = req /\ Request(req)[2].k = "flush"
      /\ \A i \in 3..(ReqLen(req) - 1) : Request(req)[i].k = "pay"
      /\ ReqLen(req) \in Nat
  <2>1. /\ Request(req)[1] = Pkt("hdr", req, 0) /\ Request(req)[2] = Flush /\ ReqLen(req) \in Nat
        /\ \A i \in 3..(ReqLen(req) - 1) : Request(req)[i] = Pkt("pay", req, i - 2)
    BY <1>0, RequestFacts
  <2>2. \A q, i : Pkt("hdr", q, i).k = "hdr" /\ Pkt("hdr", q, i).q = q /\ Pkt("pay", q, i).k = "pay"
    BY DEF Pkt
  <2>3. Flush.k = "flush"
    BY DEF Pkt, Flush
  <2>4. QED
    BY <2>1, <2>2, <2>3
<1>b. fpc # "exited" /\ fpc # "stopped"
  BY DEF ReadHeaderLine, ReadHeaderEnd, ReadPayload, FilterStart, EnsureRuntime, ReadPayloadEnd
<1>c. Reading \/ Finishing \/ Answered
  BY <1>b DEF Sync
<1>d. f \in [q: 0..N, lines: 0..1, got: Nat]
  BY DEF Types
<1>1. CASE ReadHeaderLine
  <2>1. fpc = "hdr" /\ Incoming /\ Head(toF).k # "flush" /\ Consume /\ fpc' = fpc
        /\ f' = [f EXCEPT !.lines = 1,
                          !.q = IF f.q = 0 /\ Head(toF).k = "hdr" THEN Head(toF).q ELSE f.q]
    BY <1>1 DEF ReadHeaderLine
  <2>2. Begins \/ InHeader
    BY <1>c, <2>1 DEF Incoming, Reading, Finishing, Answered, AtWork, InPayload
  <2>3. ~InHeader
    <3>1. InHeader => Head(toF) = Request(req)[1 + 1]
      BY <2>1, AtFacts DEF InHeader
    <3>2. QED
      BY <3>1, <2>1, <1>a
  <2>4. At(0) /\ f = Idle
    BY <2>2, <2>3 DEF Begins
  <2>5. Head(toF).k = "hdr" /\ Head(toF).q = req
    <3>1. Head(toF) = Request(req)[0 + 1]
      BY <2>1, <2>4, AtFacts
    <3>2. QED
      BY <3>1, <1>a
  <2>6. f' = [q |-> req, lines |-> 1, got |-> 0]
    BY <2>1, <2>4, <2>5 DEF Idle
  <2>7. At(0 + 1)'
    BY <1>0, <2>1, <2>4, AtConsume
  <2>8. At(1)' /\ req' = req
    BY <2>7, <1>0 DEF FilterFrame, At
  <2>9. QED
    BY <2>1, <2>2, <2>6, <2>8 DEF Reading, InHeader
<1>2. CASE ReadHeaderEnd
  <2>1. /\ fpc = "hdr" /\ Incoming /\ Head(toF).k = "flush" /\ Consume
        /\ f' = [f EXCEPT !.lines = 0]
        /\ fpc' = CASE f.lines = 0 -> "exited"
                    [] f.lines = 1 /\ f.q = 0 -> "drain"
                    [] f.lines = 1 /\ f.q # 0 /\ conf.plan[f.q].cmd = "smudge" -> "runtime"
                    [] OTHER -> "payload"
    BY <1>2 DEF ReadHeaderEnd
  <2>2. Begins \/ InHeader
    BY <1>c, <2>1 DEF Incoming, Reading, Finishing, Answered, AtWork, InPayload
  <2>3. ~Begins
    <3>1. Begins => Head(toF) = Request(req)[0 + 1]
      BY <2>1, AtFacts DEF Begins
    <3>2. QED
      BY <3>1, <2>1, <1>a
  <2>4. At(1) /\ f = [q |-> req, lines |-> 1, got |-> 0]
    BY <2>2, <2>3 DEF InHeader
  <2>5. fpc' \in {"runtime", "payload"} /\ f'.q = req /\ f'.lines = 0 /\ f'.got = 0
    BY <1>0, <2>1, <2>4
  <2>6. At(1 + 1)'
    BY <1>0, <2>1, <2>4, AtConsume
  <2>7. At(2 + f.got)' /\ req' = req
    BY <2>5, <2>6, <1>0 DEF FilterFrame, At
  <2>8. QED
    BY <2>2, <2>5, <2>7 DEF Reading, InPayload
<1>3. CASE ReadPayload
  <2>1. /\ fpc \in {"payload", "drain"} /\ Incoming /\ Consume /\ fpc' = fpc
        /\ f' = [f EXCEPT !.got = @ + 1]
    BY <1>3 DEF ReadPayload
  <2>2. InPayload
    BY <1>c, <2>1 DEF Incoming, Reading, Finishing, Answered, AtWork, InHeader, Begins
  <2>3. /\ f'.q = req /\ f'.lines = 0 /\ f'.got = f.got + 1 /\ fpc' \in {"runtime", "payload"}
        /\ f.got \in Nat /\ At(2 + f.got)
    BY <1>d, <2>1, <2>2 DEF InPayload
  <2> DEFINE a == 2 + f.got
  <2>4. a \in Nat /\ a + 1 = 2 + f'.got
    BY <2>3
  <2>5. At(a)
    BY <2>3
  <2> HIDE DEF a
  <2>6. /\ Len(toF) \in Nat /\ Len(toF) > 0 /\ Len(Tail(toF)) = Len(toF) - 1
        /\ \A i \in 1..Len(Tail(toF)) : Tail(toF)[i] = Request(req)[(a + 1) + i]
        /\ a + Len(toF) <= ReqLen(req) /\ (~GitEnded => a + Len(toF) = sent)
    BY <2>1, <2>4, <2>5, AtFacts DEF At
  <2>7. toF' = Tail(toF) /\ UNCHANGED <<conf, git, req, sent>>
    BY <1>0, <2>1 DEF Consume, FilterFrame
  <2>8. Request(req)' = Request(req) /\ ReqLen(req)' = ReqLen(req) /\ GitEnded' = GitEnded
    BY <2>7 DEF Request, ReqLen, GitEnded
  <2>9. (a + 1) + Len(Tail(toF)) = a + Len(toF)
    BY <2>4, <2>6, OneLess, Zenon
  <2>10. At(2 + f.got)'
    BY <2>4, <2>6, <2>7, <2>8, <2>9 DEF At
  <2>11. QED
    BY <2>2, <2>3, <2>7, <2>10 DEF Reading, InPayload
<1>4. CASE FilterStart /\ ~FilterExit
  <2>1. fpc = "start" /\ fpc' = "hdr" /\ UNCHANGED <<toF, f>>
    BY <1>4 DEF FilterStart
  <2>2. Begins
    BY <1>c, <2>1 DEF Reading, Finishing, Answered, AtWork, InHeader, InPayload
  <2>3. At(0)'
    BY <1>0, <2>1, <2>2, AtStays DEF Begins
  <2>4. QED
    BY <2>1, <2>2, <2>3 DEF Reading, Begins, Idle
<1>5. CASE EnsureRuntime /\ ~FilterExit
  <2>1. fpc = "runtime" /\ fpc' = "payload" /\ UNCHANGED <<toF, f>>
    BY <1>5 DEF EnsureRuntime
  <2>2. InPayload
    BY <1>c, <2>1 DEF Reading, Finishing, Answered, AtWork, InHeader, Begins
  <2>3. Request(req)' = Request(req) /\ ReqLen(req)' = ReqLen(req) /\ GitEnded' = GitEnded
    BY <1>0 DEF Request, ReqLen, GitEnded, FilterFrame
  <2>4. At(2 + f.got)' /\ req' = req
    BY <1>0, <2>1, <2>2, <2>3 DEF InPayload, At, FilterFrame
  <2>5. QED
    BY <2>1, <2>2, <2>4 DEF Reading, InPayload
<1>6. CASE ReadPayloadEnd
  <2>1. fpc \in {"payload", "drain"} /\ Incoming /\ Head(toF).k = "flush" /\ Consume
    BY <1>6 DEF ReadPayloadEnd
  <2>2. InPayload
    BY <1>c, <2>1 DEF Incoming, Reading, Finishing, Answered, AtWork, InHeader, Begins
  <2>3. f.q = req /\ f.got \in Nat /\ At(2 + f.got) /\ fpc = "payload"
    BY <1>d, <2>1, <2>2 DEF InPayload
  <2>4. fpc' \in {"clean", "parse"} /\ UNCHANGED f
    BY <1>6, <2>3 DEF ReadPayloadEnd
  <2> DEFINE a == 2 + f.got
  <2>5. a \in Nat /\ a >= 2 /\ At(a)
    BY <2>3
  <2> HIDE DEF a
  <2>6. /\ toF \in Seq(AnyPacket) /\ Len(toF) \in Nat /\ Len(toF) > 0 /\ a + 1 <= ReqLen(req)
        /\ Head(toF) = Request(req)[a + 1]
        /\ a + Len(toF) <= ReqLen(req) /\ (~GitEnded => a + Len(toF) = sent)
    BY <2>1, <2>5, AtFacts DEF At
  <2>7. a + 1 = ReqLen(req)
    <3>1. ~(a + 1 \in 3..(ReqLen(req) - 1))
      BY <2>1, <2>6, <1>a
    <3>2. QED
      BY <3>1, <2>5, <2>6, <1>a
  <2>8. Len(toF) = 1 /\ (~GitEnded => sent = ReqLen(req))
    BY <2>5, <2>6, <2>7, <1>a, OneLeft, Zenon
  <2>9. toF' = <<>>
    BY <2>1, <2>6, <2>8 DEF Consume
  <2>10. git # "send"
    BY <1>a, <2>8 DEF Places, GitEnded
  <2>11. UNCHANGED <<git, req>>
    BY <1>0 DEF FilterFrame
  <2>12. QED
    BY <2>2, <2>3, <2>4, <2>9, <2>10, <2>11 DEF Reading, AtWork
<1>7. QED
  BY <1>1, <1>2, <1>3, <1>4, <1>5, <1>6

-----------------------------------------------------------------------------
(* The filter's steps and what git finds. *)

Grew == Len(Pending)' >= Len(Pending) /\ \A i \in 1..Len(Pending) : Pending'[i] = Pending[i]

(* What spoils the stream stays at its head whatever the filter adds. *)
LEMMA SpoiltStays ==
    ASSUME Types, Types', FilterFrame, Grew, fpc' # "stopped", Poisoned \/ Erring,
           Erring => overrun' \/ fpc' = "exited" \/ Answered'
    PROVE  Phase'
<1>1. UNCHANGED <<git, status, content>>
  BY DEF FilterFrame
<1>2. Len(Pending) \in Nat /\ Len(Pending)' \in Nat
  <2>1. Len(Pending) \in Nat
    BY PendingType
  <2>2. toG' \in Seq(AnyPacket) /\ wr' \in Seq(AnyPacket)
    BY DEF Types
  <2>3. Pending' = toG' \o wr'
    BY DEF Pending
  <2>4. QED
    BY <2>1, <2>2, <2>3
<1>3. CASE Poisoned
  <2>1. 1 \in 1..Len(Pending) /\ Len(Pending)' > 0
    <3>1. Len(Pending) > 0 /\ Len(Pending)' >= Len(Pending)
      BY <1>3 DEF Poisoned, Grew
    <3> DEFINE m == Len(Pending)
               n == Len(Pending)'
    <3>2. m \in Nat /\ n \in Nat /\ m > 0 /\ n >= m
      BY <3>1, <1>2
    <3> HIDE DEF m, n
    <3>3. 1 \in 1..m /\ n > 0
      BY <3>2
    <3>4. QED
      BY <3>3 DEF m, n
  <2>2. Pending'[1] = Pending[1]
    BY <2>1 DEF Grew
  <2>3. Poisoned'
    BY <1>1, <1>3, <2>1, <2>2 DEF Poisoned
  <2>4. QED
    BY <2>3 DEF Phase
<1>4. CASE Erring
  <2>1. Len(Pending)' >= Len(Pending) /\ \A i \in 1..Len(Pending) : Pending'[i] = Pending[i]
    BY DEF Grew
  <2>2. /\ Len(Pending) > 3 => /\ Pending'[1] = Pending[1] /\ Pending'[2] = Pending[2]
                               /\ Pending'[3] = Pending[3] /\ Pending'[4] = Pending[4]
                               /\ Len(Pending)' > 3
        /\ Len(Pending) > 2 => /\ Pending'[1] = Pending[1] /\ Pending'[2] = Pending[2]
                               /\ Pending'[3] = Pending[3] /\ Len(Pending)' > 2
        /\ Len(Pending) > 1 => /\ Pending'[1] = Pending[1] /\ Pending'[2] = Pending[2]
                               /\ Len(Pending)' > 1
    BY <1>2, <2>1
  <2>3. Erring'
    BY <1>1, <1>4, <2>2 DEF Erring
  <2>4. QED
    BY <2>3 DEF Phase
<1>5. QED
  BY <1>3, <1>4

(* The filter reports an error: git will read it, or what spoilt the stream before it. *)
LEMMA ReportPhase ==
    ASSUME Types, Types', FilterFrame, NEW v, Report(v), wr = <<>>, toG' = toG,
           Unanswered \/ Poisoned \/ Erring, overrun' \/ Answered', fpc # "exited"
    PROVE  Phase'
<1>1. f.q \in 0..N
  BY DEF Types
<1>2. /\ Len(wr') = 4 /\ wr'[1].k = "err" /\ wr'[2].k = "errtext" /\ wr'[3].k = "flush"
      /\ wr'[4].k = "flush" /\ fpc' = "write"
  BY <1>1, ReplyFacts DEF Report
<1>3. Len(Pending) \in Nat
  BY PendingType
<1>4. CASE Unanswered
  <2>1. Pending' = wr'
    <3>1. toG = <<>>
      BY <1>4, PendingType DEF Unanswered
    <3>2. wr' \in Seq(AnyPacket)
      BY DEF Types
    <3>3. QED
      BY <3>1, <3>2, ConcatEmptySeq DEF Pending
  <2>2. Len(Pending)' > 3
    <3>1. Len(Pending)' = 4
      BY <1>2, <2>1, Zenon
    <3>2. 4 > 3
      OBVIOUS
    <3>3. QED
      BY <3>1, <3>2, Zenon
  <2>3. Erring'
    BY <1>2, <1>4, <2>1, <2>2 DEF Unanswered, Erring, FilterFrame
  <2>4. QED
    BY <2>3 DEF Phase
<1>5. CASE Poisoned \/ Erring
  <2>1. Len(Pending)' = Len(Pending) + Len(wr')
        /\ \A i \in 1..Len(Pending) : Pending'[i] = Pending[i]
    BY PendingReply
  <2>2. Grew
    BY <1>2, <1>3, <2>1 DEF Grew
  <2>3. QED
    BY <1>2, <1>5, <2>2, SpoiltStays
<1>6. QED
  BY <1>4, <1>5

(* A step of the filter that writes nothing. *)
LEMMA SilentGrew == ASSUME Types, UNCHANGED <<toG, wr>> PROVE Pending' = Pending /\ Grew
<1>1. Pending' = Pending
  BY DEF Pending
<1>2. Len(Pending) \in Nat
  BY PendingType
<1>3. QED
  BY <1>1, <1>2 DEF Grew

Core == Sync /\ Phase

(* A filter that exits. *)
LEMMA ExitCore ==
    ASSUME Types, Types', Places, Phase, FilterFrame,
           fpc' = "exited", toG' = toG, wr' = <<>>, wr = <<>> \/ GitEnded,
           GitEnded \/ fpc \in {"start", "runtime"} \/ (fpc = "hdr" /\ Incoming)
    PROVE  Core'
<1>1. Sync'
  BY DEF Sync
<1>2. CASE GitEnded
  BY <1>1, <1>2 DEF Core, Phase, GitEnded, FilterFrame
<1>3. CASE ~GitEnded
  <2>1. Pending' = Pending /\ Grew
    BY <1>3, SilentGrew
  <2>2. ~Answering /\ ~Closing
    BY <1>3 DEF Answering, Closing, ReadsOpen, ReadsWhole, ReadsTorn, Finishing, Answered, Incoming
  <2>3. CASE Unanswered
    <3>1. Unanswered'
      BY <2>1, <2>3 DEF Unanswered, FilterFrame
    <3>2. QED
      BY <1>1, <3>1 DEF Core, Phase
  <2>4. CASE Poisoned \/ Erring
    BY <1>1, <2>1, <2>4, SpoiltStays DEF Core
  <2>5. QED
    BY <1>3, <2>2, <2>3, <2>4 DEF Phase
<1>4. QED
  BY <1>2, <1>3

(* The filter's steps up to the end of a payload. *)
LEMMA ReadCore ==
    ASSUME Types, Types', Places, Core, ~FilterExit,
           \/ FilterStart \/ ReadHeaderLine \/ ReadHeaderEnd \/ EnsureRuntime
           \/ ReadPayload \/ PayloadGivenUp \/ ReadPayloadEnd
    PROVE  Core'
<1>0. FilterFrame /\ GitEnded' = GitEnded
  BY FilterFrames DEF FilterStep, FilterFrame, GitEnded
<1>1. /\ toG' = toG /\ wr = <<>> /\ fpc \in {"start", "hdr", "runtime", "payload", "drain"}
      /\ fpc' # "stopped"
      /\ fpc \in {"start", "runtime"} \/ Incoming
      /\ overrun => overrun'
  <2>1. /\ toG' = toG /\ fpc \in {"start", "hdr", "runtime", "payload", "drain"}
        /\ fpc \in {"start", "runtime"} \/ Incoming
    BY DEF FilterStart, ReadHeaderLine, ReadHeaderEnd, EnsureRuntime, ReadPayload,
       PayloadGivenUp, ReadPayloadEnd
  <2>2. fpc' # "stopped"
    BY DEF FilterStart, ReadHeaderLine, ReadHeaderEnd, EnsureRuntime, ReadPayload,
       PayloadGivenUp, ReadPayloadEnd, Report
  <2>3. overrun => overrun'
    BY DEF FilterStart, ReadHeaderLine, ReadHeaderEnd, EnsureRuntime, ReadPayload,
       PayloadGivenUp, ReadPayloadEnd
  <2>4. QED
    BY <2>1, <2>2, <2>3 DEF Places
<1>2. ~GitEnded => Unanswered \/ Poisoned \/ Erring
  BY <1>1 DEF Core, Phase, Answering, Closing, ReadsOpen, ReadsWhole, ReadsTorn, Finishing,
     Answered, Incoming
<1>3. Erring => overrun
  BY <1>1 DEF Erring, Answered, Incoming
<1>4. CASE PayloadGivenUp
  <2>1. Report("err") /\ overrun' = TRUE
    BY <1>4 DEF PayloadGivenUp
  <2>2. Sync'
    BY <2>1 DEF Sync
  <2>3. GitEnded => Phase'
    BY <1>0 DEF Phase
  <2>4. ~GitEnded => Phase'
    BY <1>0, <1>1, <1>2, <2>1, ReportPhase
  <2>5. QED
    BY <2>2, <2>3, <2>4 DEF Core
<1>5. CASE ~PayloadGivenUp
  <2>1. UNCHANGED overrun
    BY <1>5 DEF FilterStart, ReadHeaderLine, ReadHeaderEnd, EnsureRuntime, ReadPayload,
       ReadPayloadEnd
  <2>2. ~overrun => Reading' /\ Reading
    BY <1>5, ReadingSync DEF Core
  <2>3. Sync'
    BY <2>1, <2>2 DEF Sync
  <2>4. ~GitEnded => Phase'
    <3>1. CASE Unanswered
      <4>1. ~overrun /\ Reading'
        BY <1>1, <2>2, <3>1 DEF Unanswered
      <4>2. UNCHANGED wr
        <5>1. fpc # "drain"
          BY <2>2, <4>1 DEF Reading, Begins, InHeader, InPayload, AtWork
        <5>2. QED
          BY <5>1, <1>5 DEF FilterStart, ReadHeaderLine, ReadHeaderEnd, EnsureRuntime,
             ReadPayload, ReadPayloadEnd
      <4>3. Unanswered'
        BY <1>0, <1>1, <2>1, <3>1, <4>1, <4>2, SilentGrew DEF Unanswered, FilterFrame
      <4>4. QED
        BY <4>3 DEF Phase
    <3>2. CASE Poisoned \/ Erring
      <4>1. CASE Report("err")
        <5>1. fpc = "drain"
          BY <1>5, <4>1 DEF Report, FilterStart, ReadHeaderLine, ReadHeaderEnd, EnsureRuntime,
             ReadPayload, ReadPayloadEnd
        <5>2. overrun
          BY <5>1, <2>2 DEF Reading, Begins, InHeader, InPayload, AtWork
        <5>3. QED
          BY <1>0, <1>1, <2>1, <3>2, <4>1, <5>2, ReportPhase
      <4>2. CASE ~Report("err")
        <5>1. UNCHANGED wr
          BY <1>5, <4>2 DEF FilterStart, ReadHeaderLine, ReadHeaderEnd, EnsureRuntime,
             ReadPayload, ReadPayloadEnd
        <5>2. Grew
          BY <1>1, <5>1, SilentGrew
        <5>3. Erring => overrun'
          BY <1>1, <1>3
        <5>4. fpc' # "stopped"
          BY <1>1
        <5>5. QED
          BY <1>0, <3>2, <5>2, <5>3, <5>4, SpoiltStays
      <4>3. QED
        BY <4>1, <4>2
    <3>3. QED
      BY <1>2, <3>1, <3>2
  <2>5. QED
    BY <1>0, <2>3, <2>4 DEF Core, Phase
<1>6. QED
  BY <1>4, <1>5

(* The filter's steps while it works on a request, and its refusals. *)
LEMMA WorkCore ==
    ASSUME Types, Types', Places, Core,
           fpc \in {"clean", "parse", "hot", "store", "cold", "download", "stalled", "manifest"},
           FilterFrame, UNCHANGED <<toF, toG, overrun>>,
           \/ Report("err")
           \/ BeginFinish
           \/ /\ UNCHANGED <<f, wr>>
              /\ fpc' \in {"clean", "parse", "hot", "store", "cold", "download", "stalled", "manifest"}
           \/ /\ Clean /\ wr' = StatusList(f.q) \o Answer(f.q) \o <<Flush>> \o StatusList(f.q)
              /\ verdict' = [verdict EXCEPT ![f.q] = "ok"] /\ fpc' = "write" /\ f' = Idle
    PROVE  Core'
<1>0. wr = <<>> /\ GitEnded' = GitEnded /\ UNCHANGED <<conf, git, req, status, content>>
  BY DEF Places, FilterFrame, GitEnded
<1>1. ~GitEnded => Unanswered \/ Poisoned \/ Erring
  BY DEF Core, Phase, Answering, Closing, ReadsOpen, ReadsWhole, ReadsTorn, Finishing, Answered
<1>2. ~overrun => AtWork
  BY DEF Core, Sync, Reading, Begins, InHeader, InPayload, Finishing, Answered
<1>3. Erring => overrun
  BY DEF Erring, Answered
<1>4. Unanswered => ~overrun /\ AtWork /\ git = "status1"
  BY <1>2 DEF Unanswered, AtWork
<1>5. req \in Ids /\ req \in 0..N /\ Len(Pending) \in Nat
  <2>1. req \in Ids
    BY DEF Types
  <2>2. QED
    BY <2>1, FilterAssumption, PendingType DEF Ids
<1>6. GitEnded => Phase'
  BY <1>0 DEF Phase
<1>7. Unanswered => Pending' = wr'
  <2>1. wr' \in Seq(AnyPacket)
    BY DEF Types
  <2>2. Unanswered => toG = <<>>
    BY <1>0, PendingType DEF Unanswered
  <2>3. QED
    BY <2>1, <2>2, ConcatEmptySeq DEF Pending
<1>8. Grew
  <2>1. Len(Pending)' = Len(Pending) + Len(wr')
        /\ \A i \in 1..Len(Pending) : Pending'[i] = Pending[i]
    BY <1>0, PendingReply
  <2>2. Len(wr') \in Nat
    <3>1. wr' \in Seq(AnyPacket)
      BY DEF Types
    <3>2. QED
      BY <3>1
  <2>3. QED
    BY <1>5, <2>1, <2>2 DEF Grew
<1>9. fpc' # "stopped" => ((Poisoned \/ Erring) => Phase')
  BY <1>3, <1>8, SpoiltStays
<1>10. CASE Report("err")
  <2>1. fpc' = "write" /\ f' = Idle
    BY <1>10 DEF Report
  <2>2. ~overrun => Answered'
    BY <1>0, <1>2, <2>1 DEF AtWork, Answered, Idle
  <2>3. ~GitEnded => Phase'
    BY <1>0, <1>1, <1>10, <2>2, ReportPhase
  <2>4. QED
    BY <1>6, <2>2, <2>3 DEF Core, Sync
<1>11. CASE BeginFinish
  <2>1. fpc' = "finish" /\ wr' = StatusList(f.q) /\ f'.q = f.q /\ f'.got = 0
    BY <1>11 DEF BeginFinish, Types
  <2>2. ~overrun => Finishing'
    BY <1>0, <1>2, <2>1 DEF AtWork, Finishing
  <2>3. CASE Unanswered
    <3>1. /\ f.q = req /\ content' = <<>> /\ git' = "status1" /\ status' = "" /\ ~overrun'
          /\ Finishing'
      BY <1>0, <1>4, <2>2, <2>3 DEF Unanswered, AtWork
    <3>2. Pending' = StatusList(req)
      BY <1>7, <2>1, <2>3, <3>1
    <3>3. Len(Pending)' = 2 /\ Pending'[1].k = "ok" /\ Pending'[2].k = "flush"
      BY <1>5, <3>2, ReplyFacts
    <3>4. Opening(2)'
      BY <3>1, <3>3 DEF Opening
    <3>5. Len(content)' = 0
      BY <3>1
    <3>6. Own(2, 0)'
      BY <3>5 DEF Own
    <3>7. ReadsOpen(2, 0)'
      <4>1. 0 + Len(content)' = f'.got /\ Len(Pending)' = 2 + 0
        BY <2>1, <3>3, <3>5
      <4>2. QED
        BY <3>1, <3>6, <4>1 DEF ReadsOpen
    <3>8. Answering'
      <4>1. 2 \in 0..2 /\ 0 \in 0..Len(Pending)'
        BY <3>3
      <4>2. QED
        BY <3>1, <3>4, <3>7, <4>1 DEF Answering
    <3>9. QED
      BY <2>2, <3>8 DEF Core, Sync, Phase
  <2>4. QED
    BY <1>1, <1>6, <1>9, <2>1, <2>2, <2>3 DEF Core, Sync
<1>12. CASE /\ UNCHANGED <<f, wr>>
            /\ fpc' \in {"clean", "parse", "hot", "store", "cold", "download", "stalled", "manifest"}
  <2>1. ~overrun => AtWork'
    BY <1>0, <1>2, <1>12 DEF AtWork
  <2>2. CASE Unanswered
    <3>1. Unanswered'
      BY <1>0, <1>4, <1>7, <1>12, <2>1, <2>2 DEF Unanswered, Reading
    <3>2. QED
      BY <2>1, <3>1 DEF Core, Sync, Reading, Phase
  <2>3. QED
    BY <1>1, <1>6, <1>9, <1>12, <2>1, <2>2 DEF Core, Sync, Reading
<1>13. CASE /\ Clean /\ wr' = StatusList(f.q) \o Answer(f.q) \o <<Flush>> \o StatusList(f.q)
            /\ verdict' = [verdict EXCEPT ![f.q] = "ok"] /\ fpc' = "write" /\ f' = Idle
  <2>1. ~overrun => Answered'
    BY <1>0, <1>2, <1>13 DEF AtWork, Answered, Idle
  <2>2. CASE Unanswered
    <3>1. /\ f.q = req /\ content' = <<>> /\ git' = "status1" /\ status' = "" /\ ~overrun'
          /\ Answered' /\ verdict'[req'] = "ok"
      <4>1. f.q = req /\ ~overrun' /\ Answered' /\ content' = <<>> /\ git' = "status1"
            /\ status' = ""
        BY <1>0, <1>4, <2>1, <2>2 DEF Unanswered, AtWork
      <4>2. verdict'[req'] = "ok"
        BY <1>0, <1>5, <1>13, <4>1 DEF Types
      <4>3. QED
        BY <4>1, <4>2
    <3>2. PICK n \in Nat : n = AnsLen(req)
      BY <1>5, AnswerFacts
    <3>3. Pending' = CleanAnswer(req)
      BY <1>7, <1>13, <2>2, <3>1 DEF CleanAnswer
    <3>4. /\ Len(Pending)' = n + 5 /\ Pending'[1].k = "ok" /\ Pending'[2].k = "flush"
          /\ \A i \in 1..n : Pending'[2 + i] = Pkt("out", req, i)
          /\ Pending'[n + 3].k = "flush" /\ Pending'[n + 4].k = "ok" /\ Pending'[n + 5].k = "flush"
      BY <1>5, <3>2, <3>3, CleanReply
    <3>5. Opening(2)'
      BY <3>1, <3>4 DEF Opening
    <3>6. Len(content)' = 0 /\ AnsLen(req)' = n /\ req' = req
      BY <1>0, <3>1, <3>2 DEF AnsLen
    <3>7. Own(2, n)'
      <4>1. \A i \in 1..Len(content)' : content'[i] = Pkt("out", req', i)
        BY <3>6
      <4>2. \A i \in 1..n : 0 + i = i
        OBVIOUS
      <4>3. QED
        BY <3>4, <3>6, <4>1, <4>2 DEF Own
    <3>8. ReadsWhole(2, n)'
      <4>1. 2 + n + 1 = n + 3 /\ 2 + n + 2 = n + 4 /\ 2 + n + 3 = n + 5 /\ n + 0 = n
        OBVIOUS
      <4>2. QED
        BY <3>1, <3>4, <3>6, <3>7, <4>1 DEF ReadsWhole, Decided
    <3>9. Answering'
      <4>1. n \in 0..(n + 5) /\ 2 \in 0..2
        OBVIOUS
      <4>2. QED
        BY <3>1, <3>4, <3>5, <3>8, <4>1 DEF Answering
    <3>10. QED
      BY <2>1, <3>9 DEF Core, Sync, Phase
  <2>3. QED
    BY <1>1, <1>6, <1>9, <1>13, <2>1, <2>2 DEF Core, Sync
<1>14. QED
  BY <1>10, <1>11, <1>12, <1>13

(* Nothing git reads from or the filter reads from changes. *)
LEMMA SyncStays ==
    ASSUME Types, Sync, FilterFrame, UNCHANGED <<toF, f, fpc, overrun>>
    PROVE  Sync' /\ (Reading => Reading') /\ (Answered => Answered') /\ (Finishing => Finishing')
<1>1. Request(req)' = Request(req) /\ ReqLen(req)' = ReqLen(req) /\ GitEnded' = GitEnded
  BY DEF Request, ReqLen, GitEnded, FilterFrame
<1>2. UNCHANGED <<req, git, sent>>
  BY DEF FilterFrame
<1>3. /\ At(0) => At(0)'
      /\ At(1) => At(1)'
      /\ At(2 + f.got) => At(2 + f.got)'
  BY <1>1, <1>2 DEF At
<1>4. Reading => Reading'
  BY <1>2, <1>3 DEF Reading, Begins, InHeader, InPayload, AtWork, Idle
<1>5. (Answered => Answered') /\ (Finishing => Finishing')
  BY <1>2 DEF Answered, Finishing, Idle
<1>6. QED
  BY <1>4, <1>5 DEF Sync

LEMMA WritePacketCore ==
    ASSUME Types, Core, WritePacket
    PROVE  Core'
<1>0. /\ FilterFrame /\ Pending' = Pending /\ GitEnded' = GitEnded
      /\ UNCHANGED <<toF, f, fpc, overrun, verdict, git, req, status, content, conf>>
  <2>1. FilterFrame
    BY FilterFrames DEF FilterStep
  <2>2. QED
    BY <2>1, PendingWrite DEF WritePacket, FilterFrame, GitEnded
<1>1. Sync' /\ (Reading => Reading') /\ (Answered => Answered') /\ (Finishing => Finishing')
  BY <1>0, SyncStays DEF Core
<1>2. CASE Unanswered
  BY <1>0, <1>1, <1>2 DEF Unanswered, Phase, Core
<1>3. CASE Poisoned
  BY <1>0, <1>1, <1>3 DEF Poisoned, Phase, Core
<1>4. CASE Erring
  <2>1. Erring'
    BY <1>0, <1>1, <1>4 DEF Erring
  <2>2. QED
    BY <1>1, <2>1 DEF Phase, Core
<1>5. CASE Answering
  <2>1. PICK h \in 0..2, r \in 0..Len(Pending) :
          Opening(h) /\ (ReadsOpen(h, r) \/ ReadsWhole(h, r) \/ ReadsTorn(h, r))
    BY <1>5 DEF Answering
  <2>2. Opening(h)' /\ (Own(h, r) => Own(h, r)') /\ AnsLen(req)' = AnsLen(req)
    BY <1>0, <2>1 DEF Opening, Own, AnsLen
  <2>3. ReadsOpen(h, r) => ReadsOpen(h, r)'
    BY <1>0, <1>1, <2>2 DEF ReadsOpen
  <2>4. ReadsWhole(h, r) => ReadsWhole(h, r)'
    BY <1>0, <1>1, <2>2 DEF ReadsWhole, Decided
  <2>5. ReadsTorn(h, r) => ReadsTorn(h, r)'
    BY <1>0, <1>1 DEF ReadsTorn
  <2>6. ~overrun' /\ r \in 0..Len(Pending)'
    BY <1>0, <1>5 DEF Answering
  <2>7. Answering'
    BY <2>1, <2>2, <2>3, <2>4, <2>5, <2>6 DEF Answering
  <2>8. QED
    BY <1>1, <2>7 DEF Phase, Core
<1>6. CASE Closing
  <2>1. Answer(req)' = Answer(req)
    BY <1>0 DEF Answer
  <2>2. Closing'
    BY <1>0, <1>1, <1>6, <2>1 DEF Closing, Taken, AnsLen
  <2>3. QED
    BY <1>1, <2>2 DEF Phase, Core
<1>7. QED
  BY <1>0, <1>1, <1>2, <1>3, <1>4, <1>5, <1>6 DEF Phase, Core

(* The reply is written: the next request. *)
LEMMA WriteDoneCore ==
    ASSUME Types, Places, Core, WriteDone
    PROVE  Core'
<1>0. /\ FilterFrame /\ fpc = "write" /\ fpc' = "hdr" /\ wr = <<>> /\ GitEnded' = GitEnded
      /\ UNCHANGED <<toF, toG, wr, f, overrun, verdict, git, req, status, content, conf>>
  <2>1. FilterFrame
    BY FilterFrames DEF FilterStep
  <2>2. QED
    BY <2>1 DEF WriteDone, FilterFrame, GitEnded
<1>a. Pending' = Pending
  BY <1>0 DEF Pending
<1>1. Begins => Begins'
  <2>1. At(0) => At(0)'
    BY <1>0, AtStays
  <2>2. QED
    BY <1>0, <2>1 DEF Begins, Idle
<1>2. Answered => Answered'
  BY <1>0 DEF Answered, Idle
<1>3. Sync' /\ (Reading => Begins) /\ ~Finishing
  BY <1>0, <1>1, <1>2 DEF Core, Sync, Reading, InHeader, InPayload, AtWork, Finishing
<1>4. CASE Unanswered
  BY <1>0, <1>a, <1>1, <1>3, <1>4 DEF Unanswered, Phase, Core, Reading
<1>5. CASE Poisoned
  BY <1>0, <1>a, <1>3, <1>5 DEF Poisoned, Phase, Core
<1>6. CASE Erring
  <2>1. Erring'
    BY <1>0, <1>a, <1>2, <1>6 DEF Erring
  <2>2. QED
    BY <1>3, <2>1 DEF Phase, Core
<1>7. CASE Answering
  <2>1. PICK h \in 0..2, r \in 0..Len(Pending) :
          Opening(h) /\ (ReadsOpen(h, r) \/ ReadsWhole(h, r) \/ ReadsTorn(h, r))
    BY <1>7 DEF Answering
  <2>2. Opening(h)' /\ (Own(h, r) => Own(h, r)') /\ AnsLen(req)' = AnsLen(req)
    BY <1>0, <1>a, <2>1 DEF Opening, Own, AnsLen
  <2>3. ~ReadsOpen(h, r)
    BY <1>3 DEF ReadsOpen
  <2>4. ReadsWhole(h, r) => ReadsWhole(h, r)'
    BY <1>0, <1>a, <1>2, <2>2 DEF ReadsWhole, Decided
  <2>5. ReadsTorn(h, r) => ReadsTorn(h, r)'
    BY <1>0, <1>a, <1>2 DEF ReadsTorn
  <2>6. ~overrun' /\ r \in 0..Len(Pending)'
    BY <1>0, <1>a, <1>7 DEF Answering
  <2>7. Answering'
    BY <2>1, <2>2, <2>3, <2>4, <2>5, <2>6 DEF Answering
  <2>8. QED
    BY <1>3, <2>7 DEF Phase, Core
<1>8. CASE Closing
  <2>1. Answer(req)' = Answer(req)
    BY <1>0 DEF Answer
  <2>2. Closing'
    BY <1>0, <1>a, <1>2, <1>8, <2>1 DEF Closing, Taken, AnsLen
  <2>3. QED
    BY <1>3, <2>2 DEF Phase, Core
<1>9. QED
  BY <1>0, <1>3, <1>4, <1>5, <1>6, <1>7, <1>8 DEF Phase, Core

(* finish_smudge: another packet of the file, its end, or a failure halfway. *)
LEMMA FinishCore ==
    ASSUME Types, Types', Places, Core, FinishChunk \/ FinishEnd \/ FinishTorn
    PROVE  Core'
<1>0. /\ FilterFrame /\ GitEnded' = GitEnded /\ fpc = "finish" /\ wr = <<>>
      /\ UNCHANGED <<toF, overrun, git, req, status, content, conf>>
  <2>1. FilterFrame
    BY FilterFrames DEF FilterStep
  <2>2. QED
    BY <2>1 DEF FinishChunk, FinishEnd, FinishTorn, Quiet, FilterFrame, GitEnded
<1>1. /\ ~overrun => Finishing
      /\ f.q \in Ids /\ conf.plan[f.q].cmd = "smudge" /\ Filled
  BY <1>0 DEF Core, Sync, Reading, Begins, InHeader, InPayload, AtWork, Answered, Places
<1>2. ~GitEnded => Poisoned \/ Erring \/ Answering
  BY <1>0, <1>1 DEF Core, Phase, Unanswered, Reading, Begins, InHeader, InPayload, AtWork, Closing,
     Answered
<1>3. Erring => overrun
  BY <1>0 DEF Erring, Answered
<1>4. ASSUME Answering
      PROVE  \E h \in 0..2, r \in 0..Len(Pending) : Opening(h) /\ ReadsOpen(h, r)
  BY <1>0, <1>4 DEF Answering, ReadsWhole, ReadsTorn, Answered
<1>5. Len(Pending) \in Nat /\ req \in Ids /\ req \in 0..N
  <2>1. req \in Ids
    BY DEF Types
  <2>2. QED
    BY <2>1, FilterAssumption, PendingType DEF Ids
<1>6. f.got \in Nat /\ f.q \in 0..N
  BY DEF Types
<1>7. GitEnded => Phase'
  BY <1>0 DEF Phase
<1>8. CASE FinishChunk
  <2> DEFINE x == Pkt("out", f.q, f.got + 1)
  <2>1. /\ toG' = Append(toG, x) /\ UNCHANGED <<wr, fpc, verdict, tmp>>
        /\ f'.q = f.q /\ f'.got = f.got + 1
    BY <1>8 DEF FinishChunk, Types
  <2>2. x \in AnyPacket
    BY <1>6, PacketTypes DEF Kinds
  <2> HIDE DEF x
  <2>3. /\ Len(Pending)' = Len(Pending) + 1
        /\ \A i \in 1..Len(Pending) : Pending'[i] = Pending[i]
        /\ Pending'[Len(Pending) + 1] = x
    BY <1>0, <2>1, <2>2, PendingChunk
  <2>4. ~overrun => Finishing'
    BY <1>0, <1>1, <2>1 DEF Finishing
  <2>5. Grew
    BY <1>5, <2>3 DEF Grew
  <2>6. CASE Poisoned \/ Erring
    <3>1. fpc' # "stopped" /\ (Erring => overrun')
      BY <1>0, <1>3, <2>1
    <3>2. Phase'
      BY <1>0, <2>5, <2>6, <3>1, SpoiltStays
    <3>3. QED
      BY <1>0, <2>4, <3>2 DEF Core, Sync
  <2>7. CASE Answering
    <3>1. PICK h \in 0..2, r \in 0..Len(Pending) : Opening(h) /\ ReadsOpen(h, r)
      BY <1>4, <2>7
    <3>2. /\ r + Len(content) = f.got /\ Len(Pending) = h + r /\ Own(h, r) /\ f.q = req
          /\ Len(content) \in Nat /\ r \in Nat /\ h \in Nat
      <4>1. Len(content) \in Nat
        <5>1. content \in Seq(AnyPacket)
          BY DEF Types
        <5>2. QED
          BY <5>1
      <4>2. QED
        BY <1>5, <3>1, <4>1 DEF ReadsOpen, Finishing
    <3>3. PICK s \in Nat : s = r + 1
      BY <3>2
    <3>4. Opening(h)'
      <4>1. h = 2 => Pending'[1] = Pending[1] /\ Pending'[2] = Pending[2]
        BY <2>3, <3>2
      <4>2. h = 1 => Pending'[1] = Pending[1]
        BY <2>3, <3>2
      <4>3. QED
        BY <1>0, <3>1, <4>1, <4>2 DEF Opening
    <3>5. Own(h, s)'
      <4>1. \A i \in 1..Len(content)' : content'[i] = Pkt("out", req', i)
        BY <1>0, <3>2 DEF Own
      <4>2. ASSUME NEW i \in 1..s PROVE Pending'[h + i] = Pkt("out", req', Len(content)' + i)
        <5>1. CASE i <= r
          <6>1. i \in 1..r /\ h + i \in 1..Len(Pending)
            BY <3>2, <3>3, <5>1
          <6>2. Pending[h + i] = Pkt("out", req, Len(content) + i)
            BY <3>2, <6>1 DEF Own
          <6>3. QED
            BY <1>0, <2>3, <6>1, <6>2
        <5>2. CASE i = r + 1
          <6>1. h + i = Len(Pending) + 1 /\ Len(content) + i = f.got + 1
            BY <3>2, <5>2
          <6>2. QED
            BY <1>0, <2>3, <3>2, <6>1 DEF x
        <5>3. QED
          BY <3>2, <3>3, <5>1, <5>2
      <4>3. QED
        BY <4>1, <4>2 DEF Own
    <3>6. /\ s + Len(content)' = f'.got /\ Len(Pending)' = h + s /\ s \in 0..Len(Pending)'
      BY <1>0, <2>1, <2>3, <3>2, <3>3, <1>6
    <3>7. ReadsOpen(h, s)' /\ ~overrun'
      <4>1. ~overrun
        BY <2>7 DEF Answering
      <4>2. QED
        BY <1>0, <2>4, <3>5, <3>6, <4>1 DEF ReadsOpen
    <3>8. Answering'
      BY <3>4, <3>6, <3>7 DEF Answering
    <3>9. QED
      BY <1>0, <2>4, <3>8 DEF Core, Sync, Phase
  <2>8. QED
    BY <1>0, <1>2, <1>7, <2>4, <2>6, <2>7 DEF Core, Sync
<1>9. CASE FinishEnd \/ FinishTorn
  <2>1. /\ toG' = toG /\ fpc' = "write" /\ f' = Idle
        /\ \/ /\ wr' = <<Flush>> \o StatusList(f.q) /\ f.got = tmp
              /\ verdict' = [verdict EXCEPT ![f.q] = IF tmp > FileLen THEN "long" ELSE "ok"]
           \/ wr' = ErrorReply(f.q) /\ verdict' = [verdict EXCEPT ![f.q] = "torn"]
    <3>1. FinishEnd => /\ toG' = toG /\ fpc' = "write" /\ f' = Idle
                       /\ wr' = <<Flush>> \o StatusList(f.q) /\ f.got = tmp
                       /\ verdict' = [verdict EXCEPT ![f.q] = IF tmp > FileLen THEN "long" ELSE "ok"]
      BY DEF FinishEnd, Quiet
    <3>2. f.q # 0
      BY <1>1, FilterAssumption DEF Ids
    <3>3. FinishTorn => /\ toG' = toG /\ fpc' = "write" /\ f' = Idle
                        /\ wr' = ErrorReply(f.q) /\ verdict' = [verdict EXCEPT ![f.q] = "torn"]
      BY <3>2 DEF FinishTorn, Quiet, Report
    <3>4. QED
      BY <1>9, <3>1, <3>3
  <2>2. /\ Len(Pending)' = Len(Pending) + Len(wr')
        /\ \A i \in 1..Len(Pending) : Pending'[i] = Pending[i]
        /\ \A i \in 1..Len(wr') : Pending'[Len(Pending) + i] = wr'[i]
    BY <1>0, <2>1, PendingReply
  <2>3. ~overrun => Answered'
    BY <1>0, <1>1, <2>1 DEF Finishing, Answered, Idle
  <2>4. Grew
    <3>1. wr' \in Seq(AnyPacket)
      BY DEF Types
    <3>2. Len(wr') \in Nat
      BY <3>1
    <3>3. QED
      BY <1>5, <2>2, <3>2 DEF Grew
  <2>5. CASE Poisoned \/ Erring
    <3>1. fpc' # "stopped" /\ (Erring => overrun')
      BY <1>0, <1>3, <2>1
    <3>2. Phase'
      BY <1>0, <2>4, <2>5, <3>1, SpoiltStays
    <3>3. QED
      BY <1>0, <2>3, <3>2 DEF Core, Sync
  <2>6. CASE Answering
    <3>1. PICK h \in 0..2, r \in 0..Len(Pending) : Opening(h) /\ ReadsOpen(h, r)
      BY <1>4, <2>6
    <3>2. /\ r + Len(content) = f.got /\ Len(Pending) = h + r /\ Own(h, r) /\ f.q = req
          /\ Len(content) \in Nat /\ r \in Nat /\ h \in Nat
      <4>1. Len(content) \in Nat
        <5>1. content \in Seq(AnyPacket)
          BY DEF Types
        <5>2. QED
          BY <5>1
      <4>2. QED
        BY <1>5, <3>1, <4>1 DEF ReadsOpen, Finishing
    <3>3. Opening(h)'
      <4>1. h = 2 => Pending'[1] = Pending[1] /\ Pending'[2] = Pending[2]
        BY <2>2, <3>2
      <4>2. h = 1 => Pending'[1] = Pending[1]
        BY <2>2, <3>2
      <4>3. QED
        BY <1>0, <3>1, <4>1, <4>2 DEF Opening
    <3>4. \A i \in 1..r : Pending'[h + i] = Pkt("out", req, Len(content) + i)
      <4> SUFFICES ASSUME NEW i \in 1..r
                   PROVE  Pending'[h + i] = Pkt("out", req, Len(content) + i)
        OBVIOUS
      <4>1. h + i \in 1..Len(Pending)
        BY <3>2
      <4>2. QED
        BY <2>2, <3>2, <4>1 DEF Own
    <3>5. ~overrun' /\ Answered'
      BY <1>0, <2>3, <2>6 DEF Answering
    <3>6. CASE /\ wr' = <<Flush>> \o StatusList(f.q) /\ f.got = tmp
               /\ verdict' = [verdict EXCEPT ![f.q] = IF tmp > FileLen THEN "long" ELSE "ok"]
      <4>1. Len(wr') = 3 /\ wr'[1].k = "flush" /\ wr'[2].k = "ok" /\ wr'[3].k = "flush"
        BY <1>6, <3>6, ReplyFacts
      <4>2. Own(h, r)'
        BY <1>0, <3>2, <3>4 DEF Own
      <4>3. Decided(r + Len(content))'
        <5>1. AnsLen(req)' = FileLen
          BY <1>0, <1>1, <3>2 DEF AnsLen
        <5>2. verdict'[req'] = IF tmp > FileLen THEN "long" ELSE "ok"
          BY <1>0, <1>5, <3>2, <3>6 DEF Types
        <5>3. /\ r + Len(content)' = tmp /\ conf'.local = conf.local
              /\ tmp >= FileLen /\ (tmp > FileLen => ~conf.local)
          BY <1>0, <1>1, <3>2, <3>6 DEF Filled
        <5>4. tmp \in Nat /\ FileLen \in Nat
          <6>1. tmp \in 0..(FileLen + Surplus)
            BY DEF Types
          <6>2. QED
            BY <6>1, FilterAssumption
        <5>5. CASE tmp > FileLen
          BY <5>1, <5>2, <5>3, <5>5 DEF Decided
        <5>6. CASE tmp = FileLen
          BY <5>1, <5>2, <5>3, <5>4, <5>6 DEF Decided
        <5>7. QED
          BY <5>3, <5>4, <5>5, <5>6
      <4>4. /\ Pending'[h + r + 1].k = "flush" /\ Pending'[h + r + 2].k = "ok"
            /\ Pending'[h + r + 3].k = "flush" /\ Len(Pending)' = h + r + 3
        <5>1. 1 \in 1..3 /\ 2 \in 1..3 /\ 3 \in 1..3
          OBVIOUS
        <5>2. QED
          BY <2>2, <3>2, <4>1, <5>1
      <4>5. ReadsWhole(h, r)'
        BY <3>5, <4>2, <4>3, <4>4 DEF ReadsWhole
      <4>6. r \in 0..Len(Pending)'
        BY <3>2, <4>4
      <4>7. QED
        BY <3>3, <3>5, <4>5, <4>6 DEF Answering, Core, Sync, Phase
    <3>7. CASE wr' = ErrorReply(f.q) /\ verdict' = [verdict EXCEPT ![f.q] = "torn"]
      <4>1. /\ Len(wr') = 4 /\ wr'[1].k = "err" /\ wr'[2].k = "errtext" /\ wr'[3].k = "flush"
            /\ wr'[4].k = "flush"
        BY <1>6, <3>7, ReplyFacts
      <4>2. PICK s \in Nat : s = r + 2
        BY <3>2
      <4>3. /\ Pending'[h + r + 1].k = "err" /\ Pending'[h + r + 2].k = "errtext"
            /\ Pending'[h + r + 3].k = "flush" /\ Pending'[h + r + 4].k = "flush"
            /\ Len(Pending)' = h + r + 4
        <5>1. 1 \in 1..4 /\ 2 \in 1..4 /\ 3 \in 1..4 /\ 4 \in 1..4
          OBVIOUS
        <5>2. QED
          BY <2>2, <3>2, <4>1, <5>1
      <4>4. /\ Pending'[h + s + 1].k = "flush" /\ Pending'[h + s + 2].k = "flush"
            /\ Len(Pending)' = h + s + 2
        <5>1. h + s + 1 = h + r + 3 /\ h + s + 2 = h + r + 4
          BY <3>2, <4>2
        <5>2. QED
          BY <4>3, <5>1
      <4>5. \A i \in 1..s : Pending'[h + i].k # "flush"
        <5> SUFFICES ASSUME NEW i \in 1..s PROVE Pending'[h + i].k # "flush"
          OBVIOUS
        <5>1. CASE i <= r
          <6>1. Pending'[h + i] = Pkt("out", req, Len(content) + i)
            BY <3>2, <3>4, <4>2, <5>1
          <6>2. QED
            BY <6>1 DEF Pkt
        <5>2. CASE i > r
          <6>1. h + i = h + r + 1 \/ h + i = h + r + 2
            BY <3>2, <4>2, <5>2
          <6>2. QED
            BY <4>3, <6>1
        <5>3. QED
          BY <3>2, <5>1, <5>2
      <4>6. verdict'[req'] = "torn"
        BY <1>0, <1>5, <3>2, <3>7 DEF Types
      <4>7. ReadsTorn(h, s)'
        BY <3>5, <4>4, <4>5, <4>6 DEF ReadsTorn
      <4>8. s \in 0..Len(Pending)'
        BY <3>2, <4>4
      <4>9. QED
        BY <3>3, <3>5, <4>7, <4>8 DEF Answering, Core, Sync, Phase
    <3>8. QED
      BY <2>1, <3>6, <3>7
  <2>7. QED
    BY <1>0, <1>2, <1>7, <2>3, <2>5, <2>6 DEF Core, Sync
<1>10. QED
  BY <1>8, <1>9

(* Every step of the filter and of the network. *)
LEMMA FilterCore ==
    ASSUME Types, Types', Places, Core, FilterStep \/ Network
    PROVE  Core'
<1>0. FilterFrame
  BY FilterFrames
<1>1. CASE \/ FilterStart \/ ReadHeaderLine \/ ReadHeaderGarbage \/ ReadHeaderEnd \/ EnsureRuntime
           \/ HeaderEof \/ ReadPayload \/ PayloadGivenUp \/ ReadPayloadEnd \/ PayloadEof \/ WriteBroken
  <2>1. CASE FilterExit
    <3>1. GitEnded \/ fpc \in {"start", "runtime"} \/ (fpc = "hdr" /\ Incoming)
      <4>1. HeaderEof \/ PayloadEof \/ WriteBroken => GitEnded
        BY DEF HeaderEof, PayloadEof, EndOfFile, WriteBroken
      <4>2. FilterStart \/ EnsureRuntime => fpc \in {"start", "runtime"}
        BY DEF FilterStart, EnsureRuntime
      <4>3. ReadHeaderLine \/ ReadHeaderGarbage \/ ReadHeaderEnd => fpc = "hdr" /\ Incoming
        BY DEF ReadHeaderLine, ReadHeaderGarbage, ReadHeaderEnd
      <4>4. ~(ReadPayload \/ PayloadGivenUp \/ ReadPayloadEnd)
        <5>1. fpc' = "exited"
          BY <2>1 DEF FilterExit
        <5>2. QED
          BY <5>1 DEF ReadPayload, PayloadGivenUp, ReadPayloadEnd, Report
      <4>5. QED
        BY <1>1, <4>1, <4>2, <4>3, <4>4
    <3>2. wr = <<>> \/ GitEnded
      BY <3>1 DEF Places
    <3>3. QED
      BY <1>0, <2>1, <3>1, <3>2, ExitCore DEF FilterExit, Core
  <2>2. CASE ~FilterExit
    <3>1. ~(ReadHeaderGarbage \/ HeaderEof \/ PayloadEof \/ WriteBroken)
      BY <2>2 DEF ReadHeaderGarbage, HeaderEof, PayloadEof, WriteBroken
    <3>2. QED
      BY <1>1, <2>2, <3>1, ReadCore
  <2>3. QED
    BY <2>1, <2>2
<1>2. CASE \/ Clean \/ SmudgeParse \/ SmudgeHot \/ SmudgeLocal \/ SmudgeStaged
           \/ WatchdogPoll \/ WatchdogAbort \/ Network
  <2>1. Quiet
    BY <1>2 DEF Clean, SmudgeParse, SmudgeHot, SmudgeLocal, SmudgeStaged, SmudgeCold, WatchdogPoll,
       WatchdogAbort, Network, DownloadBytes, DownloadDone, FetchManifest, DownloadError
  <2>2. UNCHANGED <<toF, toG, overrun>>
    BY <2>1 DEF Quiet
  <2>3. fpc \in {"clean", "parse", "hot", "store", "cold", "download", "stalled", "manifest"}
    BY <1>2 DEF Clean, SmudgeParse, SmudgeHot, SmudgeLocal, SmudgeStaged, SmudgeCold, WatchdogPoll,
       WatchdogAbort, Network, DownloadBytes, DownloadDone, FetchManifest, DownloadError
  <2>4. CASE Clean
    BY <1>0, <2>2, <2>3, <2>4, WorkCore DEF Clean
  <2>5. CASE ~Clean
    <3>1. \/ Report("err")
          \/ BeginFinish
          \/ /\ UNCHANGED <<f, wr>>
             /\ fpc' \in {"clean", "parse", "hot", "store", "cold", "download", "stalled", "manifest"}
      BY <1>2, <2>5 DEF SmudgeParse, SmudgeHot, SmudgeLocal, SmudgeStaged, SmudgeCold,
         WatchdogPoll, WatchdogAbort, Network, DownloadBytes, DownloadDone, FetchManifest, DownloadError
    <3>2. QED
      BY <1>0, <2>2, <2>3, <3>1, WorkCore
  <2>6. QED
    BY <2>4, <2>5
<1>3. CASE WritePacket
  BY <1>3, WritePacketCore
<1>4. CASE WriteDone
  BY <1>4, WriteDoneCore
<1>5. CASE FinishChunk \/ FinishEnd \/ FinishTorn
  BY <1>5, FinishCore
<1>6. QED
  BY <1>1, <1>2, <1>3, <1>4, <1>5 DEF FilterStep

-----------------------------------------------------------------------------
(* The steps of git. *)

(* git starts the process again. *)
LEMMA SpawnCore ==
    ASSUME Types, Places, Core, GitSpawn
    PROVE  Core'
<1>1. /\ git = "send" /\ fpc = "stopped" /\ fpc' = "start"
      /\ UNCHANGED <<conf, git, req, sent, status, content, toF, toG, f, wr, overrun>>
  BY DEF GitSpawn, gitVars
<1>2. ~overrun /\ f = Idle
  BY <1>1 DEF Places
<1>3. Begins /\ Unanswered
  <2>1. ~GitEnded /\ ~Poisoned /\ ~Erring /\ ~Answering /\ ~Closing
    BY <1>1 DEF GitEnded, Poisoned, Erring, Answering, Closing, ReadsOpen, ReadsWhole, ReadsTorn,
       Finishing, Answered
  <2>2. Unanswered
    BY <2>1 DEF Core, Phase
  <2>3. QED
    BY <1>1, <2>2 DEF Unanswered, Reading, Begins, InHeader, InPayload, AtWork
<1>4. At(0)'
  <2>1. Request(req)' = Request(req) /\ ReqLen(req)' = ReqLen(req) /\ GitEnded' = GitEnded
    BY <1>1 DEF Request, ReqLen, GitEnded
  <2>2. QED
    BY <1>1, <1>3, <2>1 DEF Begins, At
<1>5. Reading'
  BY <1>1, <1>2, <1>4 DEF Reading, Begins, Idle
<1>6. Unanswered'
  BY <1>1, <1>3, <1>5 DEF Unanswered, Pending
<1>7. QED
  BY <1>5, <1>6 DEF Core, Sync, Phase

(* git writes the next packet of its request. *)
LEMMA SentPacket ==
    ASSUME Types, Places, GitSend
    PROVE  /\ sent + 1 \in 1..ReqLen(req) /\ Request(req)[sent + 1] \in AnyPacket
           /\ Request(req)[sent + 1].k = "hdr" => Request(req)[sent + 1].q = req
<1>1. sent \in Nat /\ req \in Ids
  BY DEF Types
<1>2. sent < ReqLen(req)
  BY DEF GitSend, Places
<1>3. /\ ReqLen(req) \in Nat /\ ReqLen(req) > 3
      /\ \A i \in 1..ReqLen(req) : Request(req)[i] \in AnyPacket
      /\ Request(req)[1] = Pkt("hdr", req, 0) /\ Request(req)[2] = Flush
      /\ \A i \in 3..(ReqLen(req) - 1) : Request(req)[i] = Pkt("pay", req, i - 2)
      /\ Request(req)[ReqLen(req)] = Flush
  BY <1>1, RequestFacts
<1>4. sent + 1 \in 1..ReqLen(req)
  BY <1>1, <1>2, <1>3
<1>5. \/ sent + 1 = 1 \/ sent + 1 = 2 \/ sent + 1 = ReqLen(req)
      \/ sent + 1 \in 3..(ReqLen(req) - 1)
  BY <1>1, <1>3, <1>4
<1>6. CASE sent + 1 = 1
  BY <1>3, <1>4, <1>6 DEF Pkt
<1>7. CASE sent + 1 # 1
  <2>1. Request(req)[sent + 1].k # "hdr"
    <3>1. Flush.k # "hdr"
      BY PacketTypes
    <3>2. CASE sent + 1 \in 3..(ReqLen(req) - 1)
      <4>1. PICK i \in 3..(ReqLen(req) - 1) : i = sent + 1
        BY <3>2
      <4>2. Request(req)[i] = Pkt("pay", req, i - 2)
        BY <1>3
      <4>3. QED
        BY <4>1, <4>2 DEF Pkt
    <3>3. QED
      BY <1>3, <1>5, <1>7, <3>1, <3>2
  <2>2. QED
    BY <1>3, <1>4, <2>1
<1>8. QED
  BY <1>6, <1>7

LEMMA SendAt ==
    ASSUME Types, Places, GitSend, NEW a \in Nat, At(a)
    PROVE  At(a)'
<1>1. /\ git = "send" /\ sent' = sent + 1 /\ git' \in {"send", "status1"}
      /\ toF' = Append(toF, Request(req)[sent + 1]) /\ UNCHANGED <<conf, req>>
  BY DEF GitSend
<1>2. toF \in Seq(AnyPacket) /\ sent \in Nat
  BY DEF Types
<1>3. PICK x \in AnyPacket : x = Request(req)[sent + 1]
  BY SentPacket
<1>4. /\ Len(toF) \in Nat /\ Len(toF)' = Len(toF) + 1
      /\ \A i \in 1..Len(toF) : toF'[i] = toF[i]
      /\ toF'[Len(toF) + 1] = x
  <2>1. toF' = Append(toF, x)
    BY <1>1, <1>3
  <2>2. QED
    BY <1>2, <2>1
<1>5. Request(req)' = Request(req) /\ ReqLen(req)' = ReqLen(req)
  BY <1>1 DEF Request, ReqLen
<1>6. a + Len(toF) = sent
  BY <1>1 DEF At, GitEnded
<1>7. PICK m \in Nat : m = Len(toF)
  BY <1>4
<1>8. a + (m + 1) = sent + 1
  BY <1>6, <1>7
<1>9. ReqLen(req) \in Nat /\ sent + 1 <= ReqLen(req)
  <2>1. req \in Ids
    BY DEF Types
  <2>2. sent + 1 \in 1..ReqLen(req) /\ ReqLen(req) \in Nat
    BY <2>1, SentPacket, RequestFacts
  <2>3. QED
    BY <2>2
<1>10. \A i \in 1..(m + 1) : toF'[i] = Request(req)[a + i]
  <2> SUFFICES ASSUME NEW i \in 1..(m + 1) PROVE toF'[i] = Request(req)[a + i]
    OBVIOUS
  <2>1. i \in 1..m \/ i = m + 1
    OBVIOUS
  <2>2. CASE i \in 1..m
    BY <1>4, <1>7, <2>2 DEF At
  <2>3. CASE i = m + 1
    BY <1>3, <1>4, <1>7, <1>8, <2>3
  <2>4. QED
    BY <2>1, <2>2, <2>3
<1>11. Len(toF)' = m + 1
  BY <1>4, <1>7
<1>12. QED
  BY <1>1, <1>5, <1>8, <1>9, <1>10, <1>11 DEF At

LEMMA SendCore ==
    ASSUME Types, Places, Core, GitSend
    PROVE  Core'
<1>1. /\ git = "send" /\ git' \in {"send", "status1"} /\ fpc \notin {"exited", "stopped"}
      /\ UNCHANGED <<conf, req, status, content, toG, fpc, f, wr, overrun>>
  BY DEF GitSend, filterVars
<1>2. Pending' = Pending
  BY <1>1 DEF Pending
<1>3. ~overrun => Reading /\ Reading'
  <2>1. CASE ~overrun
    <3>1. Begins \/ InHeader \/ InPayload
      BY <1>1, <2>1 DEF Core, Sync, Reading, AtWork, Finishing, Answered
    <3>2. 0 \in Nat /\ 1 \in Nat /\ 2 + f.got \in Nat
      <4>1. f.got \in Nat
        BY DEF Types
      <4>2. QED
        BY <4>1
    <3>3. At(0) => At(0)'
      BY <3>2, SendAt
    <3>4. At(1) => At(1)'
      BY <3>2, SendAt
    <3>5. At(2 + f.got) => At(2 + f.got)'
      <4>1. PICK n \in Nat : n = 2 + f.got
        BY <3>2
      <4>2. At(n) => At(n)'
        BY SendAt
      <4>3. n = (2 + f.got)'
        BY <1>1, <4>1
      <4>4. QED
        BY <4>1, <4>2, <4>3 DEF At
    <3>6. QED
      BY <1>1, <3>1, <3>3, <3>4, <3>5 DEF Reading, Begins, InHeader, InPayload, Idle
  <2>2. QED
    BY <2>1
<1>4. Sync'
  BY <1>1, <1>3 DEF Sync
<1>5. CASE Unanswered
  BY <1>1, <1>2, <1>3, <1>4, <1>5 DEF Unanswered, Core, Phase
<1>6. CASE Poisoned
  BY <1>1, <1>2, <1>4, <1>6 DEF Poisoned, Core, Phase
<1>7. CASE Erring
  <2>1. overrun'
    BY <1>1, <1>7 DEF Erring, Answered
  <2>2. Erring'
    BY <1>1, <1>2, <1>7, <2>1 DEF Erring
  <2>3. QED
    BY <1>4, <2>2 DEF Core, Phase
<1>8. ~Answering /\ ~Closing /\ ~GitEnded
  BY <1>1 DEF Answering, Opening, Closing, GitEnded
<1>9. QED
  BY <1>5, <1>6, <1>7, <1>8 DEF Core, Phase

(* The command has ended; the filter is where it was. *)
LEMMA EndCore ==
    ASSUME Sync, git' \in {"done", "dead"}, UNCHANGED <<conf, req, toF, fpc, f, overrun>>
    PROVE  Core'
<1>1. GitEnded' /\ git' # "send"
  BY DEF GitEnded
<1>2. Request(req)' = Request(req) /\ ReqLen(req)' = ReqLen(req)
  BY DEF Request, ReqLen
<1>3. /\ At(0) => At(0)'
      /\ At(1) => At(1)'
      /\ At(2 + f.got) => At(2 + f.got)'
  BY <1>1, <1>2 DEF At
<1>4. Reading => Reading'
  BY <1>1, <1>3 DEF Reading, Begins, InHeader, InPayload, AtWork, Idle
<1>5. (Answered => Answered') /\ (Finishing => Finishing')
  BY <1>1 DEF Answered, Finishing, Idle
<1>6. QED
  BY <1>1, <1>4, <1>5 DEF Core, Sync, Phase

(* Both pipes are empty of requests, and the next request begins. *)
LEMMA NextBegins ==
    ASSUME Types', toF' = <<>>, sent' = 0, f' = Idle,
           fpc' \in {"start", "hdr", "write", "stopped"}
    PROVE  Reading'
<1>1. req' \in Ids
  BY DEF Types
<1>2. ReqLen(req)' \in Nat
  <2>1. conf'.plan[req'].size \in Nat
    <3>1. conf' \in [plan: [Ids -> Plans], required: BOOLEAN, local: BOOLEAN, stall: {0, Stall}]
      BY DEF Types
    <3>2. conf'.plan[req'] \in Plans
      BY <1>1, <3>1
    <3>3. QED
      BY <3>2, FilterAssumption DEF Plans
  <2>2. QED
    BY <2>1 DEF ReqLen
<1>3. Len(toF)' = 0
  OBVIOUS
<1>4. 0 + 0 <= ReqLen(req)' /\ 0 + 0 = sent' /\ 1..0 = {}
  BY <1>2
<1>5. At(0)'
  BY <1>3, <1>4 DEF At
<1>6. QED
  BY <1>5 DEF Reading, Begins, Idle

(* git gives the request up without a status, or with a success it did not *)
(* finish reading: it stops the process.                                   *)
LEMMA StopCore ==
    ASSUME Types, Types', Sync, NEW rest, GitFail(rest), status # "error"
    PROVE  Core'
<1>1. CASE conf.required
  BY <1>1, EndCore DEF GitFail
<1>2. CASE ~conf.required
  <2>1. /\ toF' = <<>> /\ toG' = <<>> /\ fpc' = "stopped" /\ f' = Idle /\ wr' = <<>>
        /\ overrun' = FALSE /\ sent' = 0 /\ status' = "" /\ content' = <<>>
        /\ git' \in {"done", "send"}
    BY <1>2 DEF GitFail
  <2>2. Reading'
    BY <2>1, NextBegins
  <2>3. Pending' = <<>>
    <3>1. <<>> \o <<>> = <<>>
      OBVIOUS
    <3>2. QED
      BY <2>1, <3>1 DEF Pending
  <2>4. Phase'
    BY <2>1, <2>2, <2>3 DEF Phase, Unanswered, GitEnded
  <2>5. QED
    BY <2>2, <2>4 DEF Core, Sync
<1>3. QED
  BY <1>1, <1>2 DEF Types

(* The end of the pipe. *)
LEMMA BrokenCore ==
    ASSUME Types, Types', Places, Core, GitPipeBroken
    PROVE  Core'
<1>1. /\ fpc = "exited" /\ GitFail(toG)
      /\ git = "send" \/ (git \in {"status1", "content", "status2"} /\ toG = <<>>)
  BY DEF GitPipeBroken
<1>2. wr = <<>>
  BY <1>1 DEF Places
<1>3. git = "send" \/ Len(Pending) = 0
  <2>1. toG = <<>> => Pending = <<>>
    BY <1>2, PendingType
  <2>2. QED
    BY <1>1, <2>1
<1>4. ~Answering /\ ~Closing /\ ~GitEnded
  BY <1>1 DEF Answering, Closing, ReadsOpen, ReadsWhole, ReadsTorn, Finishing, Answered, GitEnded
<1>5. status # "error"
  <2>1. Unanswered \/ Poisoned \/ Erring
    BY <1>4 DEF Core, Phase
  <2>2. CASE git = "send"
    BY <2>1, <2>2 DEF Unanswered, Poisoned, Erring
  <2>3. CASE Len(Pending) = 0
    <3>1. Erring => Len(Pending) > 1
      <4>1. Erring => Len(Pending) > 3 \/ Len(Pending) > 2 \/ Len(Pending) > 1
        BY DEF Erring
      <4>2. Len(Pending) \in Nat
        BY PendingType
      <4>3. QED
        BY <4>1, <4>2
    <3>2. ~Erring
      BY <2>3, <3>1
    <3>3. QED
      BY <2>1, <3>2 DEF Unanswered, Poisoned
  <2>4. QED
    BY <1>3, <2>2, <2>3
<1>6. QED
  BY <1>1, <1>5, StopCore DEF Core

(* git reads: neither its request nor the filter changes. *)
GitReads ==
    /\ UNCHANGED <<conf, req, sent, toF, fpc, f, wr, verdict, overrun>>
    /\ toG # <<>> /\ toG' = Tail(toG)
    /\ git \in {"status1", "content", "status2"} /\ git' \in {"status1", "content", "status2"}

LEMMA ReadsKeep ==
    ASSUME Sync, GitReads
    PROVE  Sync' /\ (Answered => Answered') /\ (Finishing => Finishing')
<1>1. /\ UNCHANGED <<conf, req, sent, toF, fpc, f, wr, verdict, overrun>>
      /\ git # "send" /\ git' # "send" /\ ~GitEnded /\ ~GitEnded'
  BY DEF GitReads, GitEnded
<1>2. Request(req)' = Request(req) /\ ReqLen(req)' = ReqLen(req)
  BY <1>1 DEF Request, ReqLen
<1>3. /\ At(0) => At(0)'
      /\ At(1) => At(1)'
      /\ At(2 + f.got) => At(2 + f.got)'
  BY <1>1, <1>2 DEF At
<1>4. Reading => Reading'
  BY <1>1, <1>3 DEF Reading, Begins, InHeader, InPayload, AtWork, Idle
<1>5. (Answered => Answered') /\ (Finishing => Finishing')
  BY <1>1 DEF Answered, Finishing, Idle
<1>6. QED
  BY <1>1, <1>4, <1>5 DEF Sync

(* One packet of the first status list less. *)
LEMMA ShiftReads ==
    ASSUME Types, Sync, GitReads, content' = content, NEW g \in Nat, NEW r \in Nat,
           ReadsOpen(g + 1, r) \/ ReadsWhole(g + 1, r) \/ ReadsTorn(g + 1, r)
    PROVE  /\ ReadsOpen(g, r)' \/ ReadsWhole(g, r)' \/ ReadsTorn(g, r)'
           /\ r \in 0..Len(Pending)'
<1>1. /\ Len(Pending) \in Nat /\ Len(Pending)' = Len(Pending) - 1
      /\ \A i \in 1..Len(Pending)' : Pending'[i] = Pending[i + 1]
  BY PendingRead, PendingType DEF GitReads
<1>2. (Answered => Answered') /\ (Finishing => Finishing')
  BY ReadsKeep
<1>3. UNCHANGED <<conf, req, f, verdict, content>> /\ AnsLen(req)' = AnsLen(req)
  BY DEF GitReads, AnsLen
<1>4. \A i \in 1..r : (g + 1) + i = (g + i) + 1
  OBVIOUS
<1>5. Own(g + 1, r) /\ Len(Pending)' >= g + r => Own(g, r)'
  <2> SUFFICES ASSUME Own(g + 1, r), Len(Pending)' >= g + r PROVE Own(g, r)'
    OBVIOUS
  <2>1. \A i \in 1..r : Pending'[g + i] = Pkt("out", req, Len(content) + i)
    <3> SUFFICES ASSUME NEW i \in 1..r PROVE Pending'[g + i] = Pkt("out", req, Len(content) + i)
      OBVIOUS
    <3>1. g + i \in 1..Len(Pending)'
      BY <1>1
    <3>2. QED
      BY <1>1, <1>4, <3>1 DEF Own
  <2>2. QED
    BY <1>3, <2>1 DEF Own
<1>6. CASE ReadsOpen(g + 1, r)
  <2>1. Len(Pending)' = g + r
    BY <1>1, <1>6 DEF ReadsOpen
  <2>2. Len(Pending)' >= g + r /\ r \in 0..Len(Pending)'
    BY <2>1
  <2>3. QED
    BY <1>2, <1>3, <1>5, <1>6, <2>1, <2>2 DEF ReadsOpen
<1>7. CASE ReadsWhole(g + 1, r)
  <2>1. Len(Pending)' = g + r + 3
    BY <1>1, <1>7 DEF ReadsWhole
  <2>2. Len(Pending)' >= g + r /\ r \in 0..Len(Pending)'
    BY <2>1
  <2>3. /\ Pending'[g + r + 1] = Pending[(g + 1) + r + 1]
        /\ Pending'[g + r + 2] = Pending[(g + 1) + r + 2]
        /\ Pending'[g + r + 3] = Pending[(g + 1) + r + 3]
    <3>1. /\ g + r + 1 \in 1..(g + r + 3) /\ g + r + 2 \in 1..(g + r + 3)
          /\ g + r + 3 \in 1..(g + r + 3)
          /\ (g + 1) + r + 1 = (g + r + 1) + 1 /\ (g + 1) + r + 2 = (g + r + 2) + 1
          /\ (g + 1) + r + 3 = (g + r + 3) + 1
      OBVIOUS
    <3>2. QED
      BY <1>1, <2>1, <3>1, SMTT(40)
  <2>4. QED
    BY <1>2, <1>3, <1>5, <1>7, <2>1, <2>2, <2>3 DEF ReadsWhole, Decided
<1>8. CASE ReadsTorn(g + 1, r)
  <2>1. Len(Pending)' = g + r + 2
    BY <1>1, <1>8 DEF ReadsTorn
  <2>2. r \in 0..Len(Pending)'
    BY <2>1
  <2>3. /\ Pending'[g + r + 1] = Pending[(g + 1) + r + 1]
        /\ Pending'[g + r + 2] = Pending[(g + 1) + r + 2]
    <3>1. /\ g + r + 1 \in 1..(g + r + 2) /\ g + r + 2 \in 1..(g + r + 2)
          /\ (g + 1) + r + 1 = (g + r + 1) + 1 /\ (g + 1) + r + 2 = (g + r + 2) + 1
      OBVIOUS
    <3>2. QED
      BY <1>1, <2>1, <3>1, SMTT(40)
  <2>4. \A i \in 1..r : Pending'[g + i].k # "flush"
    <3> SUFFICES ASSUME NEW i \in 1..r PROVE Pending'[g + i].k # "flush"
      OBVIOUS
    <3>1. g + i \in 1..Len(Pending)'
      BY <2>1
    <3>2. QED
      BY <1>1, <1>4, <1>8, <3>1 DEF ReadsTorn
  <2>5. QED
    BY <1>2, <1>3, <1>8, <2>1, <2>2, <2>3, <2>4 DEF ReadsTorn
<1>9. QED
  BY <1>6, <1>7, <1>8

(* git reads a line of a status list. *)
LEMMA StatusCore ==
    ASSUME Types, Core, GitReadStatus
    PROVE  Core'
<1>1. /\ git \in {"status1", "status2"} /\ Head(toG).k # "flush" /\ git' = git
      /\ status' = CASE Head(toG).k = "ok"  -> "success"
                     [] Head(toG).k = "err" -> "error"
                     [] OTHER               -> status
      /\ UNCHANGED <<fpc, overrun, verdict, content, req, conf>> /\ GitReads
  BY DEF GitReadStatus, GitReads, filterVars
<1>2. /\ Len(Pending) \in Nat /\ Len(Pending) > 0 /\ Head(toG) = Pending[1]
      /\ Len(Pending)' = Len(Pending) - 1
      /\ \A i \in 1..Len(Pending)' : Pending'[i] = Pending[i + 1]
  BY <1>1, PendingRead, PendingType DEF GitReads
<1>3. Sync' /\ (Answered => Answered')
  BY <1>1, ReadsKeep DEF Core
<1>4. ~GitEnded /\ ~Unanswered /\ ~Poisoned
  <2>1. Pending # <<>>
    BY <1>2
  <2>2. QED
    BY <1>1, <1>2, <2>1 DEF GitEnded, Unanswered, Poisoned
<1>5. CASE Erring
  <2>0. PICK n \in Nat : n = Len(Pending) /\ Len(Pending)' = n - 1
    BY <1>2
  <2>1. ASSUME /\ status = "" /\ Len(Pending) > 3
               /\ Pending[1].k = "err" /\ Pending[2].k = "errtext"
               /\ Pending[3].k = "flush" /\ Pending[4].k = "flush"
        PROVE  Erring'
    <3>1. status' = "error"
      BY <1>1, <1>2, <2>1
    <3>2. /\ n - 1 > 2 /\ 1 \in 1..(n - 1) /\ 2 \in 1..(n - 1) /\ 3 \in 1..(n - 1)
          /\ 1 + 1 = 2 /\ 2 + 1 = 3 /\ 3 + 1 = 4
      <4>1. n > 3
        BY <2>0, <2>1
      <4>2. QED
        BY <4>1
    <3>3. /\ Pending'[1] = Pending[2] /\ Pending'[2] = Pending[3] /\ Pending'[3] = Pending[4]
          /\ Len(Pending)' > 2
      BY <1>2, <2>0, <3>2, Zenon
    <3>4. git' = "status1"
      BY <1>1, <1>5 DEF Erring
    <3>5. QED
      BY <1>1, <1>3, <1>5, <2>1, <3>1, <3>2, <3>3, <3>4 DEF Erring
  <2>2. ASSUME /\ status = "error" /\ git = "status1" /\ Len(Pending) > 2
               /\ Pending[1].k = "errtext" /\ Pending[2].k = "flush" /\ Pending[3].k = "flush"
        PROVE  Erring'
    <3>1. status' = "error"
      BY <1>1, <1>2, <2>2
    <3>2. Len(Pending)' > 1 /\ 1 \in 1..Len(Pending)' /\ 2 \in 1..Len(Pending)'
      BY <1>2, <2>2
    <3>3. Pending'[1] = Pending[2] /\ Pending'[2] = Pending[3]
      BY <1>2, <3>2
    <3>4. QED
      BY <1>1, <1>3, <1>5, <2>2, <3>1, <3>2, <3>3 DEF Erring
  <2>3. Erring'
    BY <1>1, <1>2, <1>5, <2>1, <2>2 DEF Erring
  <2>4. QED
    BY <1>3, <2>3 DEF Core, Phase
<1>6. CASE Answering
  <2>1. PICK h \in 0..2, r \in 0..Len(Pending) :
          Opening(h) /\ (ReadsOpen(h, r) \/ ReadsWhole(h, r) \/ ReadsTorn(h, r))
    BY <1>6 DEF Answering
  <2>2. /\ h = 2 /\ git = "status1" /\ content = <<>> /\ Pending[1].k = "ok"
        /\ Pending[2].k = "flush"
    BY <1>1, <1>2, <2>1 DEF Opening
  <2>3. 1 \in Nat /\ 1 + 1 = 2 /\ r \in Nat
    BY <1>2
  <2>4. (ReadsOpen(1, r)' \/ ReadsWhole(1, r)' \/ ReadsTorn(1, r)') /\ r \in 0..Len(Pending)'
    <3>1. ReadsOpen(1 + 1, r) \/ ReadsWhole(1 + 1, r) \/ ReadsTorn(1 + 1, r)
      BY <2>1, <2>2, <2>3
    <3>2. QED
      BY <1>1, <2>3, <3>1, ShiftReads DEF Core
  <2>5. Pending'[1] = Pending[2]
    <3>1. Len(Pending) > 1
      <4>1. \/ Len(Pending) = 2 + r \/ Len(Pending) = 2 + r + 3 \/ Len(Pending) = 2 + r + 2
        BY <2>1, <2>2 DEF ReadsOpen, ReadsWhole, ReadsTorn
      <4>2. QED
        BY <2>3, <4>1
    <3>2. 1 \in 1..Len(Pending)'
      BY <1>2, <3>1
    <3>3. QED
      BY <1>2, <2>3, <3>2
  <2>6. Opening(1)'
    BY <1>1, <1>2, <2>2, <2>5 DEF Opening
  <2>7. ~overrun' /\ 1 \in 0..2
    BY <1>1, <1>6 DEF Answering
  <2>8. Answering'
    BY <2>4, <2>6, <2>7 DEF Answering
  <2>9. QED
    BY <1>3, <2>8 DEF Core, Phase
<1>7. CASE Closing
  <2>1. /\ Taken /\ Len(Pending) = 2
        /\ Pending[1].k = "ok" /\ Pending[2].k = "flush" /\ git = "status2" /\ ~overrun /\ Answered
    BY <1>1, <1>2, <1>7 DEF Closing
  <2>2. Len(Pending)' = 1 /\ Pending'[1] = Pending[2] /\ 1 \in 1..2 /\ 1 # 2
    <3>1. Len(Pending)' = 1 /\ 1 \in 1..1 /\ 1 + 1 = 2
      BY <1>2, <2>1
    <3>2. Pending'[1] = Pending[2]
      BY <1>2, <3>1
    <3>3. QED
      BY <3>1, <3>2
  <2>3. status' = "success" /\ Answer(req)' = Answer(req)
    BY <1>1, <1>2, <2>1 DEF Answer
  <2>4. Closing'
    BY <1>1, <1>3, <2>1, <2>2, <2>3 DEF Closing, Taken, AnsLen
  <2>5. QED
    BY <1>3, <2>4 DEF Core, Phase
<1>8. QED
  BY <1>4, <1>5, <1>6, <1>7 DEF Core, Phase

(* git reads a packet of the content, or the flush that ends it. *)
LEMMA ContentCore ==
    ASSUME Types, Core, GitReadContent
    PROVE  Core'
<1>1. /\ git = "content" /\ GitReads
      /\ UNCHANGED <<req, status, fpc, f, verdict, overrun, conf>>
      /\ IF Head(toG).k = "flush" THEN git' = "status2" /\ content' = content
         ELSE content' = Append(content, Head(toG)) /\ git' = git
  BY DEF GitReadContent, GitReads, filterVars
<1>2. /\ Len(Pending) \in Nat /\ Len(Pending) > 0 /\ Head(toG) = Pending[1]
      /\ Len(Pending)' = Len(Pending) - 1
      /\ \A i \in 1..Len(Pending)' : Pending'[i] = Pending[i + 1]
  BY <1>1, PendingRead, PendingType DEF GitReads
<1>3. Sync' /\ (Answered => Answered') /\ (Finishing => Finishing')
  BY <1>1, ReadsKeep DEF Core
<1>4. Answering
  BY <1>1 DEF Core, Phase, GitEnded, Unanswered, Poisoned, Erring, Closing
<1>5. PICK r \in 0..Len(Pending) : ReadsOpen(0, r) \/ ReadsWhole(0, r) \/ ReadsTorn(0, r)
  <2>1. PICK h \in 0..2, r \in 0..Len(Pending) :
          Opening(h) /\ (ReadsOpen(h, r) \/ ReadsWhole(h, r) \/ ReadsTorn(h, r))
    BY <1>4 DEF Answering
  <2>2. h = 0
    BY <1>1, <2>1 DEF Opening
  <2>3. QED
    BY <2>1, <2>2
<1>6. status' = "success" /\ ~overrun'
  BY <1>1, <1>4 DEF Answering, Opening
<1>7. /\ content \in Seq(AnyPacket) /\ Len(content) \in Nat /\ r \in Nat /\ req \in Ids
      /\ f.got \in Nat
  <2>1. content \in Seq(AnyPacket) /\ req \in Ids /\ f.got \in Nat
    BY DEF Types
  <2>2. QED
    BY <1>2, <2>1
<1>8. /\ AnsLen(req) \in Nat /\ AnsLen(req)' = AnsLen(req) /\ Answer(req)' = Answer(req)
      /\ Answer(req) \in Seq(AnyPacket) /\ Len(Answer(req)) = AnsLen(req)
      /\ \A i \in 1..AnsLen(req) : Answer(req)[i] = Pkt("out", req, i)
  <2>1. AnsLen(req)' = AnsLen(req) /\ Answer(req)' = Answer(req)
    BY <1>1 DEF AnsLen, Answer
  <2>2. QED
    BY <1>7, <2>1, AnswerFacts
<1>9. r > 0 => Head(toG).k # "flush"
  <2> SUFFICES ASSUME r > 0 PROVE Pending[1].k # "flush"
    BY <1>2
  <2>1. 1 \in 1..r /\ 0 + 1 = 1
    BY <1>7
  <2>2. CASE Own(0, r)
    <3>1. Pending[1] = Pkt("out", req, Len(content) + 1)
      BY <2>1, <2>2 DEF Own
    <3>2. QED
      BY <3>1 DEF Pkt
  <2>3. CASE ReadsTorn(0, r)
    BY <2>1, <2>3 DEF ReadsTorn
  <2>4. QED
    BY <1>5, <2>2, <2>3 DEF ReadsOpen, ReadsWhole
<1>10. CASE r = 0
  <2>1. ~ReadsOpen(0, r)
    <3>1. ReadsOpen(0, r) => Len(Pending) = 0 + r
      BY DEF ReadsOpen
    <3>2. QED
      BY <1>2, <1>10, <3>1
  <2>2. CASE ReadsWhole(0, r)
    <3>1. /\ Answered /\ Decided(Len(content))
          /\ \A i \in 1..Len(content) : content[i] = Pkt("out", req, i)
          /\ Len(Pending) = 3 /\ Pending[1].k = "flush" /\ Pending[2].k = "ok" /\ Pending[3].k = "flush"
      <4>1. 0 + r + 3 = 3 /\ 0 + r + 1 = 1 /\ 0 + r + 2 = 2 /\ r + Len(content) = Len(content)
        BY <1>7, <1>10
      <4>2. QED
        BY <2>2, <4>1 DEF ReadsWhole, Own
    <3>2. Taken
      <4>1. Len(content) = AnsLen(req) => content = Answer(req)
        BY <1>7, <1>8, <3>1, SeqEqual
      <4>2. QED
        BY <3>1, <4>1 DEF Decided, Taken
    <3>3. content' = content /\ git' = "status2"
      BY <1>1, <1>2, <3>1
    <3>4. Len(Pending)' = 2 /\ Pending'[1] = Pending[2] /\ Pending'[2] = Pending[3] /\ 2 \in 1..2
      <4>1. Len(Pending)' = 2 /\ 1 \in 1..2 /\ 2 \in 1..2 /\ 1 + 1 = 2 /\ 2 + 1 = 3
        BY <1>2, <3>1
      <4>2. QED
        BY <1>2, <4>1
    <3>5. Closing'
      <4>1. Taken'
        BY <1>1, <1>8, <3>2, <3>3 DEF Taken
      <4>2. QED
        BY <1>1, <1>3, <1>6, <3>1, <3>3, <3>4, <4>1 DEF Closing
    <3>6. QED
      BY <1>3, <3>5 DEF Core, Phase
  <2>3. CASE ReadsTorn(0, r)
    <3>1. /\ Answered /\ verdict[req] = "torn"
          /\ Len(Pending) = 2 /\ Pending[1].k = "flush" /\ Pending[2].k = "flush"
      <4>1. 0 + r + 2 = 2 /\ 0 + r + 1 = 1
        BY <1>7, <1>10
      <4>2. QED
        BY <2>3, <4>1 DEF ReadsTorn
    <3>2. git' = "status2"
      BY <1>1, <1>2, <3>1
    <3>3. Len(Pending)' = 1 /\ Pending'[1] = Pending[2]
      <4>1. Len(Pending)' = 1 /\ 1 \in 1..1 /\ 1 + 1 = 2
        BY <1>2, <3>1
      <4>2. QED
        BY <1>2, <4>1
    <3>4. Closing'
      BY <1>1, <1>3, <1>6, <3>1, <3>2, <3>3 DEF Closing
    <3>5. QED
      BY <1>3, <3>4 DEF Core, Phase
  <2>4. QED
    BY <1>5, <2>1, <2>2, <2>3
<1>11. CASE r > 0
  <2>1. PICK s \in Nat : r = s + 1
    <3>1. r - 1 \in Nat /\ r = (r - 1) + 1
      BY <1>7, <1>11
    <3>2. QED
      BY <3>1
  <2>2. content' = Append(content, Pending[1]) /\ git' = "content"
    BY <1>1, <1>2, <1>9, <1>11
  <2>3. /\ Len(content)' = Len(content) + 1 /\ content'[Len(content) + 1] = Pending[1]
        /\ \A i \in 1..Len(content) : content'[i] = content[i]
    <3>1. Pending[1] \in AnyPacket
      BY <1>2, PendingType
    <3>2. QED
      BY <1>7, <2>2, <3>1
  <2>4. s + Len(content)' = r + Len(content)
    BY <1>7, <2>1, <2>3
  <2>5. Len(Pending) >= r
    <3>1. \/ Len(Pending) = 0 + r \/ Len(Pending) = 0 + r + 3 \/ Len(Pending) = 0 + r + 2
      BY <1>5 DEF ReadsOpen, ReadsWhole, ReadsTorn
    <3>2. QED
      BY <1>7, <3>1
  <2>6. s \in 0..Len(Pending)' /\ Len(Pending)' \in Nat
    BY <1>2, <2>1, <2>5
  <2>7. \A i \in 1..s : /\ 0 + i \in 1..Len(Pending)' /\ Pending'[0 + i] = Pending[0 + (i + 1)]
                        /\ i + 1 \in 1..r
                        /\ Len(content)' + i = Len(content) + (i + 1)
    <3> SUFFICES ASSUME NEW i \in 1..s
                 PROVE  /\ 0 + i \in 1..Len(Pending)' /\ Pending'[0 + i] = Pending[0 + (i + 1)]
                        /\ i + 1 \in 1..r
                        /\ Len(content)' + i = Len(content) + (i + 1)
      OBVIOUS
    <3>1. 0 + i = i /\ 0 + (i + 1) = i + 1 /\ i \in 1..Len(Pending)'
      BY <2>6
    <3>2. Pending'[i] = Pending[i + 1]
      BY <1>2, <3>1
    <3>3. i + 1 \in 1..r /\ Len(content)' + i = Len(content) + (i + 1)
      BY <1>7, <2>1, <2>3
    <3>4. QED
      BY <3>1, <3>2, <3>3
  <2>8. Own(0, r) => Own(0, s)'
    <3> SUFFICES ASSUME Own(0, r) PROVE Own(0, s)'
      OBVIOUS
    <3>1. Pending[1] = Pkt("out", req, Len(content) + 1)
      <4>1. 1 \in 1..r /\ 0 + 1 = 1
        BY <1>7, <1>11
      <4>2. QED
        BY <4>1 DEF Own
    <3>2. \A i \in 1..Len(content)' : content'[i] = Pkt("out", req, i)
      <4> SUFFICES ASSUME NEW i \in 1..Len(content)' PROVE content'[i] = Pkt("out", req, i)
        OBVIOUS
      <4>1. i \in 1..Len(content) \/ i = Len(content) + 1
        BY <1>7, <2>3
      <4>2. QED
        BY <2>3, <3>1, <4>1 DEF Own
    <3>3. \A i \in 1..s : Pending'[0 + i] = Pkt("out", req, Len(content)' + i)
      BY <2>7 DEF Own
    <3>4. QED
      BY <1>1, <3>2, <3>3 DEF Own
  <2>9. /\ Len(Pending) = 0 + r => Len(Pending)' = 0 + s
        /\ Len(Pending) = 0 + r + 3 => Len(Pending)' = 0 + s + 3
        /\ Len(Pending) = 0 + r + 2 => Len(Pending)' = 0 + s + 2
    BY <1>2, <2>1
  <2>10. ReadsOpen(0, r) => ReadsOpen(0, s)'
    BY <1>1, <1>3, <2>4, <2>8, <2>9 DEF ReadsOpen
  <2>11. /\ Len(Pending) > r => Pending'[0 + s + 1] = Pending[0 + r + 1]
         /\ Len(Pending) > r + 1 => Pending'[0 + s + 2] = Pending[0 + r + 2]
         /\ Len(Pending) > r + 2 => Pending'[0 + s + 3] = Pending[0 + r + 3]
    <3>1. /\ (0 + s + 1) + 1 = 0 + r + 1 /\ (0 + s + 2) + 1 = 0 + r + 2 /\ (0 + s + 3) + 1 = 0 + r + 3
          /\ Len(Pending) > r => 0 + s + 1 \in 1..Len(Pending)'
          /\ Len(Pending) > r + 1 => 0 + s + 2 \in 1..Len(Pending)'
          /\ Len(Pending) > r + 2 => 0 + s + 3 \in 1..Len(Pending)'
      BY <1>2, <2>1
    <3>2. QED
      BY <1>2, <3>1
  <2>12. /\ Len(Pending) = 0 + r + 3 => Len(Pending) > r /\ Len(Pending) > r + 1 /\ Len(Pending) > r + 2
         /\ Len(Pending) = 0 + r + 2 => Len(Pending) > r /\ Len(Pending) > r + 1
    BY <1>7
  <2>13. ReadsWhole(0, r) => ReadsWhole(0, s)'
    BY <1>1, <1>3, <1>8, <2>4, <2>8, <2>9, <2>11, <2>12 DEF ReadsWhole, Decided
  <2>14. ReadsTorn(0, r) => ReadsTorn(0, s)'
    BY <1>1, <1>3, <2>7, <2>9, <2>11, <2>12 DEF ReadsTorn
  <2>15. Opening(0)' /\ 0 \in 0..2
    BY <1>6, <2>2 DEF Opening
  <2>16. Answering'
    BY <1>5, <1>6, <2>6, <2>10, <2>13, <2>14, <2>15 DEF Answering
  <2>17. QED
    BY <1>3, <2>16 DEF Core, Phase
<1>12. QED
  BY <1>7, <1>10, <1>11

(* The flush that ends a status list. *)
LEMMA JudgeCore ==
    ASSUME Types, Types', Core, GitJudge
    PROVE  /\ Core'
           /\ status = "success" /\ git = "status2" =>
                /\ toF = <<>> /\ f = Idle
                /\ Taken \/ verdict[req] = "torn"
<1>1. git \in {"status1", "status2"} /\ toG # <<>> /\ Head(toG).k = "flush" /\ ~GitEnded
  BY DEF GitJudge, GitEnded
<1>2. Len(Pending) \in Nat /\ Pending[1].k = "flush" /\ Pending # <<>>
  <2>1. toG \in Seq(AnyPacket) /\ wr \in Seq(AnyPacket)
    BY DEF Types
  <2>2. Len(toG) \in Nat /\ Len(toG) > 0 /\ Head(toG) = toG[1] /\ Len(wr) \in Nat
    BY <1>1, <2>1
  <2>3. /\ Len(Pending) = Len(toG) + Len(wr)
        /\ \A i \in 1..Len(toG) : Pending[i] = toG[i]
    BY <2>1, Joined DEF Pending
  <2>4. Pending[1] = toG[1] /\ Len(Pending) > 0
    BY <2>2, <2>3
  <2>5. QED
    BY <1>1, <2>2, <2>4, PendingType
<1>3. ~Unanswered
  BY <1>2 DEF Unanswered
<1>4. CASE status = "success" /\ git = "status1"
  <2>1. /\ git' = "content" /\ GitReads
        /\ UNCHANGED <<conf, status, content, overrun>>
    BY <1>1, <1>4 DEF GitJudge, GitReads, filterVars
  <2>2. PICK h \in 0..2, r \in 0..Len(Pending) :
          Opening(h) /\ (ReadsOpen(h, r) \/ ReadsWhole(h, r) \/ ReadsTorn(h, r))
    BY <1>1, <1>3, <1>4 DEF Core, Phase, Poisoned, Erring, Answering, Closing
  <2>3. h = 1
    BY <1>4, <2>2 DEF Opening
  <2>4. 0 \in Nat /\ 0 + 1 = 1 /\ r \in Nat
    BY <1>2
  <2>5. (ReadsOpen(0, r)' \/ ReadsWhole(0, r)' \/ ReadsTorn(0, r)') /\ r \in 0..Len(Pending)'
    <3>1. ReadsOpen(0 + 1, r) \/ ReadsWhole(0 + 1, r) \/ ReadsTorn(0 + 1, r)
      BY <2>2, <2>3, <2>4
    <3>2. QED
      BY <2>1, <2>4, <3>1, ShiftReads DEF Core
  <2>6. Opening(0)' /\ 0 \in 0..2
    BY <1>4, <2>1 DEF Opening
  <2>7. ~overrun'
    BY <1>1, <1>3, <1>4, <2>1 DEF Core, Phase, Poisoned, Erring, Answering, Closing
  <2>8. Answering'
    BY <2>5, <2>6, <2>7 DEF Answering
  <2>9. Sync'
    BY <2>1, ReadsKeep DEF Core
  <2>10. QED
    BY <1>4, <2>8, <2>9 DEF Core, Phase
<1>5. CASE status = "success" /\ git = "status2"
  <2>1. /\ sent' = 0 /\ status' = "" /\ content' = <<>> /\ toG' = Tail(toG)
        /\ git' = (IF req = N THEN "done" ELSE "send")
        /\ req' = (IF req = N THEN req ELSE req + 1)
        /\ UNCHANGED <<conf, toF, fpc, f, wr, overrun>>
    BY <1>5 DEF GitJudge, filterVars
  <2>2. Closing
    BY <1>1, <1>3, <1>5 DEF Core, Phase, Poisoned, Erring, Answering, Opening
  <2>3. ~overrun /\ Answered
    BY <2>2 DEF Closing
  <2>4. Len(Pending) = 1
    <3>1. Len(Pending) = 2 => Pending[1].k = "ok" \/ verdict[req] = "torn"
      BY <2>2 DEF Closing
    <3>2. verdict[req] = "torn" => Len(Pending) = 1
      BY <2>2 DEF Closing, Taken
    <3>3. Len(Pending) \in 1..2
      BY <2>2 DEF Closing
    <3>4. QED
      BY <1>2, <3>1, <3>2, <3>3
  <2>5. Pending' = <<>>
    <3>1. Len(Pending)' = Len(Pending) - 1
      BY <1>1, <2>1, PendingRead
    <3>2. Len(Pending)' = 0
      BY <2>4, <3>1
    <3>3. Pending' \in Seq(AnyPacket)
      <4>1. toG' \in Seq(AnyPacket) /\ wr' \in Seq(AnyPacket)
        BY DEF Types
      <4>2. QED
        BY <4>1, Joined DEF Pending
    <3>4. QED
      BY <3>2, <3>3, EmptySeq
  <2>6. Reading'
    <3>1. toF' = <<>> /\ f' = Idle /\ fpc' \in {"start", "hdr", "write", "stopped"}
      BY <2>1, <2>3 DEF Answered
    <3>2. QED
      BY <2>1, <3>1, NextBegins
  <2>7. Sync'
    BY <2>1, <2>6 DEF Sync
  <2>8. GitEnded' \/ Unanswered'
    BY <2>1, <2>3, <2>5, <2>6 DEF GitEnded, Unanswered
  <2>9. QED
    BY <2>2, <2>3, <2>7, <2>8 DEF Closing, Answered, Core, Phase
<1>6. CASE status # "success"
  <2>1. GitFail(Tail(toG))
    BY <1>6 DEF GitJudge
  <2>2. CASE status # "error"
    BY <1>6, <2>1, <2>2, StopCore DEF Core
  <2>3. CASE status = "error"
    <3>1. /\ sent' = 0 /\ status' = "" /\ content' = <<>> /\ toG' = Tail(toG)
          /\ git' = (IF conf.required THEN "dead" ELSE IF req = N THEN "done" ELSE "send")
          /\ req' = (IF conf.required \/ req = N THEN req ELSE req + 1)
          /\ UNCHANGED <<conf, toF, fpc, f, wr, overrun>>
      BY <2>1, <2>3 DEF GitFail
    <3>2. Erring
      BY <1>1, <1>3, <2>3 DEF Core, Phase, Poisoned, Answering, Opening, Closing
    <3>3. Pending[2].k = "flush" /\ Len(Pending) > 1
      <4>1. ~(Pending[1].k = "err") /\ ~(Pending[1].k = "errtext")
        BY <1>2
      <4>2. QED
        BY <2>3, <3>2, <4>1 DEF Erring
    <3>4. CASE conf.required \/ req = N
      <4>1. git' \in {"done", "dead"} /\ req' = req
        BY <3>1, <3>4
      <4>2. QED
        BY <1>6, <3>1, <4>1, EndCore DEF Core
    <3>5. CASE ~(conf.required \/ req = N)
      <4>1. git' = "send"
        BY <3>1, <3>5
      <4>2. Poisoned'
        <5>1. /\ Len(Pending)' = Len(Pending) - 1
              /\ \A i \in 1..Len(Pending)' : Pending'[i] = Pending[i + 1]
          BY <1>1, <3>1, PendingRead
        <5>2. Len(Pending)' > 0 /\ 1 \in 1..Len(Pending)' /\ 1 + 1 = 2
          BY <1>2, <3>3, <5>1
        <5>3. Pending'[1] = Pending[2]
          BY <5>1, <5>2
        <5>4. QED
          BY <3>1, <3>2, <3>3, <4>1, <5>2, <5>3 DEF Poisoned, Erring
      <4>3. Sync'
        <5>1. CASE overrun \/ fpc = "exited"
          BY <3>1, <5>1 DEF Sync
        <5>2. CASE Answered
          <6>1. toF' = <<>> /\ f' = Idle /\ fpc' \in {"start", "hdr", "write", "stopped"}
            BY <3>1, <5>2 DEF Answered
          <6>2. Reading'
            BY <3>1, <6>1, NextBegins
          <6>3. QED
            BY <6>2 DEF Sync
        <5>3. QED
          BY <3>2, <5>1, <5>2 DEF Erring
      <4>4. QED
        BY <1>6, <4>2, <4>3 DEF Core, Phase
    <3>6. QED
      BY <3>4, <3>5
  <2>4. QED
    BY <2>2, <2>3
<1>7. QED
  BY <1>1, <1>4, <1>5, <1>6

(* Every step of git. *)
LEMMA GitCore ==
    ASSUME Types, Types', Places, Core, GitStep
    PROVE  Core'
BY SpawnCore, SendCore, BrokenCore, StatusCore, ContentCore, JudgeCore DEF GitStep

(* git decides a request only once, and never accepts another answer. *)
LEMMA GitDecides ==
    ASSUME Types, Types', Places, Core, Undecided, AcceptedOwn, GitStep
    PROVE  Undecided' /\ AcceptedOwn'
<1>0. UNCHANGED <<conf, verdict>>
  BY DEF GitStep, GitSpawn, GitSend, GitPipeBroken, GitFail, GitReadStatus, GitReadContent, GitJudge,
     filterVars
<1>1. /\ req \in Ids /\ req \in Nat /\ toF \in Seq(AnyPacket) /\ Idle.q \notin Ids
      /\ result \in [Ids -> {"none", "accepted", "failed"}]
      /\ accepted \in [Ids -> Seq(AnyPacket)] /\ Len(toF) \in Nat
      /\ \A q \in Ids : q \in Nat
  <2>1. /\ req \in Ids /\ toF \in Seq(AnyPacket)
        /\ result \in [Ids -> {"none", "accepted", "failed"}]
        /\ accepted \in [Ids -> Seq(AnyPacket)]
    BY DEF Types
  <2>2. QED
    BY <2>1, FilterAssumption DEF Idle, Ids
<1>2. \A q \in Ids : Answer(q)' = Answer(q)
  BY <1>0 DEF Answer
<1>3. UNCHANGED <<result, accepted>> => AcceptedOwn'
  BY <1>0, <1>2 DEF AcceptedOwn
<1>4. CASE /\ UNCHANGED <<req, result, accepted, toF, f>> /\ ~GitEnded /\ ~GitEnded'
  BY <1>3, <1>4 DEF Undecided
<1>5. CASE GitSend
  <2>1. /\ UNCHANGED <<req, result, accepted, f>> /\ ~GitEnded
        /\ toF' = Append(toF, Request(req)[sent + 1])
    BY <1>5 DEF GitSend, filterVars, GitEnded
  <2>2. PICK x \in AnyPacket : x = Request(req)[sent + 1] /\ (x.k = "hdr" => x.q = req)
    BY <1>5, SentPacket
  <2>3. /\ Len(toF)' = Len(toF) + 1 /\ toF'[Len(toF) + 1] = x
        /\ \A i \in 1..Len(toF) : toF'[i] = toF[i]
    <3>1. toF' = Append(toF, x)
      BY <2>1, <2>2
    <3>2. QED
      BY <1>1, <3>1
  <2>4. result[req] = "none"
    BY <1>1, <2>1 DEF Undecided
  <2>5. \A i \in 1..Len(toF)' :
          (toF'[i].k = "hdr" => toF'[i].q \in Ids /\ result[toF'[i].q] # "accepted")
    <3> SUFFICES ASSUME NEW i \in 1..Len(toF)', toF'[i].k = "hdr"
                 PROVE  toF'[i].q \in Ids /\ result[toF'[i].q] # "accepted"
      OBVIOUS
    <3>1. i \in 1..Len(toF) \/ i = Len(toF) + 1
      BY <1>1, <2>3
    <3>2. CASE i \in 1..Len(toF)
      BY <2>3, <3>2 DEF Undecided
    <3>3. CASE i = Len(toF) + 1
      BY <1>1, <2>2, <2>3, <2>4, <3>3
    <3>4. QED
      BY <3>1, <3>2, <3>3
  <2>6. Undecided'
    BY <2>1, <2>5 DEF Undecided
  <2>7. QED
    BY <1>3, <2>1, <2>6
<1>6. ASSUME NEW v \in {"failed", "accepted"}, ~GitEnded, result' = [result EXCEPT ![req] = v],
             ~GitEnded' => req' = req + 1,
             toF' = <<>> \/ (toF' = toF /\ v = "failed"),
             f' = Idle \/ (f' = f /\ v = "failed")
      PROVE  Undecided'
  <2>1. \A q \in Ids : q # req => result'[q] = result[q]
    BY <1>1, <1>6
  <2>2. ~GitEnded' => \A q \in Ids : q >= req' => result'[q] = "none"
    <3> SUFFICES ASSUME ~GitEnded', NEW q \in Ids, q >= req' PROVE result'[q] = "none"
      OBVIOUS
    <3>1. q # req /\ q >= req
      BY <1>1, <1>6
    <3>2. QED
      BY <1>6, <2>1, <3>1 DEF Undecided
  <2>3. v = "failed" => \A q \in Ids : result[q] # "accepted" => result'[q] # "accepted"
    BY <1>1, <1>6, <2>1
  <2>4. \A i \in 1..Len(toF)' :
          (toF'[i].k = "hdr" => toF'[i].q \in Ids /\ result'[toF'[i].q] # "accepted")
    <3>1. CASE toF' = <<>>
      <4>1. 1..Len(toF') = {}
        BY <3>1
      <4>2. QED
        BY <4>1
    <3>2. CASE toF' = toF /\ v = "failed"
      BY <2>3, <3>2 DEF Undecided
    <3>3. QED
      BY <1>6, <3>1, <3>2
  <2>5. f'.q \in Ids => result'[f'.q] # "accepted"
    BY <1>1, <1>6, <2>3 DEF Undecided
  <2>6. QED
    BY <2>2, <2>4, <2>5 DEF Undecided
<1>7. ASSUME NEW rest, GitFail(rest), ~GitEnded
      PROVE  Undecided' /\ AcceptedOwn'
  <2>1. /\ result' = [result EXCEPT ![req] = "failed"] /\ accepted' = accepted
        /\ ~GitEnded' => req' = req + 1
    BY <1>7 DEF GitFail, GitEnded
  <2>2. (toF' = <<>> \/ toF' = toF) /\ (f' = Idle \/ f' = f)
    BY <1>7 DEF GitFail
  <2>3. Undecided'
    BY <1>6, <1>7, <2>1, <2>2
  <2>4. \A q \in Ids : result'[q] = "accepted" => result[q] = "accepted"
    BY <1>1, <2>1
  <2>5. AcceptedOwn'
    BY <1>0, <1>2, <2>1, <2>4 DEF AcceptedOwn
  <2>6. QED
    BY <2>3, <2>5
<1>8. CASE GitJudge
  <2>1. ~GitEnded
    BY <1>8 DEF GitJudge, GitEnded
  <2>2. CASE status = "success" /\ git = "status1"
    BY <1>4, <1>8, <2>2 DEF GitJudge, filterVars, GitEnded
  <2>3. CASE status = "success" /\ git = "status2"
    <3>1. /\ result' = [result EXCEPT ![req] = "accepted"]
          /\ accepted' = [accepted EXCEPT ![req] = content]
          /\ ~GitEnded' => req' = req + 1
          /\ UNCHANGED <<toF, f>>
      BY <1>8, <2>3 DEF GitJudge, filterVars, GitEnded
    <3>2. /\ toF = <<>> /\ f = Idle
          /\ Taken \/ verdict[req] = "torn"
      BY <1>8, <2>3, JudgeCore
    <3>3. Undecided'
      BY <1>6, <2>1, <3>1, <3>2
    <3>4. AcceptedOwn'
      <4> SUFFICES ASSUME NEW q \in Ids, result'[q] = "accepted"
                   PROVE  \/ verdict'[q] = "ok" /\ accepted'[q] = Answer(q)'
                          \/ verdict'[q] = "torn"
                          \/ /\ verdict'[q] = "long" /\ ~conf'.local
                             /\ Len(accepted'[q]) > Len(Answer(q)')
                             /\ \A i \in 1..Len(Answer(q)') : accepted'[q][i] = Answer(q)'[i]
        BY DEF AcceptedOwn
      <4>0. UNCHANGED <<verdict, conf>>
        BY <1>8, <2>3 DEF GitJudge, filterVars
      <4>1. CASE q = req
        <5>1. accepted'[q] = content
          BY <1>1, <3>1, <4>1
        <5>2. CASE verdict[req] = "torn" \/ (verdict[req] = "ok" /\ content = Answer(req))
          BY <1>2, <4>0, <4>1, <5>1, <5>2
        <5>3. CASE /\ verdict[req] = "long" /\ ~conf.local /\ Len(content) > AnsLen(req)
                   /\ \A i \in 1..Len(content) : content[i] = Pkt("out", req, i)
          <6>1. /\ AnsLen(req) \in Nat /\ Len(Answer(req)) = AnsLen(req)
                /\ \A i \in 1..AnsLen(req) : Answer(req)[i] = Pkt("out", req, i)
            BY <4>1, AnswerFacts
          <6>2. Len(content) \in Nat
            <7>1. content \in Seq(AnyPacket)
              BY DEF Types
            <7>2. QED
              BY <7>1
          <6>3. \A i \in 1..AnsLen(req) : content[i] = Answer(req)[i]
            BY <5>3, <6>1, <6>2
          <6>4. Answer(q)' = Answer(req)
            BY <1>2, <4>1
          <6>5. QED
            BY <4>0, <4>1, <5>1, <5>3, <6>1, <6>3, <6>4
        <5>4. QED
          BY <3>2, <5>2, <5>3 DEF Taken
      <4>2. CASE q # req
        <5>1. result[q] = "accepted" /\ accepted'[q] = accepted[q]
          BY <1>1, <3>1, <4>2
        <5>2. QED
          BY <1>0, <1>2, <5>1 DEF AcceptedOwn
      <4>3. QED
        BY <4>1, <4>2
    <3>5. QED
      BY <3>3, <3>4
  <2>4. CASE status # "success"
    BY <1>7, <1>8, <2>1, <2>4 DEF GitJudge
  <2>5. QED
    BY <1>8, <2>2, <2>3, <2>4 DEF GitJudge
<1>9. CASE GitPipeBroken
  <2>1. ~GitEnded /\ GitFail(toG)
    BY <1>9 DEF GitPipeBroken, GitEnded
  <2>2. QED
    BY <1>7, <2>1
<1>10. CASE GitSpawn \/ GitReadStatus \/ GitReadContent
  <2>1. UNCHANGED <<req, result, accepted, toF, f>> /\ ~GitEnded /\ ~GitEnded'
    BY <1>10 DEF GitSpawn, GitReadStatus, GitReadContent, filterVars, gitVars, GitEnded
  <2>2. QED
    BY <1>4, <2>1
<1>11. QED
  BY <1>5, <1>8, <1>9, <1>10 DEF GitStep

-----------------------------------------------------------------------------
(* The theorems. *)

LEMMA InitWire == ASSUME Init PROVE WireInv
<1>1. /\ git = "send" /\ req = 1 /\ sent = 0 /\ status = "" /\ content = <<>>
      /\ toF = <<>> /\ toG = <<>> /\ wr = <<>> /\ fpc = "start" /\ f = Idle /\ overrun = FALSE
      /\ result = [q \in Ids |-> "none"]
  BY DEF Init
<1>2. Types /\ Places
  BY InitTypes, InitPlaces
<1>3. ReqLen(req) \in Nat
  <2>1. req \in Ids
    BY <1>2 DEF Types
  <2>2. QED
    BY <1>2, <2>1, RequestFacts
<1>4. At(0)
  <2>1. Len(toF) = 0 /\ 1..0 = {} /\ 0 + 0 <= ReqLen(req) /\ 0 + 0 = sent
    <3>1. Len(toF) = 0
      BY <1>1
    <3>2. 1..0 = {} /\ 0 + 0 <= ReqLen(req) /\ 0 + 0 = 0
      BY <1>3
    <3>3. QED
      BY <1>1, <3>1, <3>2
  <2>2. QED
    BY <2>1 DEF At
<1>5. Reading
  BY <1>1, <1>4 DEF Reading, Begins
<1>6. Pending = <<>>
  BY <1>1, <1>2, PendingType
<1>7. Sync /\ Phase
  BY <1>1, <1>5, <1>6 DEF Sync, Phase, Unanswered
<1>8. Undecided
  <2>1. Len(toF) = 0 /\ 1..0 = {} /\ f.q \notin Ids
    <3>1. Len(toF) = 0
      BY <1>1
    <3>2. 1..0 = {} /\ Idle.q \notin Ids
      BY FilterAssumption DEF Idle, Ids
    <3>3. QED
      BY <1>1, <3>1, <3>2
  <2>2. QED
    BY <1>1, <2>1 DEF Undecided
<1>9. AcceptedOwn
  BY <1>1 DEF AcceptedOwn
<1>10. QED
  BY <1>2, <1>7, <1>8, <1>9 DEF WireInv

LEMMA NextWire == ASSUME WireInv, [Next]_vars PROVE WireInv'
<1>1. Types /\ Places /\ Undecided /\ Core /\ AcceptedOwn
  BY DEF WireInv, Core
<1>2. Types' /\ Places'
  BY <1>1, NextTypes, NextPlaces
<1>3. CASE GitStep
  BY <1>1, <1>2, <1>3, GitCore, GitDecides DEF WireInv, Core
<1>4. CASE FilterStep \/ Network
  BY <1>1, <1>2, <1>4, FilterCore, FilterUndecided, FilterAccepted DEF WireInv, Core
<1>5. CASE UNCHANGED vars
  <2>1. /\ UNCHANGED <<conf, git, req, sent, status, content, result, accepted, toF, toG, fpc, f, wr>>
        /\ UNCHANGED <<tmp, verdict, overrun>>
    BY <1>5 DEF vars, gitVars, filterVars
  <2>2. /\ FilterFrame /\ Pending' = Pending
        /\ \A q \in Ids : Answer(q)' = Answer(q) /\ AnsLen(q)' = AnsLen(q)
    BY <2>1 DEF FilterFrame, Pending, Answer, AnsLen
  <2>3. Sync' /\ (Reading => Reading') /\ (Answered => Answered') /\ (Finishing => Finishing')
    BY <1>1, <2>1, <2>2, SyncStays DEF Core
  <2>4. req \in Ids
    BY <1>1 DEF Types
  <2>5. Answering => Answering'
    <3> SUFFICES ASSUME Answering PROVE Answering'
      OBVIOUS
    <3>1. PICK h \in 0..2, r \in 0..Len(Pending) :
            Opening(h) /\ (ReadsOpen(h, r) \/ ReadsWhole(h, r) \/ ReadsTorn(h, r))
      BY DEF Answering
    <3>2. Opening(h)' /\ (Own(h, r) => Own(h, r)')
      BY <2>1, <2>2, <3>1 DEF Opening, Own
    <3>3. ReadsOpen(h, r)' \/ ReadsWhole(h, r)' \/ ReadsTorn(h, r)'
      BY <2>1, <2>2, <2>3, <2>4, <3>1, <3>2 DEF ReadsOpen, ReadsWhole, ReadsTorn, Decided
    <3>4. ~overrun' /\ r \in 0..Len(Pending)'
      BY <2>1, <2>2 DEF Answering
    <3>5. QED
      BY <3>2, <3>3, <3>4 DEF Answering
  <2>6. Erring => Erring'
    BY <2>1, <2>2, <2>3 DEF Erring
  <2>7. Closing => Closing'
    BY <2>1, <2>2, <2>3, <2>4 DEF Closing, Taken
  <2>8. (GitEnded => GitEnded') /\ (Unanswered => Unanswered') /\ (Poisoned => Poisoned')
    BY <2>1, <2>2, <2>3 DEF GitEnded, Unanswered, Poisoned
  <2>9. Phase'
    BY <1>1, <2>5, <2>6, <2>7, <2>8 DEF Core, Phase
  <2>10. Undecided' /\ AcceptedOwn'
    BY <1>1, <2>1, <2>2 DEF Undecided, AcceptedOwn, GitEnded
  <2>11. QED
    BY <1>2, <2>3, <2>9, <2>10 DEF WireInv
<1>6. QED
  BY <1>3, <1>4, <1>5 DEF Next, Ended

(* For every number of requests and every pipe size, what git takes for a  *)
(* request is the whole answer that the filter made for that request       *)
(* (do_clean, finish_smudge), whatever errors were reported before it and  *)
(* however many filter processes were stopped.  The exceptions are a       *)
(* smudge whose temporary file could not be read to its end and, in server *)
(* mode, a staged file written over a longer miss of the hot path, which   *)
(* goes out whole but with that tail.                                      *)
THEOREM AcceptedAnswers == Spec => []AcceptedOwn
<1>1. WireInv => AcceptedOwn
  BY DEF WireInv
<1>2. QED
  BY <1>1, InitWire, NextWire, PTL DEF Spec

(* Unless a payload was given up half-read, the filter looks for a request *)
(* only where one begins: the loop of run and report_request_error never   *)
(* leave a packet of an old request in the pipe.                           *)
THEOREM StreamsInStep == Spec => []InSync
<1>1. WireInv => InSync
  <2> SUFFICES ASSUME WireInv, fpc = "hdr", f.lines = 0, toF # <<>>, ~overrun
               PROVE  Head(toF).k = "hdr"
    BY DEF InSync
  <2>1. Types
    BY DEF WireInv
  <2>2. toF \in Seq(AnyPacket) /\ req \in Ids
    BY <2>1 DEF Types
  <2>3. At(0)
    BY DEF WireInv, Sync, Reading, Begins, InHeader, InPayload, AtWork, Finishing, Answered
  <2>4. 0 \in Nat /\ 0 + 1 = 1 /\ Incoming
    BY DEF Incoming
  <2>5. Head(toF) = Request(req)[1]
    BY <2>1, <2>3, <2>4, AtFacts
  <2>6. Request(req)[1] = Pkt("hdr", req, 0)
    BY <2>1, <2>2, RequestFacts
  <2>7. QED
    BY <2>5, <2>6 DEF Pkt
<1>2. QED
  BY <1>1, InitWire, NextWire, PTL DEF Spec
=============================================================================

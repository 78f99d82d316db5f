--------------------------- MODULE FilterProcess ---------------------------
(***************************************************************************)
(* The long-running filter `git-bale filter-process` and the git process   *)
(* it serves, joined by two bounded pipes of pkt-lines.                    *)
(*                                                                         *)
(* The filter side is translated from filter_process.rs and pktline.rs:    *)
(* how a request is read packet by packet, where reading gives up, what is *)
(* written back when it succeeds, fails, or fails with half of the answer  *)
(* already written, the four places a smudge takes its bytes from and the  *)
(* watchdog over the last of them.  What a clean does to the store is the  *)
(* subject of CleanFilter; here it succeeds or fails.                      *)
(*                                                                         *)
(* The git side is external.  It is modelled from the protocol the filter  *)
(* speaks: it writes a whole request before it reads, reads a status list, *)
(* content up to a flush and a second status list in which an absent       *)
(* status keeps the first one, and stops a filter that answers with        *)
(* neither success nor error.                                              *)
(***************************************************************************)
EXTENDS Naturals, Sequences

CONSTANTS
    N,          \* requests of one git command
    MaxPay,     \* the longest payload, in packets
    PayloadCap, \* CLEAN_, SMUDGE_ and DRAIN_PAYLOAD_CAP, in packets
    PipeCap,    \* packets the pipe to the filter holds
    ReplyCap,   \* packets the pipe to git holds: status lines are short, so an
                \* error reply fits even when git does not read
    FileLen,    \* packets of a smudged file
    Surplus,    \* packets by which a manifest may describe more than the file
    Stall       \* BALE_DOWNLOAD_STALL_SECS, in polls of STALL_POLL

ASSUME FilterAssumption ==
    /\ N \in Nat \ {0} /\ MaxPay \in Nat \ {0} /\ PayloadCap \in Nat
    /\ PipeCap \in Nat \ {0} /\ ReplyCap \in Nat /\ ReplyCap > 4
    /\ FileLen \in Nat \ {0} /\ Surplus \in Nat /\ Stall \in Nat

VARIABLES
    conf,       \* the command: its requests, `required`, local mode, stall limit
    git,        \* what git is doing: send, status1, content, status2, done, dead
    req,        \* the request git is at
    sent,       \* packets of it written so far
    status,     \* the status git read for it, "" when none yet
    content,    \* the content git read for it
    result,     \* per request: none, accepted or failed
    accepted,   \* per request: the content git took
    toF, toG,   \* the pipes
    fpc,        \* what the filter is doing
    f,          \* its request: [q: id, 0 if unknown; lines; got: payload packets]
    wr,         \* packets it is about to write
    tmp,        \* packets in the temporary file of a smudge
    slot,       \* rt_slot and smudge_cfg: none, runtime (started), config (resolved)
    manifest,   \* the manifest of the file is cached
    dl,         \* the download: bytes seen, idle polls, polls without a byte
    verdict,    \* per request: how the filter decided: none, ok, long, err, torn
    overrun     \* a payload was given up half-read by this process

gitVars    == <<git, req, sent, status, content, result, accepted>>
filterVars == <<fpc, f, wr, tmp, slot, manifest, dl, verdict, overrun>>
vars       == <<conf, gitVars, toF, toG, filterVars>>

Ids == 1..N

(***************************************************************************)
(* Packets.                                                                *)
(***************************************************************************)
Pkt(k, q, i) == [k |-> k, q |-> q, i |-> i]
Flush        == Pkt("flush", 0, 0)

Kinds   == {"hdr", "pay", "flush", "ok", "err", "errtext", "out"}
Packets == [k: Kinds, q: 0..N, i: 0..(MaxPay + FileLen + Surplus)]

\* A request as git writes it: the header list and the payload, each with its flush.
Request(q) ==
    <<Pkt("hdr", q, 0), Flush>>
        \o [i \in 1..conf.plan[q].size |-> Pkt("pay", q, i)] \o <<Flush>>

\* Mutant: the error reply without the flush that follows the list.
ErrorReplyOneFlush(q) == <<Pkt("err", q, 0), Pkt("errtext", q, 0), Flush>>

\* What report_request_error writes: write_text_list ends with a flush, and another follows.
ErrorReply(q) == <<Pkt("err", q, 0), Pkt("errtext", q, 0), Flush, Flush>>

StatusList(q) == <<Pkt("ok", q, 0), Flush>>

\* The packets of the answer to q: the pointer, or the file.
Answer(q) ==
    [i \in 1..(IF conf.plan[q].cmd = "clean" THEN 1 ELSE FileLen) |-> Pkt("out", q, i)]

Idle   == [q |-> 0, lines |-> 0, got |-> 0]
NoDl   == [seen |-> 0, idle |-> 0, silent |-> 0]
Plans  == [cmd: {"clean", "smudge"}, size: 1..MaxPay, text: BOOLEAN]

Init ==
    /\ conf \in [plan: [Ids -> Plans], required: BOOLEAN, local: BOOLEAN, stall: {0, Stall}]
    /\ git = "send" /\ req = 1 /\ sent = 0 /\ status = "" /\ content = <<>>
    /\ result = [q \in Ids |-> "none"] /\ accepted = [q \in Ids |-> <<>>]
    /\ toF = <<>> /\ toG = <<>>
    /\ fpc = "start" /\ f = Idle /\ wr = <<>> /\ tmp = 0
    /\ slot = "none" /\ manifest \in BOOLEAN /\ dl = NoDl
    /\ verdict = [q \in Ids |-> "none"] /\ overrun = FALSE

(***************************************************************************)
(* git (external).                                                         *)
(***************************************************************************)
GitEnded == git \in {"done", "dead"}

\* The request failed.  A required filter ends the command; otherwise git goes
\* on, and stops the filter process unless the status was a plain error.
GitFail(rest) ==
    /\ result' = [result EXCEPT ![req] = "failed"]
    /\ sent' = 0 /\ status' = "" /\ content' = <<>>
    /\ git' = IF conf.required THEN "dead" ELSE IF req = N THEN "done" ELSE "send"
    /\ req' = IF conf.required \/ req = N THEN req ELSE req + 1
    /\ UNCHANGED <<conf, accepted, manifest, verdict>>
    /\ IF conf.required \/ status = "error"
         THEN toG' = rest /\ UNCHANGED <<toF, fpc, f, wr, tmp, slot, dl, overrun>>
         ELSE /\ toF' = <<>> /\ toG' = <<>>
              /\ fpc' = "stopped" /\ f' = Idle /\ wr' = <<>> /\ tmp' = 0
              /\ slot' = "none" /\ dl' = NoDl /\ overrun' = FALSE

\* The first request after that starts a new process.
GitSpawn ==
    /\ git = "send" /\ fpc = "stopped"
    /\ fpc' = "start"
    /\ UNCHANGED <<conf, gitVars, toF, toG, f, wr, tmp, slot, manifest, dl, verdict, overrun>>

\* Write the next packet of the request; read once all of it is written.
GitSend ==
    /\ git = "send" /\ fpc \notin {"exited", "stopped"} /\ Len(toF) < PipeCap
    /\ toF' = Append(toF, Request(req)[sent + 1])
    /\ sent' = sent + 1
    /\ git' = IF sent + 1 = Len(Request(req)) THEN "status1" ELSE "send"
    /\ UNCHANGED <<conf, req, status, content, result, accepted, toG, filterVars>>

\* The filter is gone: the write fails, or the read meets the end of the pipe.
GitPipeBroken ==
    /\ fpc = "exited"
    /\ git = "send" \/ (git \in {"status1", "content", "status2"} /\ toG = <<>>)
    /\ GitFail(toG)

GitReadStatus ==
    /\ git \in {"status1", "status2"} /\ toG # <<>> /\ Head(toG).k # "flush"
    /\ toG' = Tail(toG)
    /\ status' = CASE Head(toG).k = "ok"  -> "success"
                   [] Head(toG).k = "err" -> "error"
                   [] OTHER               -> status
    /\ UNCHANGED <<conf, git, req, sent, content, result, accepted, toF, filterVars>>

GitReadContent ==
    /\ git = "content" /\ toG # <<>>
    /\ toG' = Tail(toG)
    /\ IF Head(toG).k = "flush"
         THEN git' = "status2" /\ UNCHANGED content
         ELSE content' = Append(content, Head(toG)) /\ UNCHANGED git
    /\ UNCHANGED <<conf, req, sent, status, result, accepted, toF, filterVars>>

\* The flush that ends a status list.
GitJudge ==
    /\ git \in {"status1", "status2"} /\ toG # <<>> /\ Head(toG).k = "flush"
    /\ \/ /\ status = "success" /\ git = "status1"
          /\ git' = "content" /\ toG' = Tail(toG)
          /\ UNCHANGED <<conf, req, sent, status, content, result, accepted, toF, filterVars>>
       \/ /\ status = "success" /\ git = "status2"
          /\ result' = [result EXCEPT ![req] = "accepted"]
          /\ accepted' = [accepted EXCEPT ![req] = content]
          /\ git' = IF req = N THEN "done" ELSE "send"
          /\ req' = IF req = N THEN req ELSE req + 1
          /\ sent' = 0 /\ status' = "" /\ content' = <<>> /\ toG' = Tail(toG)
          /\ UNCHANGED <<conf, toF, filterVars>>
       \/ status # "success" /\ GitFail(Tail(toG))

GitStep == GitSpawn \/ GitSend \/ GitPipeBroken \/ GitReadStatus \/ GitReadContent \/ GitJudge

(***************************************************************************)
(* The filter: reading a request.                                          *)
(***************************************************************************)
Incoming  == toF # <<>>
EndOfFile == toF = <<>> /\ GitEnded

FilterExit ==
    /\ fpc' = "exited" /\ f' = Idle /\ wr' = <<>> /\ dl' = NoDl
    /\ UNCHANGED <<conf, gitVars, toF, toG, tmp, slot, manifest, verdict, overrun>>

Consume == toF' = Tail(toF)

\* run up to the loop: the configuration is loaded, then the handshake and the
\* capabilities are exchanged.
FilterStart ==
    /\ fpc = "start"
    /\ \/ /\ fpc' = "hdr"
          /\ UNCHANGED <<conf, gitVars, toF, toG, f, wr, tmp, slot, manifest, dl, verdict, overrun>>
       \/ FilterExit

\* read_text_list: lines until a flush.  The first line that names a command
\* decides; a line that is not text ends the process.
ReadHeaderLine ==
    /\ fpc = "hdr" /\ Incoming /\ Head(toF).k # "flush"
    /\ \/ Head(toF).k = "hdr"
       \/ conf.plan[Head(toF).q].text
    /\ Consume
    /\ f' = [f EXCEPT !.lines = 1,
                      !.q = IF f.q = 0 /\ Head(toF).k = "hdr" THEN Head(toF).q ELSE f.q]
    /\ UNCHANGED <<conf, gitVars, toG, fpc, wr, tmp, slot, manifest, dl, verdict, overrun>>

ReadHeaderGarbage ==
    /\ fpc = "hdr" /\ Incoming /\ Head(toF).k = "pay" /\ ~conf.plan[Head(toF).q].text
    /\ FilterExit

\* report_request_error, after which the loop reads the next request.
Report(v) ==
    /\ fpc' = "write" /\ f' = Idle /\ wr' = ErrorReply(f.q) /\ dl' = NoDl
    /\ verdict' = IF f.q = 0 THEN verdict ELSE [verdict EXCEPT ![f.q] = v]

\* Mutant: a request refused as soon as its header is known, its payload still to come.
ReadHeaderEndRefuses ==
    /\ fpc = "hdr" /\ Incoming /\ Head(toF).k = "flush"
    /\ Consume
    /\ \/ f.lines # 0 /\ Report("err")
       \/ f.lines = 0 /\ fpc' = "exited" /\ UNCHANGED <<f, wr, dl, verdict>>
    /\ UNCHANGED <<conf, gitVars, toG, tmp, slot, manifest, overrun>>

\* The flush: an empty list ends the process, an unknown command is drained.
ReadHeaderEnd ==
    /\ fpc = "hdr" /\ Incoming /\ Head(toF).k = "flush"
    /\ Consume
    /\ fpc' = CASE f.lines = 0 -> "exited"
                [] f.lines = 1 /\ f.q = 0 -> "drain"
                [] f.lines = 1 /\ f.q # 0 /\ conf.plan[f.q].cmd = "smudge" -> "runtime"
                [] OTHER -> "payload"
    /\ f' = [f EXCEPT !.lines = 0]
    /\ UNCHANGED <<conf, gitVars, toG, wr, tmp, slot, manifest, dl, verdict, overrun>>

\* ensure_runtime before the first smudge: a failure ends the process.
EnsureRuntime ==
    /\ fpc = "runtime"
    /\ \/ /\ fpc' = "payload"
          /\ slot' = IF slot = "none" THEN "runtime" ELSE slot
          /\ UNCHANGED <<conf, gitVars, toF, toG, f, wr, tmp, manifest, dl, verdict, overrun>>
       \/ slot = "none" /\ FilterExit

HeaderEof == fpc = "hdr" /\ EndOfFile /\ FilterExit

\* drain_clean_payload, read_binary_to: data packets until a flush, up to the cap.
ReadPayload ==
    /\ fpc \in {"payload", "drain"} /\ Incoming /\ Head(toF).k # "flush"
    /\ fpc = "payload" => f.got + 1 <= PayloadCap
    /\ Consume
    /\ f' = [f EXCEPT !.got = @ + 1]
    /\ UNCHANGED <<conf, gitVars, toG, fpc, wr, tmp, slot, manifest, dl, verdict, overrun>>

\* Over the cap, or the spill file of a clean cannot be written: the packet is
\* consumed, the rest of the payload is left in the pipe, and the loop goes
\* back to reading headers.  (What a drain reads is the header list of the next
\* request, which is never over DRAIN_PAYLOAD_CAP.)
PayloadGivenUp ==
    /\ fpc = "payload" /\ Incoming /\ Head(toF).k # "flush"
    /\ f.got + 1 > PayloadCap \/ conf.plan[f.q].cmd = "clean"
    /\ Consume /\ Report("err") /\ overrun' = TRUE
    /\ UNCHANGED <<conf, gitVars, toG, tmp, slot, manifest>>

\* The payload is complete: work on it, or refuse the unknown command.
ReadPayloadEnd ==
    /\ fpc \in {"payload", "drain"} /\ Incoming /\ Head(toF).k = "flush"
    /\ Consume
    /\ IF fpc = "payload"
         THEN /\ fpc' = IF conf.plan[f.q].cmd = "clean" THEN "clean" ELSE "parse"
              /\ UNCHANGED <<f, wr, dl, verdict>>
         ELSE Report("err")
    /\ UNCHANGED <<conf, gitVars, toG, tmp, slot, manifest, overrun>>

\* The end of the pipe inside a request is an error whose report cannot be written.
PayloadEof == fpc \in {"payload", "drain"} /\ EndOfFile /\ FilterExit

(***************************************************************************)
(* The filter: doing the work.                                             *)
(***************************************************************************)
Quiet == UNCHANGED <<conf, gitVars, toF, toG, overrun>>

\* do_clean after its payload: the pointer between two status lists, or an error.
Clean ==
    /\ fpc = "clean" /\ Quiet /\ UNCHANGED <<tmp, manifest>>
    /\ slot' \in IF slot = "none" THEN {"none", "runtime"} ELSE {slot}
    /\ \/ /\ wr' = StatusList(f.q) \o Answer(f.q) \o <<Flush>> \o StatusList(f.q)
          /\ verdict' = [verdict EXCEPT ![f.q] = "ok"]
          /\ fpc' = "write" /\ f' = Idle /\ UNCHANGED dl
       \/ Report("err")

\* finish_smudge begins: the first status list, then the temporary file.
BeginFinish ==
    /\ fpc' = "finish" /\ wr' = StatusList(f.q) /\ f' = [f EXCEPT !.got = 0]
    /\ dl' = NoDl

\* parse_pointer, is_safe_file_id, opening the chunk cache and the temporary file.
SmudgeParse ==
    /\ fpc = "parse" /\ Quiet /\ tmp' = 0 /\ UNCHANGED <<slot, manifest>>
    /\ \/ fpc' = "hot" /\ UNCHANGED <<f, wr, dl, verdict>>
       \/ Report("err")

\* The hot path: with a cached manifest, the chunks the cache still holds are
\* written in order until one is missing.  It is a hit only when exactly the
\* file's size was written; a miss leaves what it wrote, which is more than the
\* file when the manifest describes more.  A malformed manifest is an error.
SmudgeHot ==
    /\ fpc = "hot" /\ Quiet /\ UNCHANGED <<slot, manifest>>
    /\ \/ /\ \/ ~manifest /\ UNCHANGED tmp
             \/ manifest /\ tmp' \in 0..(FileLen + Surplus)
          /\ fpc' = "store" /\ UNCHANGED <<f, wr, dl, verdict>>
       \/ manifest /\ tmp' = FileLen /\ BeginFinish /\ UNCHANGED verdict
       \/ manifest /\ UNCHANGED tmp /\ Report("err")

\* Mutant: a short reconstruction passes.
SmudgeLocalNoLengthCheck ==
    /\ fpc = "store" /\ conf.local /\ Quiet /\ UNCHANGED <<slot, manifest>>
    /\ \E n \in 0..FileLen :
          /\ tmp' = n
          /\ \/ BeginFinish /\ UNCHANGED verdict
             \/ Report("err")

\* The local mode: the durable store or nothing.  Partial bytes of the hot path
\* are discarded, and a short reconstruction is an error.
SmudgeLocal ==
    /\ fpc = "store" /\ conf.local /\ Quiet /\ UNCHANGED <<slot, manifest>>
    /\ \E n \in 0..FileLen :
          /\ tmp' = n
          /\ IF n = FileLen THEN BeginFinish /\ UNCHANGED verdict ELSE Report("err")

\* n packets written from the start over those of the file already there.
Overwritten(n) == IF n > tmp THEN n ELSE tmp

\* The lukewarm path: a staged file is rebuilt from the staging area over the
\* bytes already there, which are neither discarded nor counted; without a
\* marker, or on an error, the server is next.  (download_to_writer, external,
\* writes the range it is asked for or fails.)
SmudgeStaged ==
    /\ fpc = "store" /\ ~conf.local /\ Quiet /\ UNCHANGED <<slot, manifest>>
    /\ \/ tmp' = Overwritten(FileLen) /\ BeginFinish /\ UNCHANGED verdict
       \/ /\ \E n \in 0..FileLen : tmp' = Overwritten(n)
          /\ fpc' = "cold" /\ UNCHANGED <<f, wr, dl, verdict>>

\* The cold path begins: discard partial bytes, resolve_cached, open a session.
\* No watchdog runs yet, and what is resolved may be on another machine.
SmudgeCold ==
    /\ fpc = "cold" /\ Quiet /\ tmp' = 0 /\ UNCHANGED manifest
    /\ \/ /\ slot' = "config"
          /\ \/ fpc' = "download" /\ dl' = NoDl /\ UNCHANGED <<f, wr, verdict>>
             \/ Report("err")
       \/ slot # "config" /\ UNCHANGED slot /\ Report("err")

\* The network delivers another packet (external).
DownloadBytes ==
    /\ fpc = "download" /\ tmp < FileLen /\ Quiet
    /\ tmp' = tmp + 1 /\ dl' = [dl EXCEPT !.silent = 0]
    /\ UNCHANGED <<fpc, f, wr, slot, manifest, verdict>>

\* The download returns.  Its count is not looked at: that it is the file's is
\* left to download_to_writer, which verifies what it wrote (external).
DownloadDone ==
    /\ fpc = "download" /\ tmp = FileLen /\ Quiet
    /\ fpc' = "manifest" /\ dl' = NoDl
    /\ UNCHANGED <<f, wr, tmp, slot, manifest, verdict>>

\* fetch_manifest, without a watchdog: saved, or failed unseen.
FetchManifest ==
    /\ fpc = "manifest" /\ Quiet
    /\ manifest' \in {manifest, TRUE}
    /\ BeginFinish /\ UNCHANGED <<tmp, slot, verdict>>

DownloadError ==
    /\ fpc = "download" /\ Quiet /\ Report("err") /\ UNCHANGED <<tmp, slot, manifest>>

\* Mutant: progress does not start the count again.
WatchdogPollNoReset ==
    /\ fpc = "download" /\ conf.stall > 0 /\ Quiet
    /\ UNCHANGED <<tmp, slot, manifest>>
    /\ \/ /\ dl.idle + 1 < conf.stall
          /\ dl' = [seen |-> tmp, idle |-> dl.idle + 1, silent |-> dl.silent + 1]
          /\ UNCHANGED <<fpc, f, wr, verdict>>
       \/ /\ dl.idle + 1 >= conf.stall
          /\ fpc' = "stalled" /\ dl' = [dl EXCEPT !.idle = @ + 1, !.silent = @ + 1]
          /\ UNCHANGED <<f, wr, verdict>>

\* The watchdog's poll: bytes since the last poll start the count again, and
\* the download is abandoned once the idle polls reach the limit.
WatchdogPoll ==
    /\ fpc = "download" /\ conf.stall > 0 /\ Quiet
    /\ UNCHANGED <<tmp, slot, manifest>>
    /\ \/ /\ tmp > dl.seen
          /\ dl' = [seen |-> tmp, idle |-> 0, silent |-> dl.silent + 1]
          /\ UNCHANGED <<fpc, f, wr, verdict>>
       \/ /\ tmp <= dl.seen /\ dl.idle + 1 < conf.stall
          /\ dl' = [dl EXCEPT !.idle = @ + 1, !.silent = @ + 1]
          /\ UNCHANGED <<fpc, f, wr, verdict>>
       \/ /\ tmp <= dl.seen /\ dl.idle + 1 >= conf.stall
          /\ fpc' = "stalled" /\ dl' = [dl EXCEPT !.idle = @ + 1, !.silent = @ + 1]
          /\ UNCHANGED <<f, wr, verdict>>

\* The future is dropped and the error reported.
WatchdogAbort ==
    /\ fpc = "stalled" /\ Quiet /\ Report("err") /\ UNCHANGED <<tmp, slot, manifest>>

(***************************************************************************)
(* The filter: writing.                                                    *)
(***************************************************************************)
\* A packet of a status list, an error or a pointer goes out.
WritePacket ==
    /\ fpc \in {"write", "finish"} /\ wr # <<>> /\ ~GitEnded /\ Len(toG) < ReplyCap
    /\ toG' = Append(toG, Head(wr)) /\ wr' = Tail(wr)
    /\ UNCHANGED <<conf, gitVars, toF, fpc, f, tmp, slot, manifest, dl, verdict, overrun>>

WriteDone ==
    /\ fpc = "write" /\ wr = <<>>
    /\ fpc' = "hdr"
    /\ UNCHANGED <<conf, gitVars, toF, toG, f, wr, tmp, slot, manifest, dl, verdict, overrun>>

\* finish_smudge after its first status list: the file is read and written
\* packet by packet ...
FinishChunk ==
    /\ fpc = "finish" /\ wr = <<>> /\ f.got < tmp /\ ~GitEnded /\ Len(toG) < ReplyCap
    /\ toG' = Append(toG, Pkt("out", f.q, f.got + 1))
    /\ f' = [f EXCEPT !.got = @ + 1]
    /\ UNCHANGED <<conf, gitVars, toF, fpc, wr, tmp, slot, manifest, dl, verdict, overrun>>

\* ... until its end, wherever that is ...
FinishEnd ==
    /\ fpc = "finish" /\ wr = <<>> /\ f.got = tmp /\ Quiet
    /\ wr' = <<Flush>> \o StatusList(f.q)
    /\ verdict' = [verdict EXCEPT ![f.q] = IF tmp > FileLen THEN "long" ELSE "ok"]
    /\ fpc' = "write" /\ f' = Idle /\ UNCHANGED <<tmp, slot, manifest, dl>>

\* ... or opening or reading it fails, with part of the answer written.
FinishTorn ==
    /\ fpc = "finish" /\ wr = <<>> /\ Quiet
    /\ Report("torn") /\ UNCHANGED <<tmp, slot, manifest>>

\* A write to a git that is gone fails, and so does the report of that failure.
WriteBroken ==
    /\ GitEnded
    /\ \/ fpc \in {"write", "finish"} /\ wr # <<>>
       \/ fpc = "finish" /\ wr = <<>> /\ f.got < tmp
    /\ FilterExit

FilterStep ==
    \/ FilterStart \/ ReadHeaderLine \/ ReadHeaderGarbage \/ ReadHeaderEnd \/ EnsureRuntime \/ HeaderEof
    \/ ReadPayload \/ PayloadGivenUp \/ ReadPayloadEnd \/ PayloadEof
    \/ Clean \/ SmudgeParse \/ SmudgeHot \/ SmudgeLocal \/ SmudgeStaged
    \/ WatchdogPoll \/ WatchdogAbort
    \/ WritePacket \/ WriteDone \/ FinishChunk \/ FinishEnd \/ FinishTorn \/ WriteBroken

Network == SmudgeCold \/ DownloadBytes \/ DownloadDone \/ DownloadError \/ FetchManifest

Ended == GitEnded /\ fpc \in {"exited", "stopped"} /\ UNCHANGED vars

Next == GitStep \/ FilterStep \/ Network \/ Ended

Spec == Init /\ [][Next]_vars

\* Both processes run; nothing is assumed of the network, so no call of it that
\* the filter waits for need return.
FairSpec == Spec /\ WF_vars(GitStep) /\ WF_vars(FilterStep)

(***************************************************************************)
(* Properties.                                                             *)
(***************************************************************************)
FilterPcs == {"start", "hdr", "runtime", "payload", "drain", "clean", "parse", "hot", "store",
              "cold", "download", "stalled", "manifest", "finish", "write", "exited", "stopped"}

\* Type invariant.
TypeOK ==
    /\ conf \in [plan: [Ids -> Plans], required: BOOLEAN, local: BOOLEAN, stall: {0, Stall}]
    /\ git \in {"send", "status1", "content", "status2", "done", "dead"}
    /\ req \in Ids /\ sent \in 0..(MaxPay + 3) /\ status \in {"", "success", "error"}
    /\ content \in Seq(Packets)
    /\ result \in [Ids -> {"none", "accepted", "failed"}]
    /\ accepted \in [Ids -> Seq(Packets)]
    /\ toF \in Seq(Packets) /\ toG \in Seq(Packets)
    /\ Len(toF) <= PipeCap /\ Len(toG) <= ReplyCap
    /\ fpc \in FilterPcs
    /\ f \in [q: 0..N, lines: 0..1, got: Nat] /\ f.got <= MaxPay + FileLen + Surplus
    /\ wr \in Seq(Packets) /\ tmp \in 0..(FileLen + Surplus)
    /\ slot \in {"none", "runtime", "config"} /\ manifest \in BOOLEAN
    /\ dl \in [seen: 0..FileLen, idle: 0..Stall, silent: Nat]
    /\ verdict \in [Ids -> {"none", "ok", "long", "err", "torn"}] /\ overrun \in BOOLEAN

\* What git takes for a request is the whole answer the filter made for that
\* request: no packet of another request, none lost, no error text, whatever
\* requests failed before it, however far the streams were out of step, and
\* wherever a smudge got its bytes from.  There are two exceptions.  When the
\* temporary file could not be read to the end after status=success was sent
\* (finish_smudge), git reads the error list as the end of the content, and the
\* flush after it as an empty final status list, which leaves status=success.
\* And in the server mode a staged file goes out with a tail when the hot path
\* had left more than the file before it.
AcceptedOwn ==
    \A q \in Ids : result[q] = "accepted" =>
        \/ verdict[q] = "ok" /\ accepted[q] = Answer(q)
        \/ verdict[q] = "torn"
        \/ /\ verdict[q] = "long" /\ ~conf.local /\ Len(accepted[q]) > Len(Answer(q))
           /\ \A i \in 1..Len(Answer(q)) : accepted[q][i] = Answer(q)[i]

\* Unless a payload was given up half-read, the filter looks for a request
\* only where one begins: "re-draining would block or desync the stream"
\* (report_request_error), and so would not draining.
InSync ==
    (fpc = "hdr" /\ f.lines = 0 /\ toF # <<>> /\ ~overrun) => Head(toF).k = "hdr"

\* The watchdog gives a download up only after the network was silent for the
\* whole limit, never because bytes came slowly (download_cold).
StallMeansSilence == fpc = "stalled" => dl.silent >= conf.stall

\* With the watchdog on, the git command ends, or the filter waits for ever in
\* one of the two calls that it does not watch (the session and fetch_manifest):
\* no failure of a request, no unread payload, no half-written answer and no
\* download that falls silent leaves git and the filter waiting for each other.
CommandEnds == conf.stall > 0 => <>GitEnded \/ <>[](fpc \in {"cold", "manifest"})
=============================================================================

----------------------------- MODULE RemotePush -----------------------------
(***************************************************************************)
(* push-pending with several remotes, and the forge resolver it gets its   *)
(* tokens from.                                                            *)
(*                                                                         *)
(* A push uploads the staged files and the files that the pushed commits   *)
(* introduce to the server side of ONE remote, its target.  What is no     *)
(* longer staged was drained by a push to some other remote, and is        *)
(* fetched back from whichever configured remote can give it.  The drain   *)
(* itself, its lock and the races with gc and git are PushPending's.       *)
(*                                                                         *)
(* Any request may fail.  A bale token is short-lived: it lapses between   *)
(* two requests and is minted again through the forge.  Clocks may differ  *)
(* so much that a token just minted looks expired.                         *)
(***************************************************************************)
EXTENDS Naturals, Sequences

CONSTANTS
    Files,
    Remotes,    \* configured remotes
    Order,      \* the remotes as parse_all_remotes lists them, origin first
    Ssh,        \* the remotes with an SSH URL; the others are HTTP(S)
    MaxExpired, \* MAX_EXPIRED_REFRESHES
    Pushes,     \* what is pushed: branches, tags (annotated)
    None

ASSUME RemoteAssumption ==
    /\ Order \in Seq(Remotes) /\ Order # <<>> /\ {Order[i] : i \in DOMAIN Order} = Remotes
    /\ Ssh \subseteq Remotes
    /\ Pushes \subseteq {"branches", "tags"} /\ MaxExpired \in Nat
    /\ None \notin Remotes /\ "static" \notin Remotes

VARIABLES
    literal,    \* bale.serverUrl and bale.token: none, token or both are set
    public,     \* the HTTP remotes whose forge grants anonymous read
    local,      \* files of the local commits
    staged,     \* files with a marker and their bytes in staging
    refs,       \* remote -> files of the commits its refs reach
    server,     \* repository scope -> files registered under it
    unread,     \* pairs <<remote, file>>: pushed there by a walk that missed the file,
                \* which the server has not been given since
    push,       \* the running push
    auth,       \* the resolver's call: [remote, scope, step]
    tok,        \* the upload token: none, good, lapsed, suspect (minted, looks expired)
    expired,    \* consecutive_expired of the upload refresher
    mints,      \* what its last MaxExpired + 1 mints looked like
    sess,       \* SourceSessions: remote -> none, built, dead
    prompted    \* pairs <<remote, scope>> for which this push ran git credential fill

repoVars == <<literal, public, local, staged, refs, server, unread>>
authVars == <<auth, tok, expired, mints, prompted>>
vars     == <<repoVars, push, authVars, sess>>

Origin == Order[1]

\* The repository a token is for: the remote's, or the literal token's own.
\* All remotes are served by one bale server.
Scopes     == Remotes \cup {"static"}
ScopeOf(r) == IF literal = "none" THEN r ELSE "static"

NoPush == [pc |-> "idle", target |-> None, hook |-> FALSE, adv |-> {}, missed |-> {},
           snap |-> {}, todo |-> {}, done |-> {}, cur |-> 0, file |-> None,
           why |-> "none"]
NoAuth == [remote |-> None, scope |-> "none", step |-> "idle"]

Init ==
    /\ literal \in {"none", "token", "both"}
    /\ public \in SUBSET (Remotes \ Ssh)
    /\ local = {} /\ staged = {}
    /\ refs = [r \in Remotes |-> {}] /\ server = [s \in Scopes |-> {}] /\ unread = {}
    /\ push = NoPush /\ auth = NoAuth /\ tok = "none" /\ expired = 0 /\ mints = <<>>
    /\ sess = [r \in Remotes |-> "none"] /\ prompted = {}

-----------------------------------------------------------------------------
(* The user and the other clients of the remotes. *)

Elsewhere == UNCHANGED <<literal, public, push, authVars, sess>>

Add(h) ==
    /\ h \notin staged
    /\ staged' = staged \cup {h} /\ UNCHANGED <<local, refs, server, unread>> /\ Elsewhere

Commit(h) ==
    /\ h \in staged \ local
    /\ local' = local \cup {h} /\ UNCHANGED <<staged, refs, server, unread>> /\ Elsewhere

\* Another clone pushes h to r, through its own push-pending.  Its walk may miss
\* h too, which it had then drained to some server before.
OtherPush(r, h) ==
    /\ h \notin refs[r]
    /\ refs' = [refs EXCEPT ![r] = @ \cup {h}]
    /\ \/ server' = [server EXCEPT ![ScopeOf(r)] = @ \cup {h}] /\ UNCHANGED unread
       \/ /\ h \notin server[ScopeOf(r)] /\ \E s \in Scopes : h \in server[s]
          /\ unread' = unread \cup {<<r, h>>} /\ UNCHANGED server
    /\ UNCHANGED <<local, staged>> /\ Elsewhere

Fetch(r) ==
    /\ ~(refs[r] \subseteq local)
    /\ local' = local \cup refs[r] /\ UNCHANGED <<staged, refs, server, unread>> /\ Elsewhere

-----------------------------------------------------------------------------
(* The push. *)

\* The process ends: nothing of the resolver or of the sessions survives it.
PushOver(why) ==
    /\ push' = [NoPush EXCEPT !.why = why]
    /\ auth' = NoAuth /\ tok' = "none" /\ sess' = [r \in Remotes |-> "none"]

PushFails == PushOver("failed") /\ UNCHANGED <<expired, mints>>

\* reachable_pointers: the walk from the pushed commits hides what the remote's
\* ref has; a new ref, or one the clone does not know, hides nothing.  Only
\* commits are walked from, and an annotated tag is not one.
Walks(r) ==
    (IF "branches" \in Pushes THEN {local \ refs[r], local} ELSE {}) \cup
    (IF "tags" \in Pushes THEN {{}} ELSE {})

\* git push to r: the hook is told the remote and the refs.  A repository,
\* commit, tree or blob that cannot be read is passed over in silence, so the
\* walk may miss any of the files.
PushBegin(r) ==
    /\ push.pc = "idle"
    /\ \E all \in Walks(r) : \E walk \in SUBSET all :
         push' = [NoPush EXCEPT !.pc = "list", !.target = r, !.hook = TRUE, !.adv = local,
                                !.todo = walk, !.missed = all \ (walk \cup server[ScopeOf(r)])]
    /\ expired' = 0 /\ mints' = <<>> /\ prompted' = {}
    /\ UNCHANGED <<repoVars, auth, tok, sess>>

\* push-pending run by hand: no remote and no refs, so origin and staging only.
PushByHand ==
    /\ push.pc = "idle"
    /\ push' = [NoPush EXCEPT !.pc = "list", !.target = Origin]
    /\ expired' = 0 /\ mints' = <<>> /\ prompted' = {}
    /\ UNCHANGED <<repoVars, auth, tok, sess>>

\* Staged files, and the advertised ones that are not staged (from_refs).
PushList ==
    /\ push.pc = "list"
    /\ IF staged = {} /\ push.todo = {}
         THEN /\ push' = [push EXCEPT !.pc = "moveRef"] /\ UNCHANGED auth
         ELSE /\ push' = [push EXCEPT !.pc = "auth", !.snap = staged, !.todo = @ \ staged,
                                   !.missed = @ \ staged]
              /\ auth' = [remote |-> push.target, scope |-> "Write", step |-> "start"]
    /\ UNCHANGED <<repoVars, tok, expired, mints, prompted, sess>>

\* A marker without a size: the push stops before it asks for anything.
PushSizeless == push.pc = "list" /\ staged # {} /\ PushFails /\ UNCHANGED <<repoVars, prompted>>

\* A request of the upload session spends the token: a suspect one is expired
\* again for the next request.
Spend == tok' = IF tok = "suspect" THEN "lapsed" ELSE tok
Usable == tok \in {"good", "suspect"}

\* re_translate_one of a staged file.
PushStaged(h) ==
    /\ push.pc = "upload" /\ Usable /\ h \in push.snap \ push.done
    /\ push' = [push EXCEPT !.done = @ \cup {h}] /\ Spend
    /\ UNCHANGED <<repoVars, auth, expired, mints, prompted, sess>>

\* Mutant: anything but a 404 passes for registered.
ProbeSaysHereOpen(h) == {TRUE, (h \in server[ScopeOf(push.target)])}

\* file_registered_on_target: only a success says so, and only for a file that
\* is registered under the token's repository; every failure says no.
ProbeSaysHere(h) == {FALSE, (h \in server[ScopeOf(push.target)])}

\* An advertised file that is not staged: probe the target, then look for a source.
PushProbe(h) ==
    /\ push.pc = "upload" /\ push.snap \subseteq push.done
    /\ h \in push.todo
    /\ \E here \in ProbeSaysHere(h) :
         push' = IF here THEN [push EXCEPT !.todo = @ \ {h}]
                 ELSE [push EXCEPT !.pc = "source", !.file = h, !.cur = 1, !.todo = @ \ {h}]
    /\ UNCHANGED <<repoVars, authVars, sess>>

Source == Order[push.cur]

\* A remote whose session could not be built is passed over from then on.
SourceDead ==
    /\ push.pc = "source" /\ push.cur <= Len(Order) /\ sess[Source] = "dead"
    /\ push' = [push EXCEPT !.cur = @ + 1]
    /\ UNCHANGED <<repoVars, authVars, sess>>

SourceBuild ==
    /\ push.pc = "source" /\ push.cur <= Len(Order) /\ sess[Source] = "none"
    /\ push' = [push EXCEPT !.pc = "auth"]
    /\ auth' = [remote |-> Source, scope |-> "Read", step |-> "start"]
    /\ UNCHANGED <<repoVars, tok, expired, mints, prompted, sess>>

\* The remote has the file and gives it; it is cleaned into the upload session.
SourceGives ==
    /\ push.pc = "source" /\ push.cur <= Len(Order) /\ sess[Source] = "built" /\ Usable
    /\ push.file \in server[ScopeOf(Source)]
    /\ push' = [push EXCEPT !.pc = "upload", !.done = @ \cup {push.file}, !.file = None]
    /\ Spend
    /\ UNCHANGED <<repoVars, auth, expired, mints, prompted, sess>>

\* It does not: the next one.
SourceLacks ==
    /\ push.pc = "source" /\ push.cur <= Len(Order) /\ sess[Source] = "built"
    /\ push' = [push EXCEPT !.cur = @ + 1]
    /\ UNCHANGED <<repoVars, authVars, sess>>

NoSource ==
    /\ push.pc = "source" /\ push.cur > Len(Order)
    /\ PushFails /\ UNCHANGED <<repoVars, prompted>>

\* The repository the upload token is for.
RegistersUnder == ScopeOf(push.target)

\* What the server is given now is no longer without its bytes.
StillUnread == unread' = {e \in unread : e[2] \notin server'[ScopeOf(e[1])]}

\* finalize(): the shard registers what was cleaned under the token's repository.
PushFinalize ==
    /\ push.pc = "upload" /\ Usable
    /\ push.snap \subseteq push.done /\ push.todo = {}
    /\ server' = [server EXCEPT ![RegistersUnder] = @ \cup push.done]
    /\ push' = [push EXCEPT !.pc = "drain"] /\ Spend
    /\ StillUnread /\ UNCHANGED <<literal, public, local, staged, refs>>
    /\ UNCHANGED <<auth, expired, mints, prompted, sess>>

\* A request of the upload fails; what was registered by then stays.
PushRequestFails ==
    /\ push.pc = "upload"
    /\ \E done \in SUBSET push.done :
         server' = [server EXCEPT ![RegistersUnder] = @ \cup done]
    /\ StillUnread /\ PushFails /\ UNCHANGED <<literal, public, local, staged, refs, prompted>>

\* Mutant: everything that is staged goes.
PushDrainAll ==
    /\ push.pc = "drain"
    /\ staged' = {}
    /\ push' = [push EXCEPT !.pc = "moveRef"]
    /\ UNCHANGED <<literal, public, local, refs, server, unread, authVars, sess>>

\* The markers of the listed files go, and with the last marker the bytes; all
\* stays when the store cannot be locked.
PushDrain ==
    /\ push.pc = "drain"
    /\ staged' \in {staged, staged \ push.snap}
    /\ push' = [push EXCEPT !.pc = "moveRef"]
    /\ UNCHANGED <<literal, public, local, refs, server, unread, authVars, sess>>

\* The hook succeeded: git moves the ref, or the remote rejects it.
GitPushed ==
    /\ push.pc = "moveRef"
    /\ \/ UNCHANGED <<refs, unread>>
       \/ /\ push.hook
          /\ refs' = [refs EXCEPT ![push.target] = @ \cup push.adv]
          /\ unread' = unread \cup ({push.target} \X (push.missed \ server[ScopeOf(push.target)]))
    /\ PushOver("none")
    /\ UNCHANGED <<literal, public, local, staged, server, expired, mints, prompted>>

-----------------------------------------------------------------------------
(* The resolver: resolve_for_remote for a push's target (Write) or for a   *)
(* source of bytes (Read).                                                 *)

\* The call returns a token: the upload goes on, or the source's session is
\* built.  The first upload token may look expired like any other.
Resolved ==
    /\ auth' = NoAuth
    /\ IF auth.scope = "Write"
         THEN /\ push' = [push EXCEPT !.pc = "upload"]
              /\ tok' \in IF literal = "none" THEN {"good", "lapsed"} ELSE {"good"}
              /\ UNCHANGED sess
         ELSE /\ push' = [push EXCEPT !.pc = "source"]
              /\ sess' = [sess EXCEPT ![auth.remote] = "built"]
              /\ UNCHANGED tok
    /\ UNCHANGED <<repoVars, expired, mints, prompted>>

\* It fails: the push ends, or the source is dead.
ResolveFails ==
    /\ auth.step # "idle" /\ literal # "both"
    /\ IF auth.scope = "Write"
         THEN PushFails
         ELSE /\ push' = [push EXCEPT !.pc = "source"]
              /\ sess' = [sess EXCEPT ![auth.remote] = "dead"]
              /\ auth' = NoAuth /\ UNCHANGED <<tok, expired, mints>>
    /\ UNCHANGED <<repoVars, prompted>>

AuthGoto(s) == auth' = [auth EXCEPT !.step = s] /\ UNCHANGED <<repoVars, push, tok, expired, mints, sess>>

\* Mutant: credentials are asked for even where anonymous read may do.
ResolveStartPrompts ==
    /\ auth.step = "start"
    /\ IF literal = "both" THEN Resolved
       ELSE AuthGoto(IF auth.remote \in Ssh THEN "ssh" ELSE "creds") /\ UNCHANGED prompted

\* Both pieces configured: nothing to ask.  Otherwise SSH, or HTTP, where a
\* read is first tried without credentials.
ResolveStart ==
    /\ auth.step = "start"
    /\ IF literal = "both" THEN Resolved
       ELSE /\ AuthGoto(CASE auth.remote \in Ssh     -> "ssh"
                          [] auth.remote \notin Ssh /\ auth.scope = "Read" -> "anon"
                          [] OTHER                   -> "creds")
            /\ UNCHANGED prompted

AuthSsh == auth.step = "ssh" /\ AuthGoto("exchange") /\ UNCHANGED prompted

\* The anonymous probe: granted, or refused with 401/403.
AuthAnonymous ==
    /\ auth.step = "anon"
    /\ AuthGoto(IF auth.remote \in public THEN "exchange" ELSE "creds")
    /\ UNCHANGED prompted

AuthCredentials ==
    /\ auth.step = "creds"
    /\ prompted' = prompted \cup {<<auth.remote, auth.scope>>}
    /\ AuthGoto("exchange")

\* The forge's token is exchanged for a bale token, unless one is configured.
AuthExchange == auth.step = "exchange" /\ Resolved

-----------------------------------------------------------------------------
(* The upload token. *)

\* xet takes a token as expired REFRESH_BUFFER_SEC before it is.
TokenLapses ==
    /\ tok = "good" /\ literal = "none" /\ push.pc \in {"upload", "source"}
    /\ tok' = "lapsed"
    /\ UNCHANGED <<repoVars, push, auth, expired, mints, prompted, sess>>

\* One more mint: good or already expired on the local clock.  The one too many
\* in a row fails the request: the push's own, or the upload half of
\* re_translate_one, after which the next source is tried.  The count stops
\* at the bound here, past which every value acts alike.
Minted(good, n) ==
    /\ mints' = LET m == Append(mints, good)
                IN  IF Len(m) > MaxExpired + 1 THEN Tail(m) ELSE m
    /\ expired' = IF good THEN n ELSE IF expired > MaxExpired THEN expired ELSE expired + 1
    /\ IF good \/ expired < MaxExpired
         THEN tok' = (IF good THEN "good" ELSE "suspect") /\ UNCHANGED <<push, auth, sess>>
         ELSE IF push.pc = "upload" THEN PushOver("skew")
         ELSE push' = [push EXCEPT !.cur = @ + 1] /\ UNCHANGED <<tok, auth, sess>>

\* xet asks for a token before a request of the upload session.
Requests ==
    /\ tok = "lapsed"
    /\ \/ push.pc = "upload"
       \/ push.pc = "source" /\ push.cur <= Len(Order) /\ sess[Source] = "built"

\* Mutant: a good token does not clear the count.
RefreshNoReset ==
    /\ Requests
    /\ \E good \in BOOLEAN : Minted(good, expired)
    /\ UNCHANGED <<repoVars, prompted>>

\* ForgeTokenRefresher::refresh.
Refresh ==
    /\ Requests
    /\ \E good \in BOOLEAN : Minted(good, 0)
    /\ UNCHANGED <<repoVars, prompted>>

-----------------------------------------------------------------------------
User ==
    \/ \E h \in Files : Add(h) \/ Commit(h) \/ (\E r \in Remotes : OtherPush(r, h))
    \/ \E r \in Remotes : Fetch(r)

Begin == (\E r \in Remotes : PushBegin(r)) \/ PushByHand

PushStep ==
    \/ PushList \/ PushSizeless \/ (\E h \in Files : PushStaged(h) \/ PushProbe(h))
    \/ SourceDead \/ SourceBuild \/ SourceGives \/ SourceLacks \/ NoSource
    \/ PushFinalize \/ PushRequestFails \/ PushDrain \/ GitPushed

AuthStep ==
    \/ ResolveStart \/ ResolveFails \/ AuthSsh \/ AuthAnonymous \/ AuthCredentials
    \/ AuthExchange \/ TokenLapses \/ Refresh

Next == User \/ Begin \/ PushStep \/ AuthStep

Spec == Init /\ [][Next]_vars

-----------------------------------------------------------------------------
(* Properties. *)

\* Type invariant.
TypeOK ==
    /\ literal \in {"none", "token", "both"} /\ public \subseteq Remotes
    /\ local \subseteq Files /\ staged \subseteq Files
    /\ refs \in [Remotes -> SUBSET Files] /\ server \in [Scopes -> SUBSET Files]
    /\ push.pc \in {"idle", "list", "auth", "upload", "source", "drain", "moveRef"}
    /\ push.target \in Remotes \cup {None} /\ push.file \in Files \cup {None}
    /\ unread \subseteq Remotes \X Files
    /\ push.adv \subseteq Files /\ push.missed \subseteq Files
    /\ push.snap \subseteq Files /\ push.todo \subseteq Files
    /\ push.done \subseteq Files /\ push.cur \in 0..(Len(Order) + 1)
    /\ push.why \in {"none", "failed", "skew"} /\ push.hook \in BOOLEAN
    /\ auth \in [remote: Remotes \cup {None}, scope: {"none", "Read", "Write"},
                 step: {"idle", "start", "ssh", "anon", "creds", "exchange"}]
    /\ (auth.step = "idle") = (push.pc # "auth")
    /\ tok \in {"none", "good", "lapsed", "suspect"} /\ expired \in 0..(MaxExpired + 1)
    /\ mints \in Seq(BOOLEAN) /\ Len(mints) <= MaxExpired + 1
    /\ sess \in [Remotes -> {"none", "built", "dead"}]
    /\ prompted \subseteq Remotes \X {"Read", "Write"}

\* A remote never has a commit whose files its server cannot give, except for
\* files that the walk of a push missed: what the target lacks is uploaded or
\* fetched from another remote first, or the push fails (reachable_pointers,
\* file_registered_on_target, re_translate_from_any).
RefsBacked ==
    \A r \in Remotes : \A h \in refs[r] : h \in server[ScopeOf(r)] \/ <<r, h>> \in unread

\* A local file's bytes are in staging or on a server, wherever pushes to
\* several remotes drained it.
BytesSomewhere == \A h \in local : h \in staged \/ \E s \in Scopes : h \in server[s]

\* The refresher blames the clocks only for tokens that looked expired each
\* time, MAX_EXPIRED_REFRESHES and one more in a row, and hands out none after that.
SkewMeansSkew ==
    LET allExpired == Len(mints) = MaxExpired + 1 /\ \A i \in DOMAIN mints : ~mints[i]
    IN  /\ push.why = "skew" => allExpired
        /\ tok = "suspect" => ~allExpired

\* Reading from a public repository "must not prompt for credentials"
\* (authenticate_http_with_fallback).
PublicNeverPrompts == \A r \in public : <<r, "Read">> \notin prompted
=============================================================================

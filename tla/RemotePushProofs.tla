-------------------------- MODULE RemotePushProofs --------------------------
(***************************************************************************)
(* Proofs about RemotePush, for any set of files, any list of remotes of   *)
(* either kind and any number of tolerated expired tokens.                 *)
(***************************************************************************)
EXTENDS RemotePush, TLAPS

PushType ==
    [pc : {"idle", "list", "auth", "upload", "source", "drain", "moveRef"},
     target : Remotes \cup {None}, hook : BOOLEAN, adv : SUBSET Files,
     missed : SUBSET Files, snap : SUBSET Files, todo : SUBSET Files, done : SUBSET Files,
     cur : 0..(Len(Order) + 1), file : Files \cup {None},
     why : {"none", "failed", "skew"}]

(* What the steps of a push rely on: a running one has a target, a source  *)
(* is looked for on behalf of a file and is a listed remote, the resolver  *)
(* works for one remote and scope, and only a push that ended is blamed on *)
(* the clocks.                                                             *)
Shape ==
    /\ push \in PushType
    /\ push.pc # "idle" => push.target \in Remotes /\ push.why = "none"
    /\ push.pc = "source" => push.file \in Files /\ push.cur \in 1..(Len(Order) + 1)
    /\ auth.step # "idle" => auth.remote \in Remotes /\ auth.scope \in {"Read", "Write"}
    /\ auth.scope = "Read" =>
         push.pc = "auth" /\ push.file \in Files /\ push.cur \in 1..Len(Order)
    /\ public \cap Ssh = {}

(* The file whose bytes are being looked for. *)
Sought == IF push.pc = "source" \/ auth.scope = "Read" THEN {push.file} ELSE {}

OnTarget == server[ScopeOf(push.target)]

(* The files that no walk can be relied on to find: those this push's walk *)
(* missed, and those an earlier one did, that the target's refs have.      *)
Missed == push.missed \cup {h \in Files : <<push.target, h>> \in unread}

(* An advertised file that no walk missed is on the target, or still to be *)
(* dealt with by the push; when the push gets to the ref, nothing is left  *)
(* to deal with.                                                           *)
Advertised ==
    push.hook =>
      /\ push.pc = "list" => push.adv \subseteq OnTarget \cup Missed \cup push.todo
      /\ push.pc \in {"auth", "upload", "source"} =>
           push.adv \subseteq OnTarget \cup Missed \cup push.todo \cup push.snap
                             \cup push.done \cup Sought
      /\ push.pc \in {"drain", "moveRef"} => push.adv \subseteq OnTarget \cup Missed

(* A drain removes what is on the target. *)
DrainsUploaded == push.pc = "drain" => push.snap \subseteq OnTarget

(* What has bytes somewhere: the local commits, the refs and the pushed    *)
(* commits name nothing else, whatever is pushed.                          *)
Somewhere == staged \cup UNION {server[s] : s \in Scopes}

NamedSomewhere ==
    /\ local \subseteq Somewhere /\ push.adv \subseteq Somewhere
    /\ \A r \in Remotes : refs[r] \subseteq Somewhere

(* n is the number of bad ones after the last good one of the len in s. *)
Count(s, len, n, bad, ok) ==
    /\ n <= len
    /\ \A i \in 1..len : i > len - n => s[i] = bad
    /\ n < len => s[len - n] = ok

(* The refresher counts the mints that looked expired since the last good one. *)
Trailing == Count(mints, Len(mints), expired, FALSE, TRUE)

SkewCounted ==
    /\ push.why = "skew" => expired = MaxExpired + 1
    /\ tok = "suspect" => expired <= MaxExpired

(* Credentials are asked for to read only after the anonymous probe.       *)
AnonymousFirst == auth.step = "creds" /\ auth.scope = "Read" => auth.remote \notin public

(* What holds of any push ... *)
PushInv ==
    /\ TypeOK /\ Shape /\ DrainsUploaded /\ NamedSomewhere
    /\ Trailing /\ SkewCounted /\ AnonymousFirst /\ PublicNeverPrompts

(* ... and of pushes of branches. *)
BranchInv == PushInv /\ Advertised /\ RefsBacked

-----------------------------------------------------------------------------
(* Facts the steps share. *)

(* The list of remotes is not empty and names remotes only. *)
LEMMA OrderFacts ==
    /\ Len(Order) \in Nat /\ Len(Order) >= 1
    /\ \A i \in 1..Len(Order) : Order[i] \in Remotes
BY RemoteAssumption

(* A push that ended has nothing in hand. *)
LEMMA OverFacts ==
    ASSUME NEW why \in {"none", "failed", "skew"}, PushOver(why)
    PROVE  /\ push' \in PushType /\ push'.pc = "idle" /\ push'.why = why
           /\ push'.adv = {} /\ auth' = NoAuth /\ tok' = "none"
           /\ sess' = [r \in Remotes |-> "none"]
<1>1. push' = [pc |-> "idle", target |-> None, hook |-> FALSE, adv |-> {}, missed |-> {},
               snap |-> {}, todo |-> {}, done |-> {}, cur |-> 0, file |-> None, why |-> why]
  BY DEF PushOver, NoPush
<1>2. 0 \in 0..(Len(Order) + 1)
  BY OrderFacts
<1>3. push' \in PushType
  BY <1>1, <1>2 DEF PushType
<1>4. QED
  BY <1>1, <1>3 DEF PushOver

(* A push begins with its target and what it has to upload. *)
LEMMA ListFacts ==
    ASSUME NEW r \in Remotes, NEW hook \in BOOLEAN,
           NEW adv \in SUBSET Files, NEW walk \in SUBSET Files,
           NEW missed \in SUBSET Files,
           push' = [pc |-> "list", target |-> r, hook |-> hook, adv |-> adv,
                    missed |-> missed, snap |-> {}, todo |-> walk, done |-> {}, cur |-> 0, file |-> None, why |-> "none"]
    PROVE  push' \in PushType
<1>1. 0 \in 0..(Len(Order) + 1)
  BY OrderFacts
<1>2. QED
  BY <1>1 DEF PushType

(* The next remote of the list, or the place after the last. *)
LEMMA NextSource ==
    ASSUME PushInv, push.pc = "source", push.cur <= Len(Order),
           push' = [push EXCEPT !.cur = @ + 1]
    PROVE  push' \in PushType /\ push'.cur \in 1..(Len(Order) + 1)
<1> DEFINE c == push.cur + 1
<1>1. push.cur \in 1..(Len(Order) + 1) /\ push \in PushType
  BY DEF PushInv, Shape
<1>2. c \in 1..(Len(Order) + 1) /\ c \in 0..(Len(Order) + 1)
  BY <1>1, OrderFacts
<1>3. push' = [push EXCEPT !.cur = c]
  OBVIOUS
<1> HIDE DEF c
<1>4. QED
  BY <1>1, <1>2, <1>3 DEF PushType

(* No token was minted yet. *)
LEMMA NoMints ==
    ASSUME expired' = 0, mints' = <<>>
    PROVE  /\ expired' \in 0..(MaxExpired + 1) /\ mints' \in Seq(BOOLEAN)
           /\ Len(mints') <= MaxExpired + 1 /\ Trailing'
<1>1. mints' \in Seq(BOOLEAN) /\ Len(mints') = 0
  OBVIOUS
<1>2. QED
  BY <1>1, RemoteAssumption DEF Trailing, Count

(* What has bytes somewhere keeps them: files are added to staging and to  *)
(* servers, and only what one server has is removed from staging.          *)
LEMMA SomewhereGrows ==
    ASSUME PushInv, NEW s \in Scopes, NEW d \in SUBSET Files,
           server' = server \/ server' = [server EXCEPT ![s] = @ \cup d],
           staged \subseteq staged' \cup server[s]
    PROVE  Somewhere \subseteq Somewhere'
<1>1. \A q \in Scopes : server[q] \subseteq server'[q]
  BY DEF PushInv, TypeOK
<1>2. QED
  BY <1>1 DEF Somewhere, Scopes

(* The initial state satisfies the invariant. *)
LEMMA InitPush == Init => BranchInv
<1> SUFFICES ASSUME Init PROVE BranchInv
  OBVIOUS
<1> USE DEF Init
<1>1. /\ 0 \in 0..(Len(Order) + 1) /\ 0 \in 0..(MaxExpired + 1)
      /\ mints \in Seq(BOOLEAN) /\ Len(mints) = 0 /\ 0 <= MaxExpired + 1
  BY OrderFacts, RemoteAssumption
<1>2. push \in PushType
  BY <1>1 DEF PushType, NoPush
<1>3. TypeOK
  BY <1>1, <1>2, RemoteAssumption DEF TypeOK, PushType, NoPush, NoAuth, Scopes
<1>4. Shape
  BY <1>2 DEF Shape, NoPush, NoAuth
<1>5. DrainsUploaded /\ NamedSomewhere /\ Advertised /\ RefsBacked
  BY DEF DrainsUploaded, NamedSomewhere, Somewhere, Advertised, RefsBacked, NoPush, Scopes
<1>6. Trailing /\ SkewCounted
  BY <1>1 DEF Trailing, Count, SkewCounted, NoPush
<1>7. AnonymousFirst /\ PublicNeverPrompts
  BY DEF AnonymousFirst, PublicNeverPrompts, NoAuth
<1>8. QED
  BY <1>3, <1>4, <1>5, <1>6, <1>7 DEF PushInv, BranchInv

-----------------------------------------------------------------------------
(* The user and the other clients of the remotes. *)

(* A file is staged. *)
LEMMA AddStep ==
    ASSUME PushInv, NEW h \in Files, Add(h)
    PROVE  PushInv'
<1> USE DEF PushInv, repoVars, authVars, Add, Elsewhere
<1>1. TypeOK'
  BY DEF TypeOK, Shape, PushType, Scopes, ScopeOf
<1>2. Shape'
  BY DEF Shape, TypeOK, PushType
<1>3. DrainsUploaded'
  BY DEF DrainsUploaded, OnTarget, ScopeOf, Scopes, TypeOK, Shape, PushType
<1>4. NamedSomewhere'
  BY DEF NamedSomewhere, Somewhere, Scopes, ScopeOf, TypeOK, Shape, PushType
<1>5. Trailing' /\ SkewCounted'
  BY DEF Trailing, SkewCounted, TypeOK, Shape, PushType
<1>6. AnonymousFirst' /\ PublicNeverPrompts'
  BY DEF AnonymousFirst, PublicNeverPrompts, TypeOK, Shape, PushType, NoAuth
<1>7. QED
  BY <1>1, <1>2, <1>3, <1>4, <1>5, <1>6

(* A commit names a staged file. *)
LEMMA CommitStep ==
    ASSUME PushInv, NEW h \in Files, Commit(h)
    PROVE  PushInv'
<1> USE DEF PushInv, repoVars, authVars, Commit, Elsewhere
<1>1. TypeOK'
  BY DEF TypeOK, Shape, PushType, Scopes, ScopeOf
<1>2. Shape'
  BY DEF Shape, TypeOK, PushType
<1>3. DrainsUploaded'
  BY DEF DrainsUploaded, OnTarget, ScopeOf, Scopes, TypeOK, Shape, PushType
<1>4. NamedSomewhere'
  BY DEF NamedSomewhere, Somewhere, Scopes, ScopeOf, TypeOK, Shape, PushType
<1>5. Trailing' /\ SkewCounted'
  BY DEF Trailing, SkewCounted, TypeOK, Shape, PushType
<1>6. AnonymousFirst' /\ PublicNeverPrompts'
  BY DEF AnonymousFirst, PublicNeverPrompts, TypeOK, Shape, PushType, NoAuth
<1>7. QED
  BY <1>1, <1>2, <1>3, <1>4, <1>5, <1>6

(* Another clone registers the file before it moves the ref. *)
LEMMA OtherPushStep ==
    ASSUME PushInv, NEW r \in Remotes, NEW h \in Files, OtherPush(r, h)
    PROVE  PushInv'
<1> USE DEF PushInv, repoVars, authVars, OtherPush, Elsewhere
<1>1. TypeOK'
  BY DEF TypeOK, Shape, PushType, Scopes, ScopeOf
<1>2. Shape'
  BY DEF Shape, TypeOK, PushType
<1>3. DrainsUploaded'
  BY DEF DrainsUploaded, OnTarget, ScopeOf, Scopes, TypeOK, Shape, PushType
<1>4. NamedSomewhere'
  BY DEF NamedSomewhere, Somewhere, Scopes, ScopeOf, TypeOK, Shape, PushType
<1>5. Trailing' /\ SkewCounted'
  BY DEF Trailing, SkewCounted, TypeOK, Shape, PushType
<1>6. AnonymousFirst' /\ PublicNeverPrompts'
  BY DEF AnonymousFirst, PublicNeverPrompts, TypeOK, Shape, PushType, NoAuth
<1>7. QED
  BY <1>1, <1>2, <1>3, <1>4, <1>5, <1>6

(* A fetch names what a ref names. *)
LEMMA FetchStep ==
    ASSUME PushInv, NEW r \in Remotes, Fetch(r)
    PROVE  PushInv'
<1> USE DEF PushInv, repoVars, authVars, Fetch, Elsewhere
<1>1. TypeOK'
  BY DEF TypeOK, Shape, PushType, Scopes, ScopeOf
<1>2. Shape'
  BY DEF Shape, TypeOK, PushType
<1>3. DrainsUploaded'
  BY DEF DrainsUploaded, OnTarget, ScopeOf, Scopes, TypeOK, Shape, PushType
<1>4. NamedSomewhere'
  BY DEF NamedSomewhere, Somewhere, Scopes, ScopeOf, TypeOK, Shape, PushType
<1>5. Trailing' /\ SkewCounted'
  BY DEF Trailing, SkewCounted, TypeOK, Shape, PushType
<1>6. AnonymousFirst' /\ PublicNeverPrompts'
  BY DEF AnonymousFirst, PublicNeverPrompts, TypeOK, Shape, PushType, NoAuth
<1>7. QED
  BY <1>1, <1>2, <1>3, <1>4, <1>5, <1>6

-----------------------------------------------------------------------------
(* The push. *)

(* The hook starts a push. *)
LEMMA BeginStep ==
    ASSUME PushInv, NEW r \in Remotes, PushBegin(r)
    PROVE  PushInv'
<1> USE DEF PushInv, repoVars, authVars, PushBegin
<1>0. push' \in PushType /\ push'.pc = "list" /\ push'.target = r /\ push'.why = "none"
      /\ push'.adv = local
  <2>1. PICK all \in Walks(r) : \E walk \in SUBSET all :
          push' = [pc |-> "list", target |-> r, hook |-> TRUE, adv |-> local,
                   missed |-> all \ (walk \cup server[ScopeOf(r)]), snap |-> {},
                   todo |-> walk, done |-> {}, cur |-> 0, file |-> None, why |-> "none"]
    BY DEF NoPush
  <2>2. all \subseteq Files /\ local \subseteq Files
    BY DEF Walks, TypeOK
  <2>3. PICK walk \in SUBSET Files, missed \in SUBSET Files :
          push' = [pc |-> "list", target |-> r, hook |-> TRUE, adv |-> local,
                   missed |-> missed, snap |-> {},
                   todo |-> walk, done |-> {}, cur |-> 0, file |-> None, why |-> "none"]
    BY <2>1, <2>2
  <2>4. push' \in PushType
    BY <2>2, <2>3, ListFacts
  <2>5. QED
    BY <2>3, <2>4
<1>a. /\ expired' \in 0..(MaxExpired + 1) /\ mints' \in Seq(BOOLEAN)
      /\ Len(mints') <= MaxExpired + 1 /\ Trailing'
  BY NoMints
<1>b. expired' <= MaxExpired
  BY RemoteAssumption
<1>1. TypeOK'
  BY <1>0, <1>a, <1>b DEF TypeOK, Shape, PushType, Scopes, ScopeOf
<1>2. Shape'
  BY <1>0, <1>a, <1>b DEF Shape, TypeOK, PushType
<1>3. DrainsUploaded'
  BY <1>0, <1>a, <1>b DEF DrainsUploaded, OnTarget, ScopeOf, Scopes, TypeOK, Shape, PushType
<1>4. NamedSomewhere'
  BY <1>0, <1>a, <1>b DEF NamedSomewhere, Somewhere, Scopes, ScopeOf, TypeOK, Shape, PushType
<1>5. Trailing' /\ SkewCounted'
  BY <1>0, <1>a, <1>b DEF Trailing, SkewCounted, TypeOK, Shape, PushType
<1>6. AnonymousFirst' /\ PublicNeverPrompts'
  BY <1>0, <1>a, <1>b DEF AnonymousFirst, PublicNeverPrompts, TypeOK, Shape, PushType, NoAuth
<1>7. QED
  BY <1>1, <1>2, <1>3, <1>4, <1>5, <1>6

(* push-pending is run by hand, to the first remote. *)
LEMMA ByHandStep ==
    ASSUME PushInv, PushByHand
    PROVE  PushInv'
<1> USE DEF PushInv, repoVars, authVars
<1>0. push' \in PushType /\ push'.pc = "list" /\ push'.target \in Remotes /\ push'.why = "none"
      /\ push'.adv = {}
  <2>1. push' = [pc |-> "list", target |-> Order[1], hook |-> FALSE, adv |-> {}, missed |-> {},
                 snap |-> {}, todo |-> {}, done |-> {}, cur |-> 0, file |-> None, why |-> "none"]
    BY DEF PushByHand, NoPush, Origin
  <2>2. Order[1] \in Remotes
    BY OrderFacts
  <2>3. QED
    BY <2>1, <2>2, ListFacts
<1> USE DEF PushByHand
<1>a. /\ expired' \in 0..(MaxExpired + 1) /\ mints' \in Seq(BOOLEAN)
      /\ Len(mints') <= MaxExpired + 1 /\ Trailing'
  BY NoMints
<1>b. expired' <= MaxExpired
  BY RemoteAssumption
<1>1. TypeOK'
  BY <1>0, <1>a, <1>b DEF TypeOK, Shape, PushType, Scopes, ScopeOf
<1>2. Shape'
  BY <1>0, <1>a, <1>b DEF Shape, TypeOK, PushType
<1>3. DrainsUploaded'
  BY <1>0, <1>a, <1>b DEF DrainsUploaded, OnTarget, ScopeOf, Scopes, TypeOK, Shape, PushType
<1>4. NamedSomewhere'
  BY <1>0, <1>a, <1>b DEF NamedSomewhere, Somewhere, Scopes, ScopeOf, TypeOK, Shape, PushType
<1>5. Trailing' /\ SkewCounted'
  BY <1>0, <1>a, <1>b DEF Trailing, SkewCounted, TypeOK, Shape, PushType
<1>6. AnonymousFirst' /\ PublicNeverPrompts'
  BY <1>0, <1>a, <1>b DEF AnonymousFirst, PublicNeverPrompts, TypeOK, Shape, PushType, NoAuth
<1>7. QED
  BY <1>1, <1>2, <1>3, <1>4, <1>5, <1>6

(* The push lists what is staged. *)
LEMMA ListStep ==
    ASSUME PushInv, PushList
    PROVE  PushInv'
<1> USE DEF PushInv, repoVars, authVars, PushList
<1>a. push \in PushType /\ staged \subseteq Files /\ push.target \in Remotes /\ push.why = "none"
      /\ auth.scope # "Read"
  BY DEF Shape, TypeOK
<1>b. /\ push' \in PushType /\ push'.target = push.target /\ push'.why = "none"
      /\ push'.adv = push.adv
      /\ \/ push'.pc = "moveRef" /\ auth' = auth
         \/ /\ push'.pc = "auth"
            /\ auth' = [remote |-> push.target, scope |-> "Write", step |-> "start"]
  <2>1. CASE staged = {} /\ push.todo = {}
    BY <1>a, <2>1 DEF PushType
  <2>2. CASE ~(staged = {} /\ push.todo = {})
    <3>1. push' = [push EXCEPT !.pc = "auth", !.snap = staged, !.todo = push.todo \ staged,
                                 !.missed = push.missed \ staged]
      BY <2>2
    <3>2. /\ push.todo \ staged \in SUBSET Files /\ staged \in SUBSET Files
          /\ push.missed \ staged \in SUBSET Files
      BY <1>a DEF PushType
    <3>3. push' \in PushType
      BY <1>a, <3>1, <3>2 DEF PushType
    <3>4. /\ push'.pc = "auth" /\ push'.target = push.target /\ push'.why = push.why
          /\ push'.adv = push.adv
      BY <1>a, <3>1 DEF PushType
    <3>5. QED
      BY <1>a, <2>2, <3>3, <3>4
  <2>3. QED
    BY <2>1, <2>2
<1>1. TypeOK'
  BY <1>a, <1>b DEF TypeOK, Shape, PushType, Scopes, ScopeOf
<1>2. Shape'
  BY <1>a, <1>b DEF Shape, TypeOK, PushType
<1>3. DrainsUploaded'
  BY <1>a, <1>b DEF DrainsUploaded, OnTarget, ScopeOf, Scopes, TypeOK, Shape, PushType
<1>4. NamedSomewhere'
  BY <1>a, <1>b DEF NamedSomewhere, Somewhere, Scopes, ScopeOf, TypeOK, Shape, PushType
<1>5. Trailing' /\ SkewCounted'
  BY <1>a, <1>b DEF Trailing, SkewCounted, TypeOK, Shape, PushType
<1>6. AnonymousFirst' /\ PublicNeverPrompts'
  BY <1>a, <1>b DEF AnonymousFirst, PublicNeverPrompts, TypeOK, Shape, PushType, NoAuth
<1>7. QED
  BY <1>1, <1>2, <1>3, <1>4, <1>5, <1>6

(* A marker without a size ends the push. *)
LEMMA SizelessStep ==
    ASSUME PushInv, PushSizeless
    PROVE  PushInv'
<1> USE DEF PushInv, repoVars, authVars, PushSizeless, PushFails, NoAuth
<1>0. push' \in PushType /\ push'.pc = "idle" /\ push'.why = "failed" /\ push'.adv = {}
      /\ auth' = NoAuth /\ tok' = "none" /\ sess' = [r \in Remotes |-> "none"]
  BY OverFacts
<1>1. TypeOK'
  BY <1>0 DEF TypeOK, Shape, PushType, Scopes, ScopeOf
<1>2. Shape'
  BY <1>0 DEF Shape, TypeOK, PushType
<1>3. DrainsUploaded'
  BY <1>0 DEF DrainsUploaded, OnTarget, ScopeOf, Scopes, TypeOK, Shape, PushType
<1>4. NamedSomewhere'
  BY <1>0 DEF NamedSomewhere, Somewhere, Scopes, ScopeOf, TypeOK, Shape, PushType
<1>5. Trailing' /\ SkewCounted'
  BY <1>0 DEF Trailing, SkewCounted, TypeOK, Shape, PushType
<1>6. AnonymousFirst' /\ PublicNeverPrompts'
  BY <1>0 DEF AnonymousFirst, PublicNeverPrompts, TypeOK, Shape, PushType, NoAuth
<1>7. QED
  BY <1>1, <1>2, <1>3, <1>4, <1>5, <1>6

(* A staged file is cleaned into the upload. *)
LEMMA StagedStep ==
    ASSUME PushInv, NEW h \in Files, PushStaged(h)
    PROVE  PushInv'
<1> USE DEF PushInv, repoVars, authVars, PushStaged, Usable, Spend
<1>1. TypeOK'
  BY DEF TypeOK, Shape, PushType, Scopes, ScopeOf
<1>2. Shape'
  BY DEF Shape, TypeOK, PushType
<1>3. DrainsUploaded'
  BY DEF DrainsUploaded, OnTarget, ScopeOf, Scopes, TypeOK, Shape, PushType
<1>4. NamedSomewhere'
  BY DEF NamedSomewhere, Somewhere, Scopes, ScopeOf, TypeOK, Shape, PushType
<1>5. Trailing' /\ SkewCounted'
  BY DEF Trailing, SkewCounted, TypeOK, Shape, PushType
<1>6. AnonymousFirst' /\ PublicNeverPrompts'
  BY DEF AnonymousFirst, PublicNeverPrompts, TypeOK, Shape, PushType, NoAuth
<1>7. QED
  BY <1>1, <1>2, <1>3, <1>4, <1>5, <1>6

(* The target is asked for a file: only a file it has is passed over. *)
LEMMA ProbeStep ==
    ASSUME PushInv, NEW h \in Files, PushProbe(h)
    PROVE  PushInv'
<1> USE DEF PushInv, repoVars, authVars, PushProbe
<1>0. \/ push' = [push EXCEPT !.todo = @ \ {h}]
      \/ push' = [push EXCEPT !.pc = "source", !.file = h, !.cur = 1, !.todo = @ \ {h}]
  OBVIOUS
<1>a. push \in PushType /\ 1 \in 0..(Len(Order) + 1) /\ 1 \in 1..(Len(Order) + 1)
  BY OrderFacts DEF Shape
<1>b. push' \in PushType /\ (push'.pc = "source" => push'.cur = 1)
  <2>1. CASE push' = [push EXCEPT !.todo = @ \ {h}]
    BY <1>a, <2>1, SMTT(40) DEF PushType
  <2>2. CASE push' = [push EXCEPT !.pc = "source", !.file = h, !.cur = 1, !.todo = @ \ {h}]
    <3>1. push.todo \ {h} \in SUBSET Files
      BY <1>a DEF PushType
    <3>2. PICK rest \in SUBSET Files : rest = push.todo \ {h}
      BY <3>1
    <3>3. push' = [push EXCEPT !.pc = "source", !.file = h, !.cur = 1, !.todo = rest]
      BY <2>2, <3>2
    <3>4. QED
      BY <1>a, <3>3 DEF PushType
  <2>3. QED
    BY <1>0, <2>1, <2>2
<1>1. TypeOK'
  BY <1>0, <1>a, <1>b DEF TypeOK, Shape, PushType, Scopes, ScopeOf
<1>2. Shape'
  <2>1. /\ push.pc = "upload" /\ UNCHANGED <<auth, public>>
        /\ push'.target = push.target /\ push'.why = push.why
        /\ push'.pc = "upload" \/ (push'.pc = "source" /\ push'.file = h /\ push'.cur = 1)
    BY <1>0, <1>a DEF PushType
  <2>2. auth.scope # "Read" /\ push.target \in Remotes /\ push.why = "none"
    BY <2>1 DEF Shape
  <2>3. QED
    BY <1>a, <1>b, <2>1, <2>2 DEF Shape
<1>3. DrainsUploaded'
  BY <1>0, <1>a, <1>b DEF DrainsUploaded, OnTarget, ScopeOf, Scopes, TypeOK, Shape, PushType
<1>4. NamedSomewhere'
  BY <1>0, <1>a, <1>b DEF NamedSomewhere, Somewhere, Scopes, ScopeOf, TypeOK, Shape, PushType
<1>5. Trailing' /\ SkewCounted'
  BY <1>0, <1>a, <1>b DEF Trailing, SkewCounted, TypeOK, Shape, PushType
<1>6. AnonymousFirst' /\ PublicNeverPrompts'
  BY <1>0, <1>a, <1>b DEF AnonymousFirst, PublicNeverPrompts, TypeOK, Shape, PushType, NoAuth
<1>7. QED
  BY <1>1, <1>2, <1>3, <1>4, <1>5, <1>6

(* A dead source is passed over. *)
LEMMA SourceDeadStep ==
    ASSUME PushInv, SourceDead
    PROVE  PushInv'
<1> USE DEF PushInv, repoVars, authVars, SourceDead
<1>0. push' \in PushType /\ push'.cur \in 1..(Len(Order) + 1)
  BY NextSource
<1>1. TypeOK'
  BY <1>0 DEF TypeOK, Shape, PushType, Scopes, ScopeOf
<1>2. Shape'
  BY <1>0 DEF Shape, TypeOK, PushType
<1>3. DrainsUploaded'
  BY <1>0 DEF DrainsUploaded, OnTarget, ScopeOf, Scopes, TypeOK, Shape, PushType
<1>4. NamedSomewhere'
  BY <1>0 DEF NamedSomewhere, Somewhere, Scopes, ScopeOf, TypeOK, Shape, PushType
<1>5. Trailing' /\ SkewCounted'
  BY <1>0 DEF Trailing, SkewCounted, TypeOK, Shape, PushType
<1>6. AnonymousFirst' /\ PublicNeverPrompts'
  BY <1>0 DEF AnonymousFirst, PublicNeverPrompts, TypeOK, Shape, PushType, NoAuth
<1>7. QED
  BY <1>1, <1>2, <1>3, <1>4, <1>5, <1>6

(* A source's session is to be built. *)
LEMMA SourceBuildStep ==
    ASSUME PushInv, SourceBuild
    PROVE  PushInv'
<1> USE DEF PushInv, repoVars, authVars, SourceBuild, Source
<1>0. push.cur \in 1..Len(Order) /\ Order[push.cur] \in Remotes
  BY OrderFacts DEF Shape
<1>1. TypeOK'
  BY <1>0 DEF TypeOK, Shape, PushType, Scopes, ScopeOf
<1>2. Shape'
  BY <1>0 DEF Shape, TypeOK, PushType
<1>3. DrainsUploaded'
  BY <1>0 DEF DrainsUploaded, OnTarget, ScopeOf, Scopes, TypeOK, Shape, PushType
<1>4. NamedSomewhere'
  BY <1>0 DEF NamedSomewhere, Somewhere, Scopes, ScopeOf, TypeOK, Shape, PushType
<1>5. Trailing' /\ SkewCounted'
  BY <1>0 DEF Trailing, SkewCounted, TypeOK, Shape, PushType
<1>6. AnonymousFirst' /\ PublicNeverPrompts'
  BY <1>0 DEF AnonymousFirst, PublicNeverPrompts, TypeOK, Shape, PushType, NoAuth
<1>7. QED
  BY <1>1, <1>2, <1>3, <1>4, <1>5, <1>6

(* A source gives the file. *)
LEMMA SourceGivesStep ==
    ASSUME PushInv, SourceGives
    PROVE  PushInv'
<1> USE DEF PushInv, repoVars, authVars, SourceGives, Usable, Spend
<1>1. TypeOK'
  BY DEF TypeOK, Shape, PushType, Scopes, ScopeOf
<1>2. Shape'
  BY DEF Shape, TypeOK, PushType
<1>3. DrainsUploaded'
  BY DEF DrainsUploaded, OnTarget, ScopeOf, Scopes, TypeOK, Shape, PushType
<1>4. NamedSomewhere'
  BY DEF NamedSomewhere, Somewhere, Scopes, ScopeOf, TypeOK, Shape, PushType
<1>5. Trailing' /\ SkewCounted'
  BY DEF Trailing, SkewCounted, TypeOK, Shape, PushType
<1>6. AnonymousFirst' /\ PublicNeverPrompts'
  BY DEF AnonymousFirst, PublicNeverPrompts, TypeOK, Shape, PushType, NoAuth
<1>7. QED
  BY <1>1, <1>2, <1>3, <1>4, <1>5, <1>6

(* A source lacks the file. *)
LEMMA SourceLacksStep ==
    ASSUME PushInv, SourceLacks
    PROVE  PushInv'
<1> USE DEF PushInv, repoVars, authVars, SourceLacks
<1>0. push' \in PushType /\ push'.cur \in 1..(Len(Order) + 1)
  BY NextSource
<1>1. TypeOK'
  BY <1>0 DEF TypeOK, Shape, PushType, Scopes, ScopeOf
<1>2. Shape'
  BY <1>0 DEF Shape, TypeOK, PushType
<1>3. DrainsUploaded'
  BY <1>0 DEF DrainsUploaded, OnTarget, ScopeOf, Scopes, TypeOK, Shape, PushType
<1>4. NamedSomewhere'
  BY <1>0 DEF NamedSomewhere, Somewhere, Scopes, ScopeOf, TypeOK, Shape, PushType
<1>5. Trailing' /\ SkewCounted'
  BY <1>0 DEF Trailing, SkewCounted, TypeOK, Shape, PushType
<1>6. AnonymousFirst' /\ PublicNeverPrompts'
  BY <1>0 DEF AnonymousFirst, PublicNeverPrompts, TypeOK, Shape, PushType, NoAuth
<1>7. QED
  BY <1>1, <1>2, <1>3, <1>4, <1>5, <1>6

(* No source is left: the push fails. *)
LEMMA NoSourceStep ==
    ASSUME PushInv, NoSource
    PROVE  PushInv'
<1> USE DEF PushInv, repoVars, authVars, NoSource, PushFails, NoAuth
<1>0. push' \in PushType /\ push'.pc = "idle" /\ push'.why = "failed" /\ push'.adv = {}
      /\ auth' = NoAuth /\ tok' = "none" /\ sess' = [r \in Remotes |-> "none"]
  BY OverFacts
<1>1. TypeOK'
  BY <1>0 DEF TypeOK, Shape, PushType, Scopes, ScopeOf
<1>2. Shape'
  BY <1>0 DEF Shape, TypeOK, PushType
<1>3. DrainsUploaded'
  BY <1>0 DEF DrainsUploaded, OnTarget, ScopeOf, Scopes, TypeOK, Shape, PushType
<1>4. NamedSomewhere'
  BY <1>0 DEF NamedSomewhere, Somewhere, Scopes, ScopeOf, TypeOK, Shape, PushType
<1>5. Trailing' /\ SkewCounted'
  BY <1>0 DEF Trailing, SkewCounted, TypeOK, Shape, PushType
<1>6. AnonymousFirst' /\ PublicNeverPrompts'
  BY <1>0 DEF AnonymousFirst, PublicNeverPrompts, TypeOK, Shape, PushType, NoAuth
<1>7. QED
  BY <1>1, <1>2, <1>3, <1>4, <1>5, <1>6

(* The shard registers what was cleaned, under the target. *)
LEMMA FinalizeStep ==
    ASSUME PushInv, PushFinalize
    PROVE  PushInv'
<1> USE DEF PushInv, repoVars, authVars, PushFinalize, RegistersUnder, Usable, Spend
<1>0. unread' \subseteq unread
  BY DEF StillUnread
<1>1. TypeOK'
  BY <1>0 DEF TypeOK, Shape, PushType, Scopes, ScopeOf
<1>2. Shape'
  BY DEF Shape, TypeOK, PushType
<1>3. DrainsUploaded'
  BY DEF DrainsUploaded, OnTarget, ScopeOf, Scopes, TypeOK, Shape, PushType
<1>4. NamedSomewhere'
  BY DEF NamedSomewhere, Somewhere, Scopes, ScopeOf, TypeOK, Shape, PushType
<1>5. Trailing' /\ SkewCounted'
  BY DEF Trailing, SkewCounted, TypeOK, Shape, PushType
<1>6. AnonymousFirst' /\ PublicNeverPrompts'
  BY DEF AnonymousFirst, PublicNeverPrompts, TypeOK, Shape, PushType, NoAuth
<1>7. QED
  BY <1>1, <1>2, <1>3, <1>4, <1>5, <1>6

(* A request fails: what was registered by then stays. *)
LEMMA RequestFailsStep ==
    ASSUME PushInv, PushRequestFails
    PROVE  PushInv'
<1> USE DEF PushInv, repoVars, authVars, PushRequestFails, RegistersUnder, PushFails, NoAuth
<1>0. push' \in PushType /\ push'.pc = "idle" /\ push'.why = "failed" /\ push'.adv = {}
      /\ auth' = NoAuth /\ tok' = "none" /\ sess' = [r \in Remotes |-> "none"]
  BY OverFacts
<1>a. unread' \subseteq unread
  BY DEF StillUnread
<1>1. TypeOK'
  BY <1>0, <1>a DEF TypeOK, Shape, PushType, Scopes, ScopeOf
<1>2. Shape'
  BY <1>0 DEF Shape, TypeOK, PushType
<1>3. DrainsUploaded'
  BY <1>0 DEF DrainsUploaded, OnTarget, ScopeOf, Scopes, TypeOK, Shape, PushType
<1>4. NamedSomewhere'
  BY <1>0 DEF NamedSomewhere, Somewhere, Scopes, ScopeOf, TypeOK, Shape, PushType
<1>5. Trailing' /\ SkewCounted'
  BY <1>0 DEF Trailing, SkewCounted, TypeOK, Shape, PushType
<1>6. AnonymousFirst' /\ PublicNeverPrompts'
  BY <1>0 DEF AnonymousFirst, PublicNeverPrompts, TypeOK, Shape, PushType, NoAuth
<1>7. QED
  BY <1>1, <1>2, <1>3, <1>4, <1>5, <1>6

(* The drain removes what the target has. *)
LEMMA DrainStep ==
    ASSUME PushInv, PushDrain
    PROVE  PushInv'
<1> USE DEF PushInv, repoVars, authVars, PushDrain
<1>0. Somewhere \subseteq Somewhere'
  <2>1. ScopeOf(push.target) \in Scopes
    BY DEF ScopeOf, Scopes, Shape
  <2>2. push.snap \subseteq server[ScopeOf(push.target)]
    BY DEF DrainsUploaded, OnTarget
  <2>3. QED
    BY <2>1, <2>2, SomewhereGrows
<1>1. TypeOK'
  BY DEF TypeOK, Shape, PushType, Scopes, ScopeOf
<1>2. Shape'
  BY DEF Shape, TypeOK, PushType
<1>3. DrainsUploaded'
  BY DEF DrainsUploaded, OnTarget, ScopeOf, Scopes, TypeOK, Shape, PushType
<1>4. NamedSomewhere'
  BY <1>0 DEF NamedSomewhere, TypeOK, Shape, PushType
<1>5. Trailing' /\ SkewCounted'
  BY DEF Trailing, SkewCounted, TypeOK, Shape, PushType
<1>6. AnonymousFirst' /\ PublicNeverPrompts'
  BY DEF AnonymousFirst, PublicNeverPrompts, TypeOK, Shape, PushType, NoAuth
<1>7. QED
  BY <1>1, <1>2, <1>3, <1>4, <1>5, <1>6

(* git moves the ref. *)
LEMMA PushedStep ==
    ASSUME PushInv, GitPushed
    PROVE  PushInv'
<1> USE DEF PushInv, repoVars, authVars, GitPushed, NoAuth
<1>0. push' \in PushType /\ push'.pc = "idle" /\ push'.why = "none" /\ push'.adv = {}
      /\ auth' = NoAuth /\ tok' = "none" /\ sess' = [r \in Remotes |-> "none"]
  BY OverFacts
<1>a. \/ refs' = refs /\ unread' = unread
      \/ /\ refs' = [refs EXCEPT ![push.target] = @ \cup push.adv]
         /\ unread' = unread \cup ({push.target} \X (push.missed \ OnTarget))
  BY DEF OnTarget
<1>b. push.target \in Remotes /\ push.adv \subseteq Files /\ push.missed \subseteq Files
  BY DEF Shape, PushType
<1>c. unread' \subseteq Remotes \X Files
  <2>1. unread \subseteq Remotes \X Files
    BY DEF TypeOK
  <2>2. {push.target} \X (push.missed \ OnTarget) \subseteq Remotes \X Files
    BY ONLY <1>b
  <2>3. QED
    BY ONLY <1>a, <2>1, <2>2
<1>d. refs' \in [Remotes -> SUBSET Files]
  BY <1>a, <1>b DEF TypeOK
<1>u. UNCHANGED <<literal, public, local, staged, server, expired, mints, prompted>>
  OBVIOUS
<1>1. TypeOK'
  BY <1>0, <1>c, <1>d, <1>u DEF TypeOK, Scopes, PushType
<1>2. Shape'
  BY <1>0, <1>a, <1>b DEF Shape, TypeOK, PushType
<1>3. DrainsUploaded'
  BY <1>0, <1>a, <1>b DEF DrainsUploaded, OnTarget, ScopeOf, Scopes, TypeOK, Shape, PushType
<1>4. NamedSomewhere'
  BY <1>0, <1>a, <1>b, <1>u DEF NamedSomewhere, Somewhere, Scopes, OnTarget, ScopeOf, TypeOK, Shape, PushType
<1>5. Trailing' /\ SkewCounted'
  BY <1>0, <1>a, <1>b DEF Trailing, SkewCounted, TypeOK, Shape, PushType
<1>6. AnonymousFirst' /\ PublicNeverPrompts'
  BY <1>0, <1>a, <1>b DEF AnonymousFirst, PublicNeverPrompts, TypeOK, Shape, PushType, NoAuth
<1>7. QED
  BY <1>1, <1>2, <1>3, <1>4, <1>5, <1>6

-----------------------------------------------------------------------------
(* The resolver and the upload token. *)

(* A call returns a token. *)
LEMMA ResolvedStep ==
    ASSUME PushInv, auth.step # "idle", Resolved
    PROVE  PushInv'
<1> USE DEF PushInv, repoVars, authVars, Resolved, NoAuth
<1>0. auth.remote \in Remotes /\ push.pc = "auth" /\ push \in PushType /\ push.why = "none"
      /\ auth.scope \in {"Read", "Write"}
  BY DEF Shape, TypeOK
<1>a. push' \in PushType /\ push'.adv = push.adv /\ push'.pc \in {"upload", "source"}
      /\ push'.why = "none" /\ push'.target = push.target /\ push'.file = push.file
      /\ push'.cur = push.cur /\ (push'.pc = "source" => auth.scope = "Read")
      /\ tok' \in {tok, "good", "lapsed"}
      /\ sess' \in [Remotes -> {"none", "built", "dead"}]
  BY <1>0 DEF PushType, TypeOK
<1>b. push'.pc = "source" => push'.cur \in 1..(Len(Order) + 1)
  BY <1>0, <1>a, OrderFacts DEF Shape
<1>1. TypeOK'
  BY <1>0, <1>a, <1>b DEF TypeOK, Shape, PushType, Scopes, ScopeOf
<1>2. Shape'
  BY <1>0, <1>a, <1>b DEF Shape, TypeOK, PushType
<1>3. DrainsUploaded'
  BY <1>0, <1>a, <1>b DEF DrainsUploaded, OnTarget, ScopeOf, Scopes, TypeOK, Shape, PushType
<1>4. NamedSomewhere'
  BY <1>0, <1>a, <1>b DEF NamedSomewhere, Somewhere, Scopes, ScopeOf, TypeOK, Shape, PushType
<1>5. Trailing' /\ SkewCounted'
  BY <1>0, <1>a, <1>b DEF Trailing, SkewCounted, TypeOK, Shape, PushType
<1>6. AnonymousFirst' /\ PublicNeverPrompts'
  BY <1>0, <1>a, <1>b DEF AnonymousFirst, PublicNeverPrompts, TypeOK, Shape, PushType, NoAuth
<1>7. QED
  BY <1>1, <1>2, <1>3, <1>4, <1>5, <1>6

(* A call fails: the push ends, or the source is dead. *)
LEMMA ResolveFailsStep ==
    ASSUME PushInv, ResolveFails
    PROVE  PushInv'
<1> USE DEF PushInv, repoVars, authVars, ResolveFails, PushFails, NoAuth
<1>0. CASE auth.scope = "Write"
  <2>0. push' \in PushType /\ push'.pc = "idle" /\ push'.why = "failed" /\ push'.adv = {}
        /\ auth' = NoAuth /\ tok' = "none" /\ sess' = [r \in Remotes |-> "none"]
    BY <1>0, OverFacts
<2>1. TypeOK'
    BY <1>0, <2>0 DEF TypeOK, Shape, PushType, Scopes, ScopeOf
  <2>2. Shape'
    BY <1>0, <2>0 DEF Shape, TypeOK, PushType
  <2>3. DrainsUploaded'
    BY <1>0, <2>0 DEF DrainsUploaded, OnTarget, ScopeOf, Scopes, TypeOK, Shape, PushType
  <2>4. NamedSomewhere'
    BY <1>0, <2>0 DEF NamedSomewhere, Somewhere, Scopes, ScopeOf, TypeOK, Shape, PushType
  <2>5. Trailing' /\ SkewCounted'
    BY <1>0, <2>0 DEF Trailing, SkewCounted, TypeOK, Shape, PushType
  <2>6. AnonymousFirst' /\ PublicNeverPrompts'
    BY <1>0, <2>0 DEF AnonymousFirst, PublicNeverPrompts, TypeOK, Shape, PushType, NoAuth
  <2>7. QED
    BY <2>1, <2>2, <2>3, <2>4, <2>5, <2>6
<1>1. CASE auth.scope # "Write"
  <2>0. auth.scope = "Read" /\ push.pc = "auth" /\ auth.remote \in Remotes
    BY <1>1 DEF Shape, TypeOK
  <2>a. push' \in PushType /\ push'.adv = push.adv /\ push'.pc = "source"
        /\ push'.why = "none" /\ push'.target = push.target /\ push'.file = push.file
        /\ push'.cur = push.cur /\ sess' \in [Remotes -> {"none", "built", "dead"}]
    <3>1. /\ push' = [push EXCEPT !.pc = "source"]
          /\ sess' = [sess EXCEPT ![auth.remote] = "dead"]
      BY <1>1
    <3>2. /\ push \in PushType /\ push.why = "none"
          /\ sess \in [Remotes -> {"none", "built", "dead"}]
      BY <2>0 DEF Shape, TypeOK
    <3>3. QED
      BY <3>1, <3>2 DEF PushType
  <2>b. push'.cur \in 1..(Len(Order) + 1)
    BY <2>0, <2>a, OrderFacts DEF Shape
<2>1. TypeOK'
    BY <1>1, <2>0, <2>a, <2>b DEF TypeOK, Shape, PushType, Scopes, ScopeOf
  <2>2. Shape'
    BY <1>1, <2>0, <2>a, <2>b DEF Shape, TypeOK, PushType
  <2>3. DrainsUploaded'
    BY <1>1, <2>0, <2>a, <2>b DEF DrainsUploaded, OnTarget, ScopeOf, Scopes, TypeOK, Shape, PushType
  <2>4. NamedSomewhere'
    BY <1>1, <2>0, <2>a, <2>b DEF NamedSomewhere, Somewhere, Scopes, ScopeOf, TypeOK, Shape, PushType
  <2>5. Trailing' /\ SkewCounted'
    BY <1>1, <2>0, <2>a, <2>b DEF Trailing, SkewCounted, TypeOK, Shape, PushType
  <2>6. AnonymousFirst' /\ PublicNeverPrompts'
    BY <1>1, <2>0, <2>a, <2>b DEF AnonymousFirst, PublicNeverPrompts, TypeOK, Shape, PushType, NoAuth
  <2>7. QED
    BY <2>1, <2>2, <2>3, <2>4, <2>5, <2>6
<1>2. QED
  BY <1>0, <1>1

(* A call starts: a read over HTTP is tried without credentials. *)
LEMMA StartStep ==
    ASSUME PushInv, ResolveStart
    PROVE  PushInv'
<1> USE DEF PushInv, repoVars, authVars, ResolveStart
<1>0. CASE literal = "both"
  BY <1>0, ResolvedStep DEF Resolved
<1>1. CASE literal # "both"
  <2>0. /\ auth' = [auth EXCEPT !.step = IF auth.remote \in Ssh THEN "ssh"
                                         ELSE IF auth.scope = "Read" THEN "anon" ELSE "creds"]
        /\ UNCHANGED <<repoVars, push, tok, expired, mints, sess, prompted>>
    BY <1>1 DEF AuthGoto
<2>1. TypeOK'
    BY <2>0 DEF TypeOK, Shape, PushType, Scopes, ScopeOf
  <2>2. Shape'
    BY <2>0 DEF Shape, TypeOK, PushType
  <2>3. DrainsUploaded'
    BY <2>0 DEF DrainsUploaded, OnTarget, ScopeOf, Scopes, TypeOK, Shape, PushType
  <2>4. NamedSomewhere'
    BY <2>0 DEF NamedSomewhere, Somewhere, Scopes, ScopeOf, TypeOK, Shape, PushType
  <2>5. Trailing' /\ SkewCounted'
    BY <2>0 DEF Trailing, SkewCounted, TypeOK, Shape, PushType
  <2>6. AnonymousFirst' /\ PublicNeverPrompts'
    BY <2>0 DEF AnonymousFirst, PublicNeverPrompts, TypeOK, Shape, PushType, NoAuth
  <2>7. QED
    BY <2>1, <2>2, <2>3, <2>4, <2>5, <2>6
<1>2. QED
  BY <1>0, <1>1

(* A call over SSH. *)
LEMMA SshStep ==
    ASSUME PushInv, AuthSsh
    PROVE  PushInv'
<1> USE DEF PushInv, repoVars, authVars, AuthSsh, AuthGoto
<1>1. TypeOK'
  BY DEF TypeOK, Shape, PushType, Scopes, ScopeOf
<1>2. Shape'
  BY DEF Shape, TypeOK, PushType
<1>3. DrainsUploaded'
  BY DEF DrainsUploaded, OnTarget, ScopeOf, Scopes, TypeOK, Shape, PushType
<1>4. NamedSomewhere'
  BY DEF NamedSomewhere, Somewhere, Scopes, ScopeOf, TypeOK, Shape, PushType
<1>5. Trailing' /\ SkewCounted'
  BY DEF Trailing, SkewCounted, TypeOK, Shape, PushType
<1>6. AnonymousFirst' /\ PublicNeverPrompts'
  BY DEF AnonymousFirst, PublicNeverPrompts, TypeOK, Shape, PushType, NoAuth
<1>7. QED
  BY <1>1, <1>2, <1>3, <1>4, <1>5, <1>6

(* The anonymous probe: a public remote grants it. *)
LEMMA AnonymousStep ==
    ASSUME PushInv, AuthAnonymous
    PROVE  PushInv'
<1> USE DEF PushInv, repoVars, authVars, AuthAnonymous, AuthGoto
<1>1. TypeOK'
  BY DEF TypeOK, Shape, PushType, Scopes, ScopeOf
<1>2. Shape'
  BY DEF Shape, TypeOK, PushType
<1>3. DrainsUploaded'
  BY DEF DrainsUploaded, OnTarget, ScopeOf, Scopes, TypeOK, Shape, PushType
<1>4. NamedSomewhere'
  BY DEF NamedSomewhere, Somewhere, Scopes, ScopeOf, TypeOK, Shape, PushType
<1>5. Trailing' /\ SkewCounted'
  BY DEF Trailing, SkewCounted, TypeOK, Shape, PushType
<1>6. AnonymousFirst' /\ PublicNeverPrompts'
  BY DEF AnonymousFirst, PublicNeverPrompts, TypeOK, Shape, PushType, NoAuth
<1>7. QED
  BY <1>1, <1>2, <1>3, <1>4, <1>5, <1>6

(* Credentials are asked for, never to read from a public remote. *)
LEMMA CredentialsStep ==
    ASSUME PushInv, AuthCredentials
    PROVE  PushInv'
<1> USE DEF PushInv, repoVars, authVars, AuthCredentials, AuthGoto
<1>0. <<auth.remote, auth.scope>> \in Remotes \X {"Read", "Write"}
  BY DEF Shape
<1>a. \A r \in public : <<r, "Read">> # <<auth.remote, auth.scope>>
  BY DEF AnonymousFirst
<1>b. prompted' \subseteq Remotes \X {"Read", "Write"}
  BY <1>0 DEF TypeOK
<1>1. TypeOK'
  BY <1>a, <1>b DEF TypeOK, Shape, PushType, Scopes, ScopeOf
<1>2. Shape'
  BY <1>a, <1>b DEF Shape, TypeOK, PushType
<1>3. DrainsUploaded'
  BY <1>a, <1>b DEF DrainsUploaded, OnTarget, ScopeOf, Scopes, TypeOK, Shape, PushType
<1>4. NamedSomewhere'
  BY <1>a, <1>b DEF NamedSomewhere, Somewhere, Scopes, ScopeOf, TypeOK, Shape, PushType
<1>5. Trailing' /\ SkewCounted'
  BY <1>a, <1>b DEF Trailing, SkewCounted, TypeOK, Shape, PushType
<1>6. AnonymousFirst' /\ PublicNeverPrompts'
  BY <1>a, <1>b DEF AnonymousFirst, PublicNeverPrompts, TypeOK, Shape, PushType, NoAuth
<1>7. QED
  BY <1>1, <1>2, <1>3, <1>4, <1>5, <1>6

(* The upload token lapses. *)
LEMMA LapseStep ==
    ASSUME PushInv, TokenLapses
    PROVE  PushInv'
<1> USE DEF PushInv, repoVars, authVars, TokenLapses
<1>1. TypeOK'
  BY DEF TypeOK, Shape, PushType, Scopes, ScopeOf
<1>2. Shape'
  BY DEF Shape, TypeOK, PushType
<1>3. DrainsUploaded'
  BY DEF DrainsUploaded, OnTarget, ScopeOf, Scopes, TypeOK, Shape, PushType
<1>4. NamedSomewhere'
  BY DEF NamedSomewhere, Somewhere, Scopes, ScopeOf, TypeOK, Shape, PushType
<1>5. Trailing' /\ SkewCounted'
  BY DEF Trailing, SkewCounted, TypeOK, Shape, PushType
<1>6. AnonymousFirst' /\ PublicNeverPrompts'
  BY DEF AnonymousFirst, PublicNeverPrompts, TypeOK, Shape, PushType, NoAuth
<1>7. QED
  BY <1>1, <1>2, <1>3, <1>4, <1>5, <1>6

(* A bounded sequence that drops its first element for one more at the end. *)
LEMMA SlideFacts ==
    ASSUME NEW S, NEW s \in Seq(S), NEW v \in S, NEW N \in Nat, Len(s) <= N + 1, NEW t,
           t = IF Len(Append(s, v)) > N + 1 THEN Tail(Append(s, v)) ELSE Append(s, v)
    PROVE  /\ t \in Seq(S) /\ Len(t) \in Nat /\ Len(t) <= N + 1 /\ t[Len(t)] = v
           /\ \/ Len(t) = Len(s) + 1 /\ \A i \in 1..Len(s) : t[i] = s[i]
              \/ Len(t) = Len(s) /\ Len(s) = N + 1 /\ \A i \in 1..(Len(s) - 1) : t[i] = s[i + 1]
<1> DEFINE m == Append(s, v)
<1>1. /\ m \in Seq(S) /\ Len(m) = Len(s) + 1 /\ m[Len(s) + 1] = v /\ Len(s) \in Nat
      /\ \A i \in 1..Len(s) : m[i] = s[i]
  OBVIOUS
<1>2. CASE Len(m) > N + 1
  <2> HIDE DEF m
  <2>1. Len(s) = N + 1 /\ t = Tail(m)
    BY <1>1, <1>2 DEF m
  <2>2. /\ t \in Seq(S) /\ Len(t) = Len(s)
        /\ \A i \in 1..Len(s) : t[i] = m[i + 1]
    <3>1. m \in Seq(S) /\ m # <<>> /\ Len(m) = Len(s) + 1
      BY <1>1
    <3>2. /\ Tail(m) \in Seq(S) /\ Len(Tail(m)) = Len(m) - 1
          /\ \A i \in 1..(Len(m) - 1) : Tail(m)[i] = m[i + 1]
      BY <3>1
    <3>3. QED
      BY <1>1, <2>1, <3>1, <3>2
  <2>3. QED
    BY <1>1, <2>1, <2>2
<1>3. CASE ~(Len(m) > N + 1)
  BY <1>1, <1>3
<1>4. QED
  BY <1>2, <1>3

(* The count of the bad ones at the end, when one more is added ... *)
LEMMA CountAdds ==
    ASSUME NEW s, NEW t, NEW a \in Nat, NEW n \in Nat, NEW ok, NEW bad, Count(s, a, n, bad, ok),
           t[a + 1] = bad, \A i \in 1..a : t[i] = s[i]
    PROVE  Count(t, a + 1, n + 1, bad, ok)
BY DEF Count

(* ... and when the first one also goes. *)
LEMMA CountSlides ==
    ASSUME NEW s, NEW t, NEW a \in Nat, NEW n \in Nat, NEW ok, NEW bad, Count(s, a, n, bad, ok),
           t[a] = bad, \A i \in 1..(a - 1) : t[i] = s[i + 1],
           NEW k \in Nat, k = IF n = a THEN n ELSE n + 1
    PROVE  Count(t, a, k, bad, ok)
<1>1. k <= a
  BY DEF Count
<1>2. ASSUME NEW i \in 1..a, i > a - k PROVE t[i] = bad
  <2>1. CASE i = a
    BY <2>1
  <2>2. CASE i # a
    <3>1. i \in 1..(a - 1) /\ i + 1 \in 1..a /\ i + 1 > a - n
      BY <1>2, <2>2
    <3>2. s[i + 1] = bad
      BY <3>1 DEF Count
    <3>3. QED
      BY <3>1, <3>2
  <2>3. QED
    BY <2>1, <2>2
<1>3. ASSUME k < a PROVE t[a - k] = ok
  <2>1. n < a /\ a - k \in 1..(a - 1) /\ (a - k) + 1 = a - n
    BY <1>3 DEF Count
  <2>2. s[a - n] = ok
    BY <2>1 DEF Count
  <2>3. t[a - k] = s[(a - k) + 1]
    BY <2>1
  <2>4. QED
    BY <2>1, <2>2, <2>3
<1>4. QED
  BY <1>1, <1>2, <1>3 DEF Count

(* None at the end. *)
LEMMA CountNone ==
    ASSUME NEW t, NEW a \in Nat, NEW ok, NEW bad, t[a] = ok
    PROVE  Count(t, a, 0, bad, ok)
<1>1. 0 <= a /\ a - 0 = a /\ \A i \in 1..a : ~(i > a)
  OBVIOUS
<1>2. QED
  BY <1>1 DEF Count

(* The same of a bounded sequence. *)
LEMMA CountFacts ==
    ASSUME NEW S, NEW ok \in S, NEW bad \in S, NEW s \in Seq(S), NEW v \in S, NEW N \in Nat,
           ok # bad, v = ok \/ v = bad, Len(s) <= N + 1, NEW n \in 0..(N + 1),
           Count(s, Len(s), n, bad, ok),
           NEW t, t = IF Len(Append(s, v)) > N + 1 THEN Tail(Append(s, v)) ELSE Append(s, v),
           NEW k, k = IF v = ok THEN 0 ELSE IF n > N THEN n ELSE n + 1
    PROVE  /\ t \in Seq(S) /\ Len(t) <= N + 1
           /\ k \in 0..(N + 1) /\ Count(t, Len(t), k, bad, ok)
<1>1. Len(s) \in Nat /\ n <= Len(s) /\ n \in Nat
  BY DEF Count
<1>2. /\ t \in Seq(S) /\ Len(t) \in Nat /\ Len(t) <= N + 1 /\ t[Len(t)] = v
      /\ \/ Len(t) = Len(s) + 1 /\ \A i \in 1..Len(s) : t[i] = s[i]
         \/ Len(t) = Len(s) /\ Len(s) = N + 1 /\ \A i \in 1..(Len(s) - 1) : t[i] = s[i + 1]
  BY SlideFacts, SMTT(40)
<1>3. k \in 0..(N + 1)
  OBVIOUS
<1>4. CASE v = ok
  <2>1. k = 0 /\ t[Len(t)] = ok /\ Len(t) - 0 = Len(t)
    BY <1>2, <1>4
  <2>2. Count(t, Len(t), 0, bad, ok)
    BY <1>2, <2>1, CountNone
  <2>3. QED
    BY <1>2, <1>3, <2>1, <2>2
<1>5. CASE v = bad /\ Len(t) = Len(s) + 1 /\ \A i \in 1..Len(s) : t[i] = s[i]
  <2>1. k = n + 1
    BY <1>1, <1>2, <1>5
  <2>2. Count(t, Len(s) + 1, n + 1, bad, ok)
    BY <1>1, <1>2, <1>5, CountAdds
  <2>3. QED
    BY <1>2, <1>3, <1>5, <2>1, <2>2
<1>6. CASE v = bad /\ Len(t) = Len(s) /\ Len(s) = N + 1
           /\ \A i \in 1..(Len(s) - 1) : t[i] = s[i + 1]
  <2>1. k = (IF n = Len(s) THEN n ELSE n + 1) /\ k \in Nat /\ n \in Nat
    BY <1>1, <1>6
  <2>2. Count(t, Len(s), k, bad, ok)
    <3>1. PICK a \in Nat : a = Len(s)
      BY <1>1
    <3>2. /\ Count(s, a, n, bad, ok) /\ t[a] = bad /\ \A i \in 1..(a - 1) : t[i] = s[i + 1]
          /\ k = (IF n = a THEN n ELSE n + 1)
      BY <1>2, <1>6, <2>1, <3>1, Zenon
    <3>3. Count(t, a, k, bad, ok)
      BY <2>1, <3>2, CountSlides, Zenon
    <3>4. QED
      BY <3>1, <3>3, Zenon
  <2>3. QED
    BY <1>2, <1>3, <1>6, <2>2
<1>7. QED
  BY <1>2, <1>4, <1>5, <1>6

(* One more mint. *)
LEMMA MintFacts ==
    ASSUME TypeOK, Trailing, NEW good \in BOOLEAN,
           mints' = LET m == Append(mints, good)
                    IN  IF Len(m) > MaxExpired + 1 THEN Tail(m) ELSE m,
           expired' = IF good THEN 0 ELSE IF expired > MaxExpired THEN expired ELSE expired + 1
    PROVE  /\ mints' \in Seq(BOOLEAN) /\ Len(mints') <= MaxExpired + 1
           /\ expired' \in 0..(MaxExpired + 1) /\ Trailing'
<1>1. /\ MaxExpired \in Nat /\ expired \in 0..(MaxExpired + 1)
      /\ mints \in Seq(BOOLEAN) /\ Len(mints) <= MaxExpired + 1
      /\ Count(mints, Len(mints), expired, FALSE, TRUE)
  BY RemoteAssumption DEF TypeOK, Trailing
<1>2. /\ TRUE \in BOOLEAN /\ FALSE \in BOOLEAN /\ TRUE # FALSE /\ (good = TRUE \/ good = FALSE)
  OBVIOUS
<1>3. expired' = IF good = TRUE THEN 0 ELSE IF expired > MaxExpired THEN expired ELSE expired + 1
  BY <1>2, Zenon
<1>4. mints' = IF Len(Append(mints, good)) > MaxExpired + 1
                 THEN Tail(Append(mints, good)) ELSE Append(mints, good)
  BY Zenon
<1>5. /\ mints' \in Seq(BOOLEAN) /\ Len(mints') <= MaxExpired + 1
      /\ expired' \in 0..(MaxExpired + 1) /\ Count(mints', Len(mints'), expired', FALSE, TRUE)
  BY <1>1, <1>2, <1>3, <1>4, CountFacts, Zenon
<1>6. QED
  BY <1>5, Zenon DEF Trailing

(* The upload token is minted again: the clocks are blamed only when the   *)
(* count says so.                                                          *)
LEMMA RefreshStep ==
    ASSUME PushInv, Refresh
    PROVE  PushInv'
<1> USE DEF PushInv, repoVars
<1>1. PICK good \in BOOLEAN : Minted(good, 0)
  BY DEF Refresh
<1>2. /\ mints' \in Seq(BOOLEAN) /\ Len(mints') <= MaxExpired + 1
      /\ expired' \in 0..(MaxExpired + 1) /\ Trailing'
  BY <1>1, MintFacts DEF Minted
<1>3. /\ UNCHANGED <<repoVars, prompted>> /\ tok = "lapsed" /\ push.pc \in {"upload", "source"}
      /\ MaxExpired \in Nat /\ expired \in 0..(MaxExpired + 1)
  BY RemoteAssumption DEF Refresh, Requests, TypeOK
<1>4. push \in PushType /\ push.why = "none" /\ auth.scope # "Read" /\ auth.step = "idle"
  BY <1>3 DEF Shape, TypeOK
<1>5. CASE good \/ expired < MaxExpired
  <2>1. /\ tok' \in {"good", "suspect"} /\ UNCHANGED <<push, auth, sess>>
        /\ expired' <= MaxExpired
    BY <1>1, <1>3, <1>5 DEF Minted
  <2>2. TypeOK' /\ Shape'
    BY <1>2, <1>3, <2>1 DEF TypeOK, Shape, Scopes
  <2>3. DrainsUploaded' /\ NamedSomewhere' /\ AnonymousFirst' /\ PublicNeverPrompts'
    BY <1>3, <2>1 DEF DrainsUploaded, OnTarget, ScopeOf, NamedSomewhere, Somewhere, Scopes,
                      AnonymousFirst, PublicNeverPrompts
  <2>4. SkewCounted'
    BY <1>4, <2>1 DEF SkewCounted
  <2>5. QED
    BY <1>2, <2>2, <2>3, <2>4
<1>6. CASE ~(good \/ expired < MaxExpired) /\ push.pc = "upload"
  <2>1. PushOver("skew") /\ expired' = MaxExpired + 1
    BY <1>1, <1>3, <1>6 DEF Minted
  <2>2. /\ push' \in PushType /\ push'.pc = "idle" /\ push'.why = "skew" /\ push'.adv = {}
        /\ auth' = NoAuth /\ tok' = "none" /\ sess' = [r \in Remotes |-> "none"]
    BY <2>1, OverFacts
  <2>3. TypeOK' /\ Shape'
    BY <1>2, <1>3, <2>2 DEF TypeOK, Shape, Scopes, PushType, NoAuth
  <2>4. DrainsUploaded' /\ NamedSomewhere' /\ AnonymousFirst' /\ PublicNeverPrompts'
    BY <1>3, <2>2 DEF DrainsUploaded, NamedSomewhere, Somewhere, Scopes,
                      AnonymousFirst, PublicNeverPrompts, NoAuth
  <2>5. SkewCounted'
    BY <2>1, <2>2 DEF SkewCounted
  <2>6. QED
    BY <1>2, <2>3, <2>4, <2>5
<1>7. CASE ~(good \/ expired < MaxExpired) /\ push.pc = "source"
  <2>1. push' = [push EXCEPT !.cur = @ + 1] /\ UNCHANGED <<tok, auth, sess>>
    BY <1>1, <1>7 DEF Minted
  <2>2. push.cur <= Len(Order)
    BY <1>7 DEF Refresh, Requests
  <2>3. push' \in PushType /\ push'.cur \in 1..(Len(Order) + 1)
    BY <1>7, <2>1, <2>2, NextSource
  <2>4. TypeOK' /\ Shape'
    BY <1>2, <1>3, <1>4, <2>1, <2>3 DEF TypeOK, Shape, Scopes, PushType
  <2>5. DrainsUploaded' /\ NamedSomewhere' /\ AnonymousFirst' /\ PublicNeverPrompts'
    BY <1>3, <1>4, <1>7, <2>1 DEF DrainsUploaded, NamedSomewhere, Somewhere, Scopes,
                      AnonymousFirst, PublicNeverPrompts, PushType
  <2>6. SkewCounted'
    BY <1>3, <1>4, <2>1 DEF SkewCounted, PushType
  <2>7. QED
    BY <1>2, <2>4, <2>5, <2>6
<1>8. QED
  BY <1>3, <1>5, <1>6, <1>7

(* Every step preserves the invariant. *)
LEMMA NextPush ==
    ASSUME PushInv, [Next]_vars
    PROVE  PushInv'
<1>1. CASE UNCHANGED vars
  BY <1>1 DEF vars, repoVars, authVars, PushInv, TypeOK, Shape, DrainsUploaded, OnTarget,
              NamedSomewhere, Somewhere, Trailing, Count, SkewCounted, AnonymousFirst,
              PublicNeverPrompts, Scopes, ScopeOf, PushType
<1>2. CASE User
  BY <1>2, AddStep, CommitStep, OtherPushStep, FetchStep DEF User
<1>3. CASE Begin
  BY <1>3, BeginStep, ByHandStep DEF Begin
<1>4. CASE PushStep
  BY <1>4, ListStep, SizelessStep, StagedStep, ProbeStep, SourceDeadStep, SourceBuildStep,
     SourceGivesStep, SourceLacksStep, NoSourceStep, FinalizeStep, RequestFailsStep,
     DrainStep, PushedStep DEF PushStep
<1>5. CASE AuthStep
  <2>1. AuthExchange => PushInv'
    BY ResolvedStep DEF AuthExchange
  <2>2. QED
    BY <1>5, <2>1, StartStep, ResolveFailsStep, SshStep, AnonymousStep, CredentialsStep,
       LapseStep, RefreshStep DEF AuthStep
<1>6. QED
  BY <1>1, <1>2, <1>3, <1>4, <1>5 DEF Next

-----------------------------------------------------------------------------
(* Pushes of branches. *)

(* A server's repository never loses a file, a file that a walk missed     *)
(* stays noted until the server has it, and a token's repository is that   *)
(* of its remote for good.                                                 *)
LEMMA ServerGrows ==
    ASSUME PushInv, [Next]_vars
    PROVE  /\ literal' = literal
           /\ \A s \in Scopes : server[s] \subseteq server'[s]
           /\ \A r \in Remotes, h \in Files : <<r, h>> \in unread =>
                <<r, h>> \in unread' \/ h \in server'[ScopeOf(r)]
<1> USE DEF vars, repoVars
<1>1. CASE User
  BY <1>1 DEF User, Add, Commit, OtherPush, Fetch, Elsewhere, PushInv, TypeOK
<1>2. CASE Begin
  BY <1>2 DEF Begin, PushBegin, PushByHand
<1>3. CASE PushFinalize \/ PushRequestFails
  <2>1. PICK d : server' = [server EXCEPT ![RegistersUnder] = @ \cup d]
    BY <1>3 DEF PushFinalize, PushRequestFails
  <2>2. literal' = literal /\ \A s \in Scopes : server[s] \subseteq server'[s]
    BY <1>3, <2>1 DEF PushFinalize, PushRequestFails, PushInv, TypeOK
  <2>3. unread' = {e \in unread : e[2] \notin server'[ScopeOf(e[1])]}
    BY <1>3, <2>2 DEF PushFinalize, PushRequestFails, StillUnread, ScopeOf
  <2>4. QED
    BY <2>2, <2>3
<1>7. CASE PushStep /\ ~PushFinalize /\ ~PushRequestFails
  BY <1>7 DEF PushStep, PushList, PushSizeless, PushStaged, PushProbe, SourceDead, SourceBuild,
     SourceGives, SourceLacks, NoSource, PushDrain, GitPushed
<1>4. CASE AuthStep
  BY <1>4 DEF AuthStep, ResolveStart, ResolveFails, AuthSsh, AuthAnonymous, AuthCredentials,
     AuthExchange, TokenLapses, Refresh, Resolved, AuthGoto
<1>5. CASE UNCHANGED vars
  BY <1>5
<1>6. QED
  BY <1>1, <1>2, <1>3, <1>4, <1>5, <1>7 DEF Next

(* Every step of a repository that pushes branches keeps what a push       *)
(* advertises accounted for, and with it the refs backed.                  *)
LEMMA NextBranch ==
    ASSUME "tags" \notin Pushes, BranchInv, [Next]_vars
    PROVE  BranchInv'
<1> USE DEF BranchInv
<1>0. /\ PushInv' /\ literal' = literal
      /\ \A r \in Remotes, h \in Files : <<r, h>> \in unread =>
           <<r, h>> \in unread' \/ h \in server'[ScopeOf(r)]
      /\ \A s \in Scopes : server[s] \subseteq server'[s]
  BY NextPush, ServerGrows
<1>a. \A r \in Remotes : ScopeOf(r) \in Scopes /\ ScopeOf(r)' = ScopeOf(r)
  BY <1>0 DEF ScopeOf, Scopes
<1>b. push.pc # "idle" => push.target \in Remotes /\ push \in PushType
  BY DEF PushInv, Shape
<1>c. \A r \in Remotes : server[ScopeOf(r)] \subseteq server'[ScopeOf(r)]
  BY <1>0, <1>a
<1>d. \A r \in Remotes : refs[r] \subseteq Files
  BY DEF PushInv, TypeOK
<1>e. \A r \in Remotes : \A h \in refs[r] : h \in server'[ScopeOf(r)] \/ <<r, h>> \in unread'
  <2>1. SUFFICES ASSUME NEW r \in Remotes, NEW h \in refs[r]
                 PROVE  h \in server'[ScopeOf(r)] \/ <<r, h>> \in unread'
    OBVIOUS
  <2>2. h \in Files
    BY <1>d
  <2>3. h \in server[ScopeOf(r)] \/ <<r, h>> \in unread
    BY DEF RefsBacked
  <2>4. QED
    BY <1>0, <1>c, <2>2, <2>3
<1>1. RefsBacked'
  <2>1. CASE UNCHANGED refs
    BY <1>a, <1>e, <2>1 DEF RefsBacked
  <2>2. CASE \E r \in Remotes, h \in Files : OtherPush(r, h)
    <3>1. PICK q \in Remotes, f \in Files : OtherPush(q, f)
      BY <2>2
    <3>2. refs' = [refs EXCEPT ![q] = @ \cup {f}] /\ (f \in server'[ScopeOf(q)] \/ <<q, f>> \in unread')
      BY <3>1, <1>a DEF OtherPush, PushInv, TypeOK
    <3>3. ASSUME NEW r \in Remotes, NEW h \in refs'[r]
          PROVE  h \in server'[ScopeOf(r)] \/ <<r, h>> \in unread'
      <4>1. h \in refs[r] \/ (r = q /\ h = f)
        BY <3>2, <3>3 DEF PushInv, TypeOK
      <4>2. QED
        BY <1>e, <3>2, <4>1
    <3>4. QED
      BY <3>3, <1>a DEF RefsBacked
  <2>3. CASE GitPushed
    <3>1. /\ push.target \in Remotes /\ push.pc = "moveRef"
          /\ (push.hook => push.adv \subseteq OnTarget \cup Missed) /\ server' = server
      BY <1>b, <2>3 DEF GitPushed, Advertised
    <3>2. \/ refs' = refs
          \/ /\ push.hook /\ refs' = [refs EXCEPT ![push.target] = @ \cup push.adv]
             /\ unread' = unread \cup ({push.target} \X (push.missed \ OnTarget))
      BY <2>3 DEF GitPushed, OnTarget
    <3>3. CASE refs' = refs
      BY <2>1, <3>3
    <3>4. ASSUME push.hook, refs' = [refs EXCEPT ![push.target] = @ \cup push.adv],
                 unread' = unread \cup ({push.target} \X (push.missed \ OnTarget)),
                 NEW r \in Remotes, NEW h \in refs'[r]
          PROVE  h \in server'[ScopeOf(r)'] \/ <<r, h>> \in unread'
      <4>1. CASE h \in refs[r]
        BY <1>a, <3>1, <3>4, <4>1 DEF RefsBacked
      <4>2. CASE h \notin refs[r]
        <5>1. r = push.target /\ h \in OnTarget \cup Missed
          BY <3>1, <3>4, <4>2 DEF PushInv, TypeOK
        <5>2. QED
          BY <1>a, <3>1, <3>4, <5>1 DEF OnTarget, Missed
      <4>3. QED
        BY <4>1, <4>2
    <3>5. QED
      BY <3>2, <3>3, <3>4 DEF RefsBacked
  <2>4. QED
    BY <2>1, <2>2, <2>3 DEF Next, vars, repoVars, User, Add, Commit, Fetch, Begin, PushBegin,
       PushByHand, PushStep, PushList, PushSizeless, PushStaged, PushProbe, SourceDead,
       SourceBuild, SourceGives, SourceLacks, NoSource, PushFinalize, PushRequestFails,
       PushDrain, AuthStep, ResolveStart, ResolveFails, AuthSsh, AuthAnonymous,
       AuthCredentials, AuthExchange, TokenLapses, Refresh, Resolved, AuthGoto
<1>2. Advertised'
  <2> USE DEF Advertised, OnTarget, Missed, Sought
  <2>0. push \in PushType
    BY DEF PushInv, Shape
  <2>1. CASE push' = push /\ (auth'.scope = "Read") = (auth.scope = "Read")
    BY <1>0, <1>a, <1>b, <1>c, <2>0, <2>1 DEF PushType
  <2>2. CASE push'.pc = "idle"
    BY <2>2
  <2>3. ASSUME NEW r \in Remotes, PushBegin(r) PROVE Advertised'
    <3>1. PICK all \in Walks(r) : \E walk \in SUBSET all :
            /\ push'.pc = "list" /\ push'.target = r /\ push'.adv = local /\ push'.todo = walk
            /\ push'.missed = all \ (walk \cup server[ScopeOf(r)])
      BY <2>3 DEF PushBegin, NoPush
    <3>2. local \subseteq all \cup refs[r] /\ local \subseteq Files
      BY DEF Walks, PushInv, TypeOK
    <3>3. /\ server' = server /\ unread' = unread
          /\ \A h \in refs[r] : h \in server[ScopeOf(r)] \/ <<r, h>> \in unread
      BY <2>3 DEF PushBegin, repoVars, RefsBacked
    <3>4. QED
      BY <3>1, <3>2, <3>3, <1>a
  <2>4. CASE PushByHand
    BY <2>4 DEF PushByHand, NoPush
  <2>5. CASE PushList
    <3>1. server' = server /\ unread' = unread
          /\ push.target \in Remotes /\ push'.target = push.target
          /\ push'.hook = push.hook /\ push'.adv = push.adv
      BY <1>b, <2>0, <2>5 DEF PushList, repoVars, PushType
    <3>2. CASE staged = {} /\ push.todo = {}
      BY <3>1, <3>2, <1>a, <2>0, <2>5 DEF PushList, PushType
    <3>3. CASE ~(staged = {} /\ push.todo = {})
      <4>1. /\ push'.pc = "auth" /\ push'.snap = staged /\ push'.todo = push.todo \ staged
            /\ push.pc = "list" /\ push'.missed = push.missed \ staged
        BY <3>3, <2>0, <2>5 DEF PushList, PushType
      <4>2. push.hook => push.adv \subseteq OnTarget \cup Missed \cup push.todo
        BY <4>1
      <4>3. QED
        BY <3>1, <4>1, <4>2, <1>a
    <3>4. QED
      BY <3>2, <3>3
  <2>6. ASSUME NEW h \in Files, PushStaged(h) PROVE Advertised'
    BY <1>a, <1>b, <2>0, <2>6 DEF PushStaged, repoVars, PushType
  <2>7. ASSUME NEW h \in Files, PushProbe(h) PROVE Advertised'
    <3>1. server' = server /\ unread' = unread /\ auth' = auth /\ push.target \in Remotes /\ push.pc = "upload"
      BY <1>b, <2>7 DEF PushProbe, repoVars, authVars
    <3>2. \/ h \in server[ScopeOf(push.target)] /\ push' = [push EXCEPT !.todo = @ \ {h}]
          \/ push' = [push EXCEPT !.pc = "source", !.file = h, !.cur = 1, !.todo = @ \ {h}]
      BY <2>7 DEF PushProbe, ProbeSaysHere
    <3>3. auth.scope # "Read"
      BY <3>1 DEF PushInv, Shape
    <3>4. CASE h \in server[ScopeOf(push.target)] /\ push' = [push EXCEPT !.todo = @ \ {h}]
      BY <3>1, <3>3, <3>4, <1>a, <2>0 DEF PushType
    <3>5. CASE push' = [push EXCEPT !.pc = "source", !.file = h, !.cur = 1, !.todo = @ \ {h}]
      <4>1. /\ push'.pc = "source" /\ push'.file = h /\ push'.todo = push.todo \ {h}
            /\ push'.snap = push.snap /\ push'.done = push.done /\ push'.adv = push.adv
            /\ push'.hook = push.hook /\ push'.target = push.target
            /\ push'.missed = push.missed
        BY <3>5, <2>0 DEF PushType
      <4>2. QED
        BY <3>1, <3>3, <4>1, <1>a
    <3>6. QED
      BY <3>2, <3>4, <3>5
  <2>8. CASE SourceDead \/ SourceLacks
    BY <1>a, <1>b, <2>0, <2>8 DEF SourceDead, SourceLacks, repoVars, authVars, PushType
  <2>9. CASE SourceBuild
    BY <1>a, <1>b, <2>0, <2>9 DEF SourceBuild, repoVars, PushType
  <2>10. CASE SourceGives
    BY <1>a, <1>b, <2>0, <2>10 DEF SourceGives, repoVars, PushType
  <2>11. CASE PushFinalize
    <3>1. auth.scope # "Read" /\ push.target \in Remotes
      BY <1>b, <2>11 DEF PushFinalize, PushInv, Shape
    <3>2. /\ push'.pc = "drain" /\ push'.target = push.target /\ push'.adv = push.adv
          /\ push'.hook = push.hook /\ push'.missed = push.missed
      BY <2>0, <2>11 DEF PushFinalize, PushType
    <3>3. server'[ScopeOf(push.target)] = server[ScopeOf(push.target)] \cup push.done
      BY <1>a, <2>11, <3>1 DEF PushFinalize, RegistersUnder, PushInv, TypeOK
    <3>4. push.todo = {} /\ push.snap \subseteq push.done /\ push.pc = "upload"
      BY <2>11 DEF PushFinalize
    <3>5. QED
      BY <3>1, <3>2, <3>3, <3>4, <1>0, <1>a
  <2>12. CASE PushDrain
    BY <1>a, <1>b, <2>0, <2>12 DEF PushDrain, PushType
  <2>13. ASSUME auth.step # "idle", push.pc = "auth", push' = [push EXCEPT !.pc = IF auth.scope = "Write" THEN "upload" ELSE "source"]
         PROVE  Advertised'
    BY <1>0, <1>a, <1>b, <1>c, <2>0, <2>13 DEF PushInv, Shape, PushType
  <2>14. CASE Resolved /\ auth.step # "idle"
    BY <2>13, <2>14 DEF Resolved, PushInv, TypeOK
  <2>15. CASE ResolveFails
    <3>1. CASE auth.scope = "Write"
      BY <3>1, <2>2, <2>15, OverFacts DEF ResolveFails, PushFails
    <3>2. CASE auth.scope # "Write"
      BY <3>2, <2>13, <2>15 DEF ResolveFails, PushInv, TypeOK
    <3>3. QED
      BY <3>1, <3>2
  <2>16. CASE Refresh
    <3>1. PICK good \in BOOLEAN : Minted(good, 0)
      BY <2>16 DEF Refresh
    <3>2. CASE PushOver("skew")
      BY <3>2, <2>2, OverFacts
    <3>3. CASE push' = [push EXCEPT !.cur = @ + 1] /\ auth' = auth
      BY <3>3, <1>0, <1>a, <1>b, <1>c, <2>0 DEF PushType
    <3>4. QED
      BY <3>1, <3>2, <3>3, <2>1 DEF Minted
  <2>17. CASE PushSizeless \/ NoSource \/ PushRequestFails \/ GitPushed
    BY <2>2, <2>17, OverFacts DEF PushSizeless, NoSource, PushRequestFails, GitPushed, PushFails
  <2>18. CASE User
    BY <2>1, <2>18 DEF User, Add, Commit, OtherPush, Fetch, Elsewhere, authVars
  <2>19. CASE ResolveStart \/ AuthSsh \/ AuthAnonymous \/ AuthCredentials \/ TokenLapses
    <3>1. CASE ResolveStart /\ Resolved
      BY <3>1, <2>14 DEF ResolveStart
    <3>2. CASE ~(ResolveStart /\ Resolved)
      BY <3>2, <2>1, <2>19 DEF ResolveStart, AuthSsh, AuthAnonymous, AuthCredentials,
         TokenLapses, AuthGoto, PushInv, TypeOK
    <3>3. QED
      BY <3>1, <3>2
  <2>20. CASE UNCHANGED vars
    BY <2>1, <2>20 DEF vars, authVars
  <2>21. QED
    BY <2>3, <2>4, <2>5, <2>6, <2>7, <2>8, <2>9, <2>10, <2>11, <2>12, <2>14, <2>15, <2>16,
       <2>17, <2>18, <2>19, <2>20 DEF Next, Begin, PushStep, AuthStep, AuthExchange
<1>3. QED
  BY <1>0, <1>1, <1>2

-----------------------------------------------------------------------------
(* What it comes to. *)

(* Every variable keeps its type: the position in the list of remotes      *)
(* stays in it, the mints stay few, and the resolver works exactly while   *)
(* the push waits for it.                                                  *)
THEOREM TypesKept == Spec => []TypeOK
<1>1. Init => PushInv
  BY InitPush DEF BranchInv
<1>2. PushInv /\ [Next]_vars => PushInv'
  BY NextPush
<1>3. PushInv => TypeOK
  BY DEF PushInv
<1>4. QED
  BY <1>1, <1>2, <1>3, PTL DEF Spec

(* A local file's bytes are in staging or on a server, whatever is pushed, *)
(* to whichever remotes and however the pushes fail (push_pending).        *)
THEOREM BytesKept == Spec => []BytesSomewhere
<1>1. Init => PushInv
  BY InitPush DEF BranchInv
<1>2. PushInv /\ [Next]_vars => PushInv'
  BY NextPush
<1>3. PushInv => BytesSomewhere
  BY DEF PushInv, NamedSomewhere, Somewhere, BytesSomewhere
<1>4. QED
  BY <1>1, <1>2, <1>3, PTL DEF Spec

(* As long as no annotated tags are pushed, a remote's refs name only      *)
(* files that its server gives, and files that the walk of a push passed   *)
(* over because it could not read them (reachable_pointers,                *)
(* re_translate_from_any).                                                 *)
THEOREM RefsKeptBacked ==
    ASSUME "tags" \notin Pushes
    PROVE  Spec => []RefsBacked
<1>1. Init => BranchInv
  BY InitPush
<1>2. BranchInv /\ [Next]_vars => BranchInv'
  BY NextBranch
<1>3. BranchInv => RefsBacked
  BY DEF BranchInv
<1>4. QED
  BY <1>1, <1>2, <1>3, PTL DEF Spec

(* Whatever MAX_EXPIRED_REFRESHES is, the clocks are blamed after exactly  *)
(* that many mints and one more in a row that looked expired, and no token *)
(* is handed out then (ForgeTokenRefresher::refresh).                      *)
THEOREM SkewIsSkew == Spec => []SkewMeansSkew
<1>1. Init => PushInv
  BY InitPush DEF BranchInv
<1>2. PushInv /\ [Next]_vars => PushInv'
  BY NextPush
<1>3. PushInv => SkewMeansSkew
  <2> SUFFICES ASSUME PushInv PROVE SkewMeansSkew
    OBVIOUS
  <2>0. mints \in Seq(BOOLEAN)
    BY DEF PushInv, TypeOK
  <2>1. /\ MaxExpired \in Nat /\ expired \in 0..(MaxExpired + 1) /\ Len(mints) \in Nat
        /\ Len(mints) <= MaxExpired + 1
    BY <2>0, RemoteAssumption DEF PushInv, TypeOK
  <2>a. Count(mints, Len(mints), expired, FALSE, TRUE)
    BY Zenon DEF PushInv, Trailing
  <2>2. expired = MaxExpired + 1 => Len(mints) = MaxExpired + 1 /\ \A i \in 1..Len(mints) : mints[i] = FALSE
    BY <2>1, <2>a DEF Count
  <2>3. expired <= MaxExpired /\ Len(mints) = MaxExpired + 1 =>
          Len(mints) - expired \in 1..Len(mints) /\ mints[Len(mints) - expired] = TRUE
    BY <2>1, <2>a DEF Count
  <2>4. DOMAIN mints = 1..Len(mints)
    BY <2>0
  <2>5. QED
    BY <2>2, <2>3, <2>4, Zenon DEF SkewMeansSkew, PushInv, SkewCounted
<1>4. QED
  BY <1>1, <1>2, <1>3, PTL DEF Spec

(* No credentials are asked for to read from a repository that grants      *)
(* anonymous read (authenticate_http_with_fallback).                       *)
THEOREM PublicReads == Spec => []PublicNeverPrompts
<1>1. Init => PushInv
  BY InitPush DEF BranchInv
<1>2. PushInv /\ [Next]_vars => PushInv'
  BY NextPush
<1>3. PushInv => PublicNeverPrompts
  BY DEF PushInv
<1>4. QED
  BY <1>1, <1>2, <1>3, PTL DEF Spec

=============================================================================

---------------------------- MODULE RecordSignIn ----------------------------
(***************************************************************************)
(* Sign-in at a centre that keeps no database: a redeemed link (module     *)
(* RecordLinks) finds or makes the user of its address (auth/users.go),    *)
(* and a signed cookie is minted, and later reissued by the refresh route  *)
(* (sessions/signedmode.go, refresh.go).  There is one address and one     *)
(* user, since nothing relates two.  Each call of the store is one step;   *)
(* a compare-and-swap compares records, as the store compares ETags.  A    *)
(* request whose call fails, whose answer is lost or whose process ends    *)
(* takes no further step.                                                  *)
(***************************************************************************)
EXTENDS RecordLinks

CONSTANTS
    Ops,        \* requests other than sign-ins, one after another
    Old,        \* the uid of a user from before
    NoClaim,
    Blind,      \* Config.Blind
    Lifetime,   \* SignedLifetime
    TTL,        \* Config.TTL, of a session
    MaxEnds,    \* bound: sign-outs everywhere
    MaxCookies  \* bound: cookies issued

ASSUME SignInAssumption ==
    /\ Old \notin Calls /\ NoClaim \notin Calls \cup {Old} /\ Calls \cap Ops = {}
    /\ Blind \in BOOLEAN /\ Lifetime \in Nat /\ TTL \in Nat
    /\ MaxEnds \in Nat /\ IsFiniteSet(Ops)

VARIABLES
    claim,    \* the uid of emails/<eh>.json, or NoClaim
    user,     \* per uid, users/<uid>.json, or NoUser
    op,       \* per request, where it is
    cookies,  \* cookies issued; one may be presented as long as it exists
    ended     \* sign-outs everywhere that were answered

userVars == <<claim, user, op, cookies, ended>>
vars == <<clock, linkVars, userVars>>

\* A uid is drawn by one sign-in.
Uids == Calls \cup {Old}

\* An epoch is the draw of the request that made the user, and the
\* sign-outs everywhere since.
NoUser == [draw |-> NoClaim, n |-> 0, email |-> FALSE]
User == [draw : Uids, n : 0..MaxEnds, email : BOOLEAN]
Epoch(u) == <<u.draw, u.n>>

NoCookie == [uid |-> Old, epoch |-> <<NoClaim, 0>>, at |-> 0, exp |-> 0]
Cookie == [uid : Uids, epoch : Uids \X (0..MaxEnds), at : 0..MaxClock, exp : Nat]

Rest == [pc |-> "rest", kind |-> "none", uid |-> Old, seen |-> NoUser, start |-> 0, old |-> NoCookie, tries |-> 0]

TypeOK ==
    /\ LinksTypeOK
    /\ claim \in Uids \cup {NoClaim}
    /\ user \in [Uids -> User \cup {NoUser}]
    /\ \A o \in Calls \cup Ops :
        /\ op[o].pc \in {"rest", "claim", "makeclaim", "get", "strip", "makeuser", "sign", "resign", "bump", "over"}
        /\ op[o].kind \in {"none", "ensure", "load", "mint", "refresh", "end", "sweep"}
        /\ op[o].uid \in Uids /\ op[o].seen \in User \cup {NoUser} /\ op[o].old \in Cookie \cup {NoCookie}
        /\ op[o].start <= clock /\ op[o].tries \in 0..2
    /\ \A c \in cookies : c \in Cookie
    /\ \A e \in ended : e.uid \in Uids /\ e.time <= clock

\* Nobody; a claim whose user is missing; or a user from before Blind.
Init ==
    /\ LinksInit
    /\ op = [o \in Calls \cup Ops |-> Rest]
    /\ cookies = {} /\ ended = {}
    /\ \/ claim = NoClaim /\ user = [u \in Uids |-> NoUser]
       \/ claim = Old /\ user = [u \in Uids |-> NoUser]
       \/ /\ claim = Old /\ user = [u \in Uids |-> IF u = Old THEN [draw |-> Old, n |-> 0, email |-> TRUE] ELSE NoUser]

Step(o, pc) == op' = [op EXCEPT ![o].pc = pc]
Reads(o, kind, uid) == op' = [op EXCEPT ![o] = [@ EXCEPT !.pc = "get", !.kind = kind, !.uid = uid, !.seen = NoUser]]

\* A sign-in is made once; another request may follow.
Over(o) == op' = [op EXCEPT ![o] = IF o \in Calls THEN [Rest EXCEPT !.pc = "over"] ELSE Rest]

-----------------------------------------------------------------------------
(* users.ensure *)

\* A link was redeemed, or a keymail server vouched for the address.
Admit(c) ==
    /\ op[c] = Rest
    /\ \/ take[c].pc = "won" /\ UNCHANGED take
       \/ take[c].pc = "idle" /\ take' = [take EXCEPT ![c].pc = "keymail"]
    /\ Step(c, "claim")
    /\ UNCHANGED <<clock, sent, stored, used, sweep, claim, user, cookies, ended>>

ReadClaim(c) ==
    /\ op[c].pc = "claim"
    /\ IF claim # NoClaim THEN Reads(c, "ensure", claim) ELSE Step(c, "makeclaim")
    /\ UNCHANGED <<claim, user, cookies, ended>>

\* A mutant of MakeClaim: the claim is put, not created.
MakeClaimPut(c) ==
    /\ op[c].pc = "makeclaim"
    /\ claim' = c
    /\ op' = [op EXCEPT ![c] = [@ EXCEPT !.pc = "makeuser", !.uid = c]]
    /\ UNCHANGED <<user, cookies, ended>>

\* Read again after a lost create: twice at most.
MakeClaim(c) ==
    /\ op[c].pc = "makeclaim"
    /\ IF claim = NoClaim
       THEN claim' = c /\ op' = [op EXCEPT ![c] = [@ EXCEPT !.pc = "makeuser", !.uid = c]]
       ELSE /\ op[c].tries + 1 < 2
            /\ op' = [op EXCEPT ![c] = [@ EXCEPT !.pc = "claim", !.tries = op[c].tries + 1]]
            /\ UNCHANGED claim
    /\ UNCHANGED <<user, cookies, ended>>

MakeUser(c) ==
    LET u == op[c].uid IN
    /\ op[c].pc = "makeuser"
    /\ IF user[u] = NoUser
       THEN /\ user' = [user EXCEPT ![u] = [draw |-> c, n |-> 0, email |-> ~Blind]]
            /\ Reads(c, "mint", u)
       ELSE Reads(c, "load", u) /\ UNCHANGED user
    /\ UNCHANGED <<claim, cookies, ended>>

-----------------------------------------------------------------------------
(* users.read, and what its callers do with the user *)

Proceed(o, seen) ==
    CASE op[o].kind \in {"ensure", "load"} -> Reads(o, "mint", op[o].uid)
      [] op[o].kind = "mint" -> op' = [op EXCEPT ![o] = [@ EXCEPT !.pc = "sign", !.seen = seen]]
      [] op[o].kind = "refresh" -> op' = [op EXCEPT ![o] = [@ EXCEPT !.pc = "resign", !.seen = seen]]
      [] op[o].kind = "sweep" -> Over(o)

\* ensure makes it, EndSessions has nothing to end, and a session of it is
\* signed out.
Missing(o) == IF op[o].kind = "ensure" THEN Step(o, "makeuser") ELSE Over(o)

\* EndSessions reads through Mutate, which does not strip.
GetUser(o) ==
    LET u == user[op[o].uid] IN
    /\ op[o].pc = "get"
    /\ CASE u = NoUser -> Missing(o)
         [] u # NoUser /\ op[o].kind = "end" -> op' = [op EXCEPT ![o] = [@ EXCEPT !.pc = "bump", !.seen = u]]
         [] u # NoUser /\ op[o].kind # "end" /\ Blind /\ u.email ->
                op' = [op EXCEPT ![o] = [@ EXCEPT !.pc = "strip", !.seen = u]]
         [] OTHER -> Proceed(o, u)
    /\ UNCHANGED <<claim, user, cookies, ended>>

\* A mutant of Swap: an unconditional put.
SwapPut(o, new) == user' = [user EXCEPT ![op[o].uid] = new]

\* objrec's Update: it lands only on the record that was read.
Swap(o, new) ==
    user' = IF user[op[o].uid] = op[o].seen THEN [user EXCEPT ![op[o].uid] = new] ELSE user

Strip(o) ==
    LET new == [op[o].seen EXCEPT !.email = FALSE] IN
    /\ op[o].pc = "strip"
    /\ Swap(o, new)
    /\ IF user'[op[o].uid] = new THEN Proceed(o, new) ELSE Reads(o, op[o].kind, op[o].uid)
    /\ UNCHANGED <<claim, cookies, ended>>

\* objrec.Mutate of EndSessions; sixty-four tries are as good as any.
Bump(o) ==
    LET new == [op[o].seen EXCEPT !.n = @ + 1, !.email = @ /\ ~Blind] IN
    /\ op[o].pc = "bump"
    /\ Swap(o, new)
    /\ IF user'[op[o].uid] = new
       THEN Over(o) /\ ended' = ended \cup {[uid |-> op[o].uid, epoch |-> Epoch(new), time |-> clock]}
       ELSE Reads(o, "end", op[o].uid) /\ UNCHANGED ended
    /\ UNCHANGED <<claim, cookies>>

-----------------------------------------------------------------------------
(* Signed sessions *)

Least(a, b) == IF a < b THEN a ELSE b

SignedExp(iat, at) == Least(iat + Lifetime, at + TTL)

\* The clock is read after the epoch.
Sign(c) ==
    /\ op[c].pc = "sign" /\ Cardinality(cookies) < MaxCookies
    /\ cookies' = cookies \cup {[uid |-> op[c].uid, epoch |-> Epoch(op[c].seen), at |-> clock, exp |-> SignedExp(clock, clock)]}
    /\ Over(c)
    /\ UNCHANGED <<claim, user, ended>>

\* The refresh route, with a cookie that has expired.  A valid one goes
\* back as it is, and a session past its end is signed out.
Refresh(o) ==
    /\ op[o] = Rest
    /\ \E c \in cookies :
        /\ c.exp <= clock /\ clock < c.at + TTL
        /\ op' = [op EXCEPT ![o] = [Rest EXCEPT !.pc = "get", !.kind = "refresh", !.uid = c.uid, !.start = clock, !.old = c]]
    /\ UNCHANGED <<claim, user, cookies, ended>>

\* A mutant of Resign: the new cookie begins when the store has answered.
ResignNow(o) ==
    /\ op[o].pc = "resign"
    /\ IF Epoch(op[o].seen) = op[o].old.epoch
       THEN /\ Cardinality(cookies) < MaxCookies
            /\ cookies' = cookies \cup {[op[o].old EXCEPT !.exp = SignedExp(clock, op[o].old.at)]}
       ELSE UNCHANGED cookies
    /\ Over(o)
    /\ UNCHANGED <<claim, user, ended>>

\* The claims that came in, from the moment the request began.
Resign(o) ==
    /\ op[o].pc = "resign"
    /\ IF Epoch(op[o].seen) = op[o].old.epoch
       THEN /\ Cardinality(cookies) < MaxCookies
            /\ cookies' = cookies \cup {[op[o].old EXCEPT !.exp = SignedExp(op[o].start, op[o].old.at)]}
       ELSE UNCHANGED cookies
    /\ Over(o)
    /\ UNCHANGED <<claim, user, ended>>

\* EndSessions of the user, by SignoutEverywhere or the app.
EndSessions(o) ==
    /\ op[o] = Rest /\ claim # NoClaim
    /\ user[claim].n + Cardinality({p \in Ops : op[p].kind = "end"}) < MaxEnds
    /\ Reads(o, "end", claim)
    /\ UNCHANGED <<claim, user, cookies, ended>>

\* stripAll's read of the user.
SweepUser(o) ==
    /\ op[o] = Rest /\ Blind /\ claim # NoClaim
    /\ Reads(o, "sweep", claim)
    /\ UNCHANGED <<claim, user, cookies, ended>>

OpStep(o) == GetUser(o) \/ Strip(o)
SignInStep(c) == ReadClaim(c) \/ MakeClaim(c) \/ MakeUser(c) \/ Sign(c)
OtherStep(o) == Refresh(o) \/ Resign(o) \/ EndSessions(o) \/ SweepUser(o) \/ Bump(o)

Next ==
    \/ (Tick \/ LinkStep) /\ UNCHANGED userVars
    \/ \E c \in Calls : Admit(c)
    \/ /\ \/ \E c \in Calls : SignInStep(c)
          \/ \E o \in Ops : OtherStep(o)
          \/ \E o \in Calls \cup Ops : OpStep(o)
       /\ UNCHANGED <<clock, linkVars>>

Spec == Init /\ [][Next]_vars

-----------------------------------------------------------------------------
\* One address has one user: devices that sign in together, repair a claim
\* whose user is missing, or lose answers all end with the claim's uid.
OneUserPerAddress ==
    /\ \A u \in Uids : user[u] # NoUser => u = claim
    /\ \A c \in cookies : c.uid = claim

\* A user's record changes under nobody: an epoch never falls back and an
\* address taken out never returns, however strips, sign-outs and creates
\* cross.
RecordKept ==
    [][\A u \in Uids : (user[u] # NoUser /\ user'[u] # NoUser) =>
            /\ user'[u].draw = user[u].draw /\ user'[u].n >= user[u].n
            /\ user'[u].email => user[u].email]_vars

\* Once a sign-out everywhere is answered, every cookie of the epochs
\* before it is dead one lifetime later: also one a refresh that had read
\* the old epoch issues afterwards.  A sign-in in flight counts from its
\* own moment.  users.go:232.
EndsInOneLifetime ==
    \A e \in ended, c \in cookies :
        (c.uid = e.uid /\ c.epoch[1] = e.epoch[1] /\ c.epoch[2] < e.epoch[2])
            => c.exp <= (IF c.at > e.time THEN c.at ELSE e.time) + Lifetime

=============================================================================

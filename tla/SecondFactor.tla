---------------------------- MODULE SecondFactor ----------------------------
(***************************************************************************)
(* The second factor of a sign-in: the half-sessions, the strike budget   *)
(* and the recovery codes of secondfactor.Gate, and the authenticator     *)
(* codes of totp.Handlers, for one subject.  Every query is keyed on the  *)
(* subject or on a token drawn for it, so subjects share nothing.         *)
(*                                                                         *)
(* Requests are HTTP handlers that run concurrently over one SQLite       *)
(* database.  A statement is atomic; a handler that runs several may be   *)
(* interleaved with any other between them, and may stop between them     *)
(* (a crash, a database error, a client gone).  The limiter's calls, in   *)
(* memory and under its lock, go with the statement before them.  Time is *)
(* counted in TOTP steps of 30 seconds; the clock is read with the row it *)
(* is compared to.                                                         *)
(*                                                                         *)
(* Abstracted: a code is the pair of the secret and the step it was made  *)
(* from, so two steps never share six digits; Wrong stands for any other  *)
(* guess; a passkey's assertion is Signature, and cannot be guessed.      *)
(* Sessions.SignIn is a count of the sessions a proof opened.             *)
(***************************************************************************)
EXTENDS Integers, FiniteSets, Functions

CONSTANTS
    Requests,       \* the handlers that run at a time
    Halves,         \* half-session tokens, each drawn once
    Secrets,        \* authenticator secrets, each drawn once
    RecoveryCodes,  \* recovery codes, each drawn once
    Wrong,          \* a guess that matches nothing
    Signature,      \* a passkey's verified assertion
    None,           \* no half-session; no row of totp_secrets
    PasskeyHeld,    \* does the subject hold a passkey as well?
    CodesPerSet,    \* recoveryCodesPerSet
    MaxAttempts,    \* maxAttempts
    PendingTTL,     \* pendingTTL, in steps
    Skew,           \* skew
    LimitFailures,  \* limitFailures
    LimitWindow,    \* limitWindow, in steps
    MaxClock,       \* bound: the last step the clock reaches
    MaxLost         \* bound: deletes of exhausted half-sessions that never run

Clock == 0 .. MaxClock
Steps == 1 .. MaxClock + Skew
Otps == [secret : Secrets, step : Steps]
Proofs == Otps \cup RecoveryCodes \cup {Wrong, Signature}

HalfRow == [state : {"none", "live", "gone"}, attempts : Nat, expires : Nat]
Enrolment == [secret : Secrets, confirmed : BOOLEAN, last : Nat]

\* Tokens, secrets and codes are random draws: none is another, or a
\* placeholder.
ASSUME SecondFactorAssumption ==
    /\ PasskeyHeld \in BOOLEAN
    /\ CodesPerSet \in Nat /\ MaxAttempts \in Nat \ {0}
    /\ PendingTTL \in Nat /\ Skew \in Nat
    /\ LimitFailures \in Nat \ {0} /\ LimitWindow \in Nat \ {0}
    /\ MaxClock \in Nat \ {0} /\ MaxLost \in Nat
    /\ IsFiniteSet(Requests)
    /\ None \notin Halves \cup Enrolment
    /\ Wrong \notin Otps /\ Signature \notin Otps
    /\ RecoveryCodes \cap (Otps \cup {Wrong, Signature}) = {}

Ops == {"hold", "totp", "recovery", "passkey", "stepup", "confirm", "begin"}
Places == {"idle", "hold", "read", "spend", "redeem", "strike", "exhaust",
           "complete", "mint", "confirm", "begin"}

Handler == [at : Places, op : Ops, half : Halves \cup {None}, proof : Proofs,
            began : Clock]

VARIABLES
    now,        \* the step the clock is in
    pending,    \* secondfactor_pending; "gone" marks a row deleted
    recovery,   \* secondfactor_recovery_codes
    issued,     \* the recovery codes ever drawn
    totp,       \* the subject's row of totp_secrets, or None
    drawn,      \* the secrets ever drawn
    failures,   \* limiter.failures[subject]: how many at each time
    reqs,       \* where each handler is, and what it holds
    opened,     \* history: sessions each half-session opened
    used,       \* history: sessions each proof opened
    proven,     \* history: secrets a Confirm has seen a code from
    crossed,    \* history: has a write landed on another row than was read?
    lost        \* history: deletes of exhausted half-sessions that never ran

rows == <<pending, recovery, issued, totp, drawn>>
history == <<opened, used, proven, crossed, lost>>
vars == <<now, rows, failures, reqs, history>>

NoRow == [state |-> "none", attempts |-> 0, expires |-> 0]
NoFailures == [t \in Clock |-> 0]
Idle == [at |-> "idle", op |-> "hold", half |-> None, proof |-> Wrong,
         began |-> 0]

Init ==
    /\ now = 1
    /\ pending = [h \in Halves |-> NoRow]
    /\ recovery = {} /\ issued = {}
    /\ totp = None /\ drawn = {}
    /\ failures = NoFailures
    /\ reqs = [r \in Requests |-> Idle]
    /\ opened = [h \in Halves |-> 0]
    /\ used = [p \in Proofs |-> 0]
    /\ proven = {} /\ crossed = FALSE /\ lost = 0

At(r, place) == reqs[r].at = place
Handling(place, op, h, p) ==
    [at |-> place, op |-> op, half |-> h, proof |-> p,
     began |-> IF op = "stepup" THEN now ELSE 0]
Start(r, place, op, h, p) ==
    /\ At(r, "idle")
    /\ reqs' = [reqs EXCEPT ![r] = Handling(place, op, h, p)]
Goto(r, place) == reqs' = [reqs EXCEPT ![r].at = place]
Done(r) == reqs' = [reqs EXCEPT ![r] = Idle]

Confirmed == totp # None /\ totp.confirmed
Enrolled == PasskeyHeld \/ Confirmed
Live(h) == pending[h].state = "live"

\* Gate.Pending: a live half-session inside its window.  The attempts it
\* has used are not looked at.
PendingOk(h) == Live(h) /\ now <= pending[h].expires

\* totp.match: the submitted code against the window around now, and
\* against the last step already spent.
Matches(p) ==
    /\ p \in Otps
    /\ totp.secret = p.secret
    /\ p.step \in now - Skew .. now + Skew
    /\ p.step > totp.last

\* Handlers.verify finds the row, in the state the caller wants, and the
\* code matches it.
Verified(r) ==
    /\ totp # None
    /\ totp.confirmed = (reqs[r].op # "confirm")
    /\ Matches(reqs[r].proof)

\* The codes a person may type: what an authenticator holding a drawn
\* secret shows within the window, or anything else.
Guesses == {p \in Otps : p.secret \in drawn /\ p.step \in now - Skew .. now + Skew}
               \cup {Wrong}

\* limiter.prune, at a time t.
Recent(t) == [u \in Clock |-> IF t - u < LimitWindow THEN failures[u] ELSE 0]

\* BlockedPastLimit is a mutant of Blocked, used only to show that the
\* property of the limiter can fail.
BlockedPastLimit == SumFunction(Recent(now)) > LimitFailures

\* limiter.blocked.
Blocked == SumFunction(Recent(now)) >= LimitFailures

-----------------------------------------------------------------------------
(* Half-sessions.                                                          *)

\* Hold asks whether a factor is enrolled.  When none is, the plugin signs
\* the person in itself and nothing here changes.
Hold(r) ==
    /\ Enrolled
    /\ Start(r, "hold", "hold", None, Wrong)
    /\ UNCHANGED <<now, rows, failures, history>>

\* Hold stores the half-session under a fresh token.
HoldInsert(r) ==
    /\ At(r, "hold")
    /\ \E h \in Halves :
          /\ pending[h].state = "none"
          /\ pending' = [pending EXCEPT ![h] =
                 [state |-> "live", attempts |-> 0, expires |-> now + PendingTTL]]
    /\ Done(r)
    /\ UNCHANGED <<now, recovery, issued, totp, drawn, failures, history>>

\* SignIn, SignInRecovery and the passkey's SignInFinish start at Pending;
\* with nobody to confirm they refuse and change nothing.
Present(r) ==
    /\ \E h \in Halves :
          /\ PendingOk(h)
          /\ \/ \E p \in Guesses : Start(r, "read", "totp", h, p)
             \/ \E c \in issued \cup {Wrong} : Start(r, "redeem", "recovery", h, c)
             \/ PasskeyHeld /\ Start(r, "complete", "passkey", h, Signature)
    /\ UNCHANGED <<now, rows, failures, history>>

\* Mutants of Strike, Complete and Redeem, used only to show that the
\* properties can fail.
StrikeOnly(r) ==
    /\ At(r, "strike")
    /\ pending' = IF Live(reqs[r].half)
                  THEN [pending EXCEPT ![reqs[r].half].attempts = @ + 1]
                  ELSE pending
    /\ Done(r)
    /\ UNCHANGED <<now, recovery, issued, totp, drawn, failures, history>>
CompleteKeepsRow(r) ==
    /\ At(r, "complete")
    /\ IF Live(reqs[r].half) THEN Goto(r, "mint") ELSE Done(r)
    /\ UNCHANGED <<now, rows, failures, history>>
RedeemKeepsCode(r) ==
    /\ At(r, "redeem")
    /\ Goto(r, IF reqs[r].proof \in recovery THEN "complete" ELSE "strike")
    /\ UNCHANGED <<now, rows, failures, history>>

\* Strike's UPDATE ... RETURNING attempts: one statement, so no strike is
\* lost to another.
Strike(r) ==
    /\ At(r, "strike")
    /\ LET h == reqs[r].half IN
       /\ pending' = IF Live(h) THEN [pending EXCEPT ![h].attempts = @ + 1]
                                ELSE pending
       /\ IF Live(h) /\ pending'[h].attempts >= MaxAttempts
          THEN Goto(r, "exhaust")
          ELSE Done(r)
    /\ UNCHANGED <<now, recovery, issued, totp, drawn, failures, history>>

DeleteHalf(h) ==
    pending' = IF Live(h) THEN [pending EXCEPT ![h].state = "gone"] ELSE pending

\* The last strike deletes the row, in a statement of its own; a failure is
\* logged and the row stays.
Exhaust(r) ==
    /\ At(r, "exhaust")
    /\ DeleteHalf(reqs[r].half)
    /\ Done(r)
    /\ UNCHANGED <<now, recovery, issued, totp, drawn, failures, history>>

\* Complete's DELETE ... RETURNING: whoever deletes the row mints.
Complete(r) ==
    /\ At(r, "complete")
    /\ IF Live(reqs[r].half) THEN Goto(r, "mint") ELSE Done(r)
    /\ DeleteHalf(reqs[r].half)
    /\ UNCHANGED <<now, recovery, issued, totp, drawn, failures, history>>

\* Two sessions are as bad as more: the history stops counting there.
Count(n) == IF n < 2 THEN n + 1 ELSE n

\* Sessions.SignIn, for a completed half-session or a step-up.
Mint(r) ==
    /\ At(r, "mint")
    /\ opened' = IF reqs[r].half \in Halves
                 THEN [opened EXCEPT ![reqs[r].half] = Count(@)] ELSE opened
    /\ used' = [used EXCEPT ![reqs[r].proof] = Count(@)]
    /\ Done(r)
    /\ UNCHANGED <<now, rows, failures, proven, crossed, lost>>

\* Sweep deletes the half-sessions past their window.
Sweep ==
    /\ pending' = [h \in Halves |-> IF Live(h) /\ pending[h].expires < now
                                    THEN [pending[h] EXCEPT !.state = "gone"]
                                    ELSE pending[h]]
    /\ UNCHANGED <<now, recovery, issued, totp, drawn, failures, reqs, history>>

-----------------------------------------------------------------------------
(* Recovery codes.                                                         *)

\* RegenerateRecoveryCodes: one transaction replaces the whole set.
Regenerate ==
    /\ \E S \in SUBSET (RecoveryCodes \ issued) :
          /\ Cardinality(S) = CodesPerSet
          /\ recovery' = S
          /\ issued' = issued \cup S
    /\ UNCHANGED <<now, pending, totp, drawn, failures, reqs, history>>

\* SignInRecovery burns the code, and counts a miss as a strike.
Redeem(r) ==
    /\ At(r, "redeem")
    /\ recovery' = recovery \ {reqs[r].proof}
    /\ Goto(r, IF reqs[r].proof \in recovery THEN "complete" ELSE "strike")
    /\ UNCHANGED <<now, pending, issued, totp, drawn, failures, history>>

-----------------------------------------------------------------------------
(* The authenticator.                                                      *)

\* Mutants of Spend and BeginInsert, used only to show that the
\* properties can fail.
SpendAnyStep(r) ==
    /\ At(r, "spend")
    /\ totp' = IF totp = None THEN None ELSE [totp EXCEPT !.last = reqs[r].proof.step]
    /\ Goto(r, IF reqs[r].op = "totp" THEN "complete" ELSE "mint")
    /\ UNCHANGED <<now, pending, recovery, issued, drawn, failures, history>>
BeginKeepsConfirmed(r) ==
    /\ At(r, "begin")
    /\ \E s \in Secrets \ drawn :
          /\ totp' = IF totp = None THEN [secret |-> s, confirmed |-> FALSE, last |-> 0]
                     ELSE [totp EXCEPT !.secret = s, !.last = 0]
          /\ drawn' = drawn \cup {s}
    /\ Done(r)
    /\ UNCHANGED <<now, pending, recovery, issued, failures, history>>

\* StepUp, for a caller with a session, and Confirm both ask the limiter
\* first; a caller over the budget is sent away.  Asking prunes.
Guarded(r, op) ==
    /\ At(r, "idle")
    /\ IF Blocked THEN UNCHANGED reqs
                  ELSE \E p \in Guesses : Start(r, "read", op, None, p)
    /\ failures' = Recent(now)
    /\ UNCHANGED <<now, rows, history>>

StepUp(r) == Guarded(r, "stepup")
Confirm(r) == Guarded(r, "confirm")

\* A code that did not verify: a strike for a half-session, a failure in
\* the limiter for a session or a set-up page.  StepUp notes the failure at
\* the time it began, Confirm at the time it fails.
Miss(r) ==
    IF reqs[r].op = "totp"
    THEN Goto(r, "strike") /\ UNCHANGED failures
    ELSE /\ Done(r)
         /\ LET t == IF reqs[r].op = "stepup" THEN reqs[r].began ELSE now
            IN  failures' = [Recent(t) EXCEPT ![t] = @ + 1]

\* verify's SELECT and match.  A Confirm that matched clears the limiter
\* and goes on to its UPDATE.
Read(r) ==
    /\ At(r, "read")
    /\ \/ /\ Verified(r) /\ reqs[r].op # "confirm"
          /\ Goto(r, "spend")
          /\ UNCHANGED <<failures, proven>>
       \/ /\ Verified(r) /\ reqs[r].op = "confirm"
          /\ Goto(r, "confirm")
          /\ failures' = NoFailures
          /\ proven' = proven \cup {reqs[r].proof.secret}
       \/ /\ ~Verified(r)
          /\ Miss(r)
          /\ UNCHANGED proven
    /\ UNCHANGED <<now, rows, opened, used, crossed, lost>>

\* verify's UPDATE ... WHERE last_counter < step.  It names the subject and
\* not the secret it matched.
Spend(r) ==
    /\ At(r, "spend")
    /\ LET p == reqs[r].proof IN
       IF totp # None /\ totp.last < p.step
       THEN /\ totp' = [totp EXCEPT !.last = p.step]
            /\ crossed' = (crossed \/ totp.secret # p.secret)
            /\ IF reqs[r].op = "totp"
               THEN Goto(r, "complete") /\ UNCHANGED failures
               ELSE Goto(r, "mint") /\ failures' = NoFailures
       ELSE Miss(r) /\ UNCHANGED <<totp, crossed>>
    /\ UNCHANGED <<now, pending, recovery, issued, drawn, opened, used, proven, lost>>

\* Confirm's UPDATE: it names the subject, and neither the secret it
\* matched nor the state it was in.  No row left is no error.
ConfirmWrite(r) ==
    /\ At(r, "confirm")
    /\ LET p == reqs[r].proof IN
       IF totp = None
       THEN UNCHANGED <<totp, crossed>>
       ELSE /\ totp' = [totp EXCEPT !.confirmed = TRUE, !.last = p.step]
            /\ crossed' = (crossed \/ totp.secret # p.secret \/ totp.confirmed)
    /\ Done(r)
    /\ UNCHANGED <<now, pending, recovery, issued, drawn, failures,
                   opened, used, proven, lost>>

\* Begin refuses a confirmed subject, then replaces the row whatever it has
\* become.
Begin(r) ==
    /\ ~Confirmed
    /\ Start(r, "begin", "begin", None, Wrong)
    /\ UNCHANGED <<now, rows, failures, history>>

BeginInsert(r) ==
    /\ At(r, "begin")
    /\ \E s \in Secrets \ drawn :
          /\ totp' = [secret |-> s, confirmed |-> FALSE, last |-> 0]
          /\ drawn' = drawn \cup {s}
    /\ Done(r)
    /\ UNCHANGED <<now, pending, recovery, issued, failures, history>>

Disable ==
    /\ totp # None
    /\ totp' = None
    /\ UNCHANGED <<now, pending, recovery, issued, drawn, failures, reqs, history>>

-----------------------------------------------------------------------------
(* Time and faults.                                                        *)

Tick ==
    /\ now < MaxClock
    /\ now' = now + 1
    /\ UNCHANGED <<rows, failures, reqs, history>>

ExhaustLost(R) == Cardinality({r \in R : At(r, "exhaust")})

\* A handler stops where it is: a database error, or its client gone.
Die(r) ==
    /\ ~At(r, "idle")
    /\ Done(r)
    /\ lost + ExhaustLost({r}) <= MaxLost
    /\ lost' = lost + ExhaustLost({r})
    /\ UNCHANGED <<now, rows, failures, opened, used, proven, crossed>>

\* The process stops and starts again: every handler dies, and the limiter,
\* which lives in memory, forgets.
Restart ==
    /\ reqs' = [r \in Requests |-> Idle]
    /\ failures' = NoFailures
    /\ lost + ExhaustLost(Requests) <= MaxLost
    /\ lost' = lost + ExhaustLost(Requests)
    /\ UNCHANGED <<now, rows, opened, used, proven, crossed>>

Next ==
    \/ \E r \in Requests :
          \/ Hold(r) \/ HoldInsert(r) \/ Present(r) \/ Strike(r) \/ Exhaust(r)
          \/ Complete(r) \/ Mint(r) \/ Redeem(r)
          \/ StepUp(r) \/ Confirm(r) \/ Read(r) \/ Spend(r) \/ ConfirmWrite(r)
          \/ Begin(r) \/ BeginInsert(r) \/ Die(r)
    \/ Sweep \/ Regenerate \/ Disable \/ Tick \/ Restart

Spec == Init /\ [][Next]_vars

-----------------------------------------------------------------------------
(* What must hold.                                                         *)

\* Every variable has its type.
TypeOK ==
    /\ now \in Clock
    /\ pending \in [Halves -> HalfRow]
    /\ recovery \subseteq RecoveryCodes /\ issued \subseteq RecoveryCodes
    /\ totp \in {None} \cup Enrolment
    /\ drawn \subseteq Secrets
    /\ failures \in [Clock -> Nat]
    /\ reqs \in [Requests -> Handler]
    /\ opened \in [Halves -> 0..2]
    /\ used \in [Proofs -> 0..2]
    /\ proven \subseteq Secrets
    /\ crossed \in BOOLEAN
    /\ lost \in Nat

\* A half-session opens one session at most, whichever factors finish it
\* and however many finish at once (Complete).
OneSessionPerHalf == \A h \in Halves : opened[h] <= 1

\* A recovery code opens one session at most, over any half-sessions and
\* any number of requests that post it (SignInRecovery).
RecoveryCodeOnce == \A c \in RecoveryCodes : used[c] <= 1

\* An authenticator code opens one session at most, sign-ins and step-ups
\* together, as long as every UPDATE of totp_secrets lands on the enrolment
\* its handler read (verify).
CodeOnce == ~crossed => \A p \in Otps : used[p] <= 1

\* The secret that is live is one a Confirm saw a code from, as long as
\* every UPDATE lands on the enrolment its handler read (Begin, Confirm).
ProvenUnlessCrossed == ~crossed => (Confirmed => totp.secret \in proven)

\* The same without the proviso: "The secret is confirmed - and the factor
\* live - only once Confirm has seen a code from it" (Enrolment).
ConfirmedWasProven == Confirmed => totp.secret \in proven

\* The misses charged to a half-session: its budget, and what handlers that
\* were already past Pending can add, and one for each delete that never
\* ran (Strike).
StrikeBudget ==
    \A h \in Halves :
        pending[h].attempts < MaxAttempts + Cardinality(Requests) + lost

\* The failures inside the limiter's window: its budget, and what handlers that
\* had already asked can add (limiter).
LimiterBudget == SumFunction(Recent(now)) < LimitFailures + Cardinality(Requests)
=============================================================================

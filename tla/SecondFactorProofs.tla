------------------------- MODULE SecondFactorProofs -------------------------
(***************************************************************************)
(* Theorems about SecondFactor, for any number of handlers, half-sessions, *)
(* secrets and codes.  TypeInv adds to the types what a handler holds at   *)
(* each place.  HalfInv says which handler may still mint for a            *)
(* half-session, CodeInv the same for a recovery code, and OtpInv for an   *)
(* authenticator code, with what the row of totp_secrets must remember.    *)
(***************************************************************************)
EXTENDS SecondFactor, FiniteSetTheorems, WellFoundedInduction, TLAPS

-----------------------------------------------------------------------------
(* Types, and what a handler holds where it is.                            *)

GateOps == {"totp", "recovery", "passkey"}
GuessOps == {"totp", "stepup", "confirm"}

Shaped == {q \in Handler :
    /\ q.half \in Halves <=> q.op \in GateOps
    /\ q.op \in GuessOps => q.proof \in Otps \cup {Wrong}
    /\ q.op = "recovery" => q.proof \in RecoveryCodes \cup {Wrong}
    /\ q.op = "passkey" => q.proof = Signature
    /\ q.at = "read" => q.op \in GuessOps
    /\ q.at = "spend" => q.op \in {"totp", "stepup"} /\ q.proof \in Otps
    /\ q.at = "confirm" => q.op = "confirm" /\ q.proof \in Otps
    /\ q.at = "redeem" => q.op = "recovery"
    /\ q.at \in {"strike", "exhaust", "complete"} => q.op \in GateOps
    /\ q.at = "mint" => q.op \in GateOps \cup {"stepup"}}

TypeInv == TypeOK /\ reqs \in [Requests -> Shaped]

\* The clock is a number, and so is any time after it.
LEMMA ClockType ==
    /\ 0 \in Clock /\ 1 \in Clock
    /\ \A t \in Clock : t \in Nat /\ t + PendingTTL \in Nat
  BY SecondFactorAssumption DEF Clock

\* A handler that has nothing to do is a handler.
LEMMA IdleShape == Idle \in Shaped
  BY ClockType, SecondFactorAssumption
  DEF Idle, Shaped, Handler, Places, Ops, Proofs, GateOps, GuessOps

\* What Start stores is a handler.
LEMMA HandlingType ==
    ASSUME now \in Clock, NEW place \in Places, NEW op \in Ops,
           NEW h \in Halves \cup {None}, NEW p \in Proofs
    PROVE  Handling(place, op, h, p) \in Handler
  <1>1. (IF op = "stepup" THEN now ELSE 0) \in Clock
    BY ClockType
  <1> QED
    BY <1>1 DEF Handling, Handler

\* Moving a handler, ending it and starting it keep the shape of reqs.
LEMMA ReqsShape ==
    ASSUME TypeInv, NEW r \in Requests
    PROVE  /\ \A place \in Places :
                  /\ Goto(r, place)
                  /\ [reqs[r] EXCEPT !.at = place] \in Shaped
                  => reqs' \in [Requests -> Shaped]
           /\ Done(r) => reqs' \in [Requests -> Shaped]
           /\ \A place \in Places, op \in Ops, h \in Halves \cup {None}, p \in Proofs :
                  /\ Start(r, place, op, h, p)
                  /\ Handling(place, op, h, p) \in Shaped
                  => reqs' \in [Requests -> Shaped]
  <1>1. reqs \in [Requests -> Shaped]
    BY DEF TypeInv
  <1>2. Idle \in Shaped
    BY IdleShape
  <1>3. Done(r) => reqs' \in [Requests -> Shaped]
    BY <1>1, <1>2 DEF Done
  <1>4. ASSUME NEW place \in Places, Goto(r, place),
               [reqs[r] EXCEPT !.at = place] \in Shaped
        PROVE  reqs' \in [Requests -> Shaped]
    BY <1>1, <1>4 DEF Goto
  <1>5. ASSUME NEW place \in Places, NEW op \in Ops, NEW h \in Halves \cup {None},
               NEW p \in Proofs, Start(r, place, op, h, p),
               Handling(place, op, h, p) \in Shaped
        PROVE  reqs' \in [Requests -> Shaped]
    BY <1>1, <1>5 DEF Start
  <1> QED
    BY <1>3, <1>4, <1>5

\* Where a handler may go, from where it is.
LEMMA MoveShape ==
    ASSUME NEW q \in Shaped
    PROVE  /\ q.at = "read" /\ q.op = "totp" => [q EXCEPT !.at = "strike"] \in Shaped
           /\ q.at = "read" /\ q.op # "confirm" /\ q.proof \in Otps
                => [q EXCEPT !.at = "spend"] \in Shaped
           /\ q.at = "read" /\ q.op = "confirm" /\ q.proof \in Otps
                => [q EXCEPT !.at = "confirm"] \in Shaped
           /\ q.at = "spend" /\ q.op = "totp"
                => /\ [q EXCEPT !.at = "strike"] \in Shaped
                   /\ [q EXCEPT !.at = "complete"] \in Shaped
           /\ q.at = "spend" => [q EXCEPT !.at = "mint"] \in Shaped
           /\ q.at = "strike" => [q EXCEPT !.at = "exhaust"] \in Shaped
           /\ q.at = "complete" => [q EXCEPT !.at = "mint"] \in Shaped
           /\ q.at = "redeem" => /\ [q EXCEPT !.at = "complete"] \in Shaped
                                 /\ [q EXCEPT !.at = "strike"] \in Shaped
  BY DEF Shaped, Handler, Places, GateOps, GuessOps

\* Deleting a half-session keeps the type of pending.
LEMMA DeleteType ==
    ASSUME TypeOK, NEW h, DeleteHalf(h)
    PROVE  pending' \in [Halves -> HalfRow]
  BY DEF TypeOK, DeleteHalf, HalfRow

\* What the limiter keeps is still a count of each time, and so it is with
\* one failure more.
LEMMA RecentType ==
    ASSUME TypeOK, NEW t \in Clock
    PROVE  /\ Recent(t) \in [Clock -> Nat]
           /\ [Recent(t) EXCEPT ![t] = @ + 1] \in [Clock -> Nat]
  <1>1. Recent(t) \in [Clock -> Nat]
    BY DEF TypeOK, Recent
  <1> QED
    BY <1>1

\* A limiter that forgot.
LEMMA NoFailuresType == NoFailures \in [Clock -> Nat]
  BY DEF NoFailures

\* The guesses a handler may start with.
LEMMA GuessType == Guesses \subseteq Otps \cup {Wrong}
  BY DEF Guesses

\* A handler stopped at Exhaust is one delete that never ran, and all of
\* them are a number.
LEMMA LostType ==
    ASSUME NEW R \in SUBSET Requests
    PROVE  ExhaustLost(R) \in Nat
  <1>1. IsFiniteSet({r \in R : At(r, "exhaust")})
    BY SecondFactorAssumption, FS_Subset
  <1> QED
    BY <1>1, FS_CardinalityType DEF ExhaustLost

\* The initial state has its types.
LEMMA TypeInit == Init => TypeInv
  <1> SUFFICES ASSUME Init
               PROVE  TypeInv
    OBVIOUS
  <1>1. Idle \in Shaped
    BY IdleShape
  <1>2. Shaped \subseteq Handler
    BY DEF Shaped
  <1>3. reqs \in [Requests -> Shaped]
    BY <1>1 DEF Init
  <1>4. pending \in [Halves -> HalfRow]
    BY DEF Init, NoRow, HalfRow
  <1>5. failures \in [Clock -> Nat]
    BY NoFailuresType DEF Init
  <1>6. opened \in [Halves -> 0..2] /\ used \in [Proofs -> 0..2]
    BY DEF Init
  <1> QED
    BY <1>2, <1>3, <1>4, <1>5, <1>6, ClockType DEF Init, TypeInv, TypeOK

\* A miss keeps its types: the handler goes on to its strike, or ends.
LEMMA MissType ==
    ASSUME TypeInv, NEW r \in Requests, Miss(r), At(r, "read") \/ At(r, "spend")
    PROVE  reqs' \in [Requests -> Shaped] /\ failures' \in [Clock -> Nat]
  <1>1. reqs[r] \in Shaped
    BY DEF TypeInv
  <1>2. reqs' \in [Requests -> Shaped]
    BY <1>1, ReqsShape, MoveShape DEF Miss, Places, At
  <1>3. failures' \in [Clock -> Nat]
    <2>1. TypeOK /\ now \in Clock /\ failures \in [Clock -> Nat]
      BY DEF TypeInv, TypeOK
    <2>2. reqs[r].began \in Clock
      BY <1>1 DEF Shaped, Handler
    <2>3. \/ UNCHANGED failures
          \/ \E t \in Clock : failures' = [Recent(t) EXCEPT ![t] = @ + 1]
      BY <2>1, <2>2 DEF Miss
    <2> QED
      BY <2>1, <2>3, RecentType
  <1> QED
    BY <1>2, <1>3

\* Every step keeps every variable's type, and every handler's shape.
LEMMA TypeStep == TypeInv /\ [Next]_vars => TypeInv'
  <1> SUFFICES ASSUME TypeInv, [Next]_vars
               PROVE  TypeInv'
    OBVIOUS
  <1> USE SecondFactorAssumption
  <1>a. TypeOK /\ Shaped \subseteq Handler
    BY DEF TypeInv, Shaped
  <1>b. \A r \in Requests : reqs[r] \in Shaped
    BY DEF TypeInv
  <1>1. ASSUME NEW r \in Requests, Hold(r)
        PROVE  TypeInv'
    <2>1. reqs' \in [Requests -> Shaped]
      <3>1. Handling("hold", "hold", None, Wrong) \in Shaped
        BY <1>a, HandlingType DEF TypeOK, Handling, Shaped, Places, Ops, Proofs, GateOps, GuessOps
      <3> QED
        BY <1>1, <3>1, ReqsShape DEF Hold, Places, Ops, Proofs
    <2> QED
      BY <1>1, <1>a, <2>1 DEF Hold, TypeInv, TypeOK, rows, history
  <1>2. ASSUME NEW r \in Requests, HoldInsert(r)
        PROVE  TypeInv'
    <2>1. reqs' \in [Requests -> Shaped]
      BY <1>2, ReqsShape DEF HoldInsert
    <2>2. pending' \in [Halves -> HalfRow]
      <3>1. now + PendingTTL \in Nat /\ pending \in [Halves -> HalfRow]
        BY <1>a, ClockType DEF TypeOK
      <3> QED
        BY <1>2, <3>1 DEF HoldInsert, HalfRow
    <2> QED
      BY <1>2, <1>a, <2>1, <2>2 DEF HoldInsert, TypeInv, TypeOK, history
  <1>3. ASSUME NEW r \in Requests, Present(r)
        PROVE  TypeInv'
    <2>1. issued \cup {Wrong} \subseteq RecoveryCodes \cup {Wrong}
      BY <1>a DEF TypeOK
    <2>2. reqs' \in [Requests -> Shaped]
      <3>1. PICK h \in Halves :
               \/ \E p \in Guesses : Start(r, "read", "totp", h, p)
               \/ \E c \in issued \cup {Wrong} : Start(r, "redeem", "recovery", h, c)
               \/ Start(r, "complete", "passkey", h, Signature)
        BY <1>3 DEF Present
      <3>2. CASE \E p \in Guesses : Start(r, "read", "totp", h, p)
        <4>1. PICK p \in Otps \cup {Wrong} : Start(r, "read", "totp", h, p)
          BY <3>2, GuessType
        <4>2. Handling("read", "totp", h, p) \in Shaped
          BY <4>1, <1>a, HandlingType DEF TypeOK, Handling, Shaped, Places, Ops, Proofs, GateOps, GuessOps
        <4> QED
          BY <4>1, <4>2, ReqsShape DEF Places, Ops, Proofs
      <3>3. CASE \E c \in issued \cup {Wrong} : Start(r, "redeem", "recovery", h, c)
        <4>1. PICK c \in RecoveryCodes \cup {Wrong} : Start(r, "redeem", "recovery", h, c)
          BY <3>3, <2>1
        <4>2. Handling("redeem", "recovery", h, c) \in Shaped
          BY <4>1, <1>a, HandlingType DEF TypeOK, Handling, Shaped, Places, Ops, Proofs, GateOps, GuessOps
        <4> QED
          BY <4>1, <4>2, ReqsShape DEF Places, Ops, Proofs
      <3>4. CASE Start(r, "complete", "passkey", h, Signature)
        <4>1. Handling("complete", "passkey", h, Signature) \in Shaped
          BY <1>a, HandlingType DEF TypeOK, Handling, Shaped, Places, Ops, Proofs, GateOps, GuessOps
        <4> QED
          BY <3>4, <4>1, ReqsShape DEF Places, Ops, Proofs
      <3> QED
        BY <3>1, <3>2, <3>3, <3>4
    <2> QED
      BY <1>3, <1>a, <2>2 DEF Present, TypeInv, TypeOK, rows, history
  <1>4. ASSUME NEW r \in Requests, Strike(r)
        PROVE  TypeInv'
    <2>1. reqs' \in [Requests -> Shaped]
      BY <1>4, <1>b, ReqsShape, MoveShape DEF Strike, Places, At
    <2>2. pending' \in [Halves -> HalfRow]
      <3>1. CASE Live(reqs[r].half)
        <4> DEFINE h == reqs[r].half
        <4>1. h \in Halves
          BY <1>4, <1>b DEF Strike, At, Shaped, GateOps
        <4>2. pending' = [pending EXCEPT ![h].attempts = pending[h].attempts + 1]
          BY <1>4, <3>1 DEF Strike
        <4>3. [pending[h] EXCEPT !.attempts = pending[h].attempts + 1] \in HalfRow
          <5>1. pending[h] \in HalfRow
            BY <4>1, <1>a DEF TypeOK
          <5>2. pending[h].attempts + 1 \in Nat
            BY <5>1 DEF HalfRow
          <5> QED
            BY <5>1, <5>2 DEF HalfRow
        <4> QED
          BY <4>1, <4>2, <4>3, <1>a DEF TypeOK
      <3>2. CASE ~Live(reqs[r].half)
        BY <1>4, <1>a, <3>2 DEF Strike, TypeOK
      <3> QED
        BY <3>1, <3>2
    <2> QED
      BY <1>4, <1>a, <2>1, <2>2 DEF Strike, TypeInv, TypeOK, history
  <1>5. ASSUME NEW r \in Requests, Exhaust(r)
        PROVE  TypeInv'
    <2>1. reqs' \in [Requests -> Shaped]
      BY <1>5, ReqsShape DEF Exhaust
    <2>2. pending' \in [Halves -> HalfRow]
      BY <1>5, <1>a, DeleteType DEF Exhaust
    <2> QED
      BY <1>5, <1>a, <2>1, <2>2 DEF Exhaust, TypeInv, TypeOK, history
  <1>6. ASSUME NEW r \in Requests, Complete(r)
        PROVE  TypeInv'
    <2>1. reqs' \in [Requests -> Shaped]
      BY <1>6, <1>b, ReqsShape, MoveShape DEF Complete, Places, At
    <2>2. pending' \in [Halves -> HalfRow]
      BY <1>6, <1>a, DeleteType DEF Complete
    <2> QED
      BY <1>6, <1>a, <2>1, <2>2 DEF Complete, TypeInv, TypeOK, history
  <1>7. ASSUME NEW r \in Requests, Mint(r)
        PROVE  TypeInv'
    <2>1. reqs' \in [Requests -> Shaped]
      BY <1>7, ReqsShape DEF Mint
    <2>2. \A n \in 0..2 : Count(n) \in 0..2
      BY DEF Count
    <2>3. opened' \in [Halves -> 0..2]
      BY <1>7, <1>a, <2>2 DEF Mint, TypeOK
    <2>4. used' \in [Proofs -> 0..2]
      BY <1>7, <1>a, <2>2 DEF Mint, TypeOK
    <2> QED
      BY <1>7, <1>a, <2>1, <2>3, <2>4 DEF Mint, TypeInv, TypeOK, rows
  <1>8. ASSUME NEW r \in Requests, Redeem(r)
        PROVE  TypeInv'
    <2>1. reqs' \in [Requests -> Shaped]
      BY <1>8, <1>b, ReqsShape, MoveShape DEF Redeem, Places, At
    <2> QED
      BY <1>8, <1>a, <2>1 DEF Redeem, TypeInv, TypeOK, history
  <1>9. ASSUME NEW r \in Requests, StepUp(r) \/ Confirm(r)
        PROVE  TypeInv'
    <2>1. reqs' \in [Requests -> Shaped]
      <3>1. CASE UNCHANGED reqs
        BY <3>1 DEF TypeInv
      <3>2. CASE \E p \in Guesses, op \in {"stepup", "confirm"} : Start(r, "read", op, None, p)
        <4>1. PICK p \in Otps \cup {Wrong}, op \in {"stepup", "confirm"} :
                 Start(r, "read", op, None, p)
          BY <3>2, GuessType
        <4>2. "read" \in Places /\ op \in Ops /\ p \in Proofs /\ None \in Halves \cup {None}
          BY <4>1 DEF Places, Ops, Proofs
        <4>3. Handling("read", op, None, p) \in Handler
          BY <4>2, <1>a, HandlingType DEF TypeOK
        <4>4. Handling("read", op, None, p) \in Shaped
          BY <4>1, <4>3 DEF Handling, Shaped, GateOps, GuessOps
        <4> QED
          BY <4>1, <4>2, <4>4, ReqsShape
      <3> QED
        BY <1>9, <3>1, <3>2 DEF StepUp, Confirm, Guarded
    <2>2. failures' \in [Clock -> Nat]
      <3>1. failures' = Recent(now) /\ now \in Clock
        BY <1>9, <1>a DEF StepUp, Confirm, Guarded, TypeOK
      <3> QED
        BY <3>1, <1>a, RecentType
    <2> QED
      BY <1>9, <1>a, <2>1, <2>2 DEF StepUp, Confirm, Guarded, TypeInv, TypeOK, rows, history
  <1>10. ASSUME NEW r \in Requests, Read(r)
         PROVE  TypeInv'
    <2>1. At(r, "read") /\ reqs[r] \in Shaped
      BY <1>10, <1>b DEF Read
    <2>2. Verified(r) => reqs[r].proof \in Otps /\ reqs[r].proof.secret \in Secrets
      BY DEF Verified, Matches, Otps
    <2>3. /\ reqs' \in [Requests -> Shaped]
          /\ failures' \in [Clock -> Nat]
          /\ proven' \subseteq Secrets
      <3>1. CASE /\ Verified(r) /\ reqs[r].op # "confirm" /\ Goto(r, "spend")
                 /\ UNCHANGED <<failures, proven>>
        BY <3>1, <1>a, <2>1, <2>2, ReqsShape, MoveShape DEF TypeOK, Places, At
      <3>2. CASE /\ Verified(r) /\ reqs[r].op = "confirm" /\ Goto(r, "confirm")
                 /\ failures' = NoFailures
                 /\ proven' = proven \cup {reqs[r].proof.secret}
        <4>1. reqs' \in [Requests -> Shaped]
          BY <3>2, <2>1, <2>2, ReqsShape, MoveShape DEF Places, At
        <4> QED
          BY <3>2, <1>a, <2>2, <4>1, NoFailuresType DEF TypeOK
      <3>3. CASE Miss(r) /\ UNCHANGED proven
        BY <3>3, <1>a, <2>1, MissType DEF TypeOK
      <3> QED
        BY <1>10, <3>1, <3>2, <3>3 DEF Read
    <2> QED
      BY <1>10, <1>a, <2>3 DEF Read, TypeInv, TypeOK, rows
  <1>11. ASSUME NEW r \in Requests, Spend(r)
         PROVE  TypeInv'
    <2>1. /\ At(r, "spend") /\ reqs[r] \in Shaped
          /\ reqs[r].proof \in Otps /\ reqs[r].proof.step \in Nat
          /\ reqs[r].op \in {"totp", "stepup"}
      BY <1>11, <1>b DEF Spend, At, Shaped, Otps, Steps
    <2>2. CASE totp # None /\ totp.last < reqs[r].proof.step
      <3>1. /\ totp' = [totp EXCEPT !.last = reqs[r].proof.step]
            /\ crossed' = (crossed \/ totp.secret # reqs[r].proof.secret)
            /\ \/ reqs[r].op = "totp" /\ Goto(r, "complete") /\ UNCHANGED failures
               \/ Goto(r, "mint") /\ failures' = NoFailures
        BY <1>11, <2>2 DEF Spend
      <3>2. reqs' \in [Requests -> Shaped]
        BY <3>1, <2>1, ReqsShape, MoveShape DEF Places, At
      <3>3. totp' \in {None} \cup Enrolment
        BY <3>1, <2>1, <2>2, <1>a DEF TypeOK, Enrolment
      <3>4. failures' \in [Clock -> Nat]
        <4>1. failures \in [Clock -> Nat] /\ NoFailures \in [Clock -> Nat]
          BY <1>a, NoFailuresType DEF TypeOK
        <4> QED
          BY <3>1, <4>1
      <3>5. crossed' \in BOOLEAN
        BY <3>1, <1>a DEF TypeOK
      <3> QED
        BY <1>11, <1>a, <3>2, <3>3, <3>4, <3>5 DEF Spend, TypeInv, TypeOK
    <2>3. CASE ~(totp # None /\ totp.last < reqs[r].proof.step)
      <3>1. Miss(r) /\ UNCHANGED <<totp, crossed>>
        BY <1>11, <2>3 DEF Spend
      <3> QED
        BY <1>11, <1>a, <3>1, <2>1, MissType DEF Spend, TypeInv, TypeOK
    <2> QED
      BY <2>2, <2>3
  <1>12. ASSUME NEW r \in Requests, ConfirmWrite(r)
         PROVE  TypeInv'
    <2>1. reqs' \in [Requests -> Shaped]
      BY <1>12, ReqsShape DEF ConfirmWrite
    <2>2. reqs[r].proof.step \in Nat
      BY <1>12, <1>b DEF ConfirmWrite, At, Shaped, Otps, Steps
    <2>3. totp' \in {None} \cup Enrolment /\ crossed' \in BOOLEAN
      <3>1. CASE totp = None
        BY <1>12, <1>a, <3>1 DEF ConfirmWrite, TypeOK
      <3>2. CASE totp # None
        BY <1>12, <1>a, <2>2, <3>2 DEF ConfirmWrite, TypeOK, Enrolment
      <3> QED
        BY <3>1, <3>2
    <2> QED
      BY <1>12, <1>a, <2>1, <2>3 DEF ConfirmWrite, TypeInv, TypeOK
  <1>13. ASSUME NEW r \in Requests, Begin(r)
         PROVE  TypeInv'
    <2>1. reqs' \in [Requests -> Shaped]
      <3>1. Handling("begin", "begin", None, Wrong) \in Shaped
        BY <1>a, HandlingType DEF TypeOK, Handling, Shaped, Places, Ops, Proofs, GateOps, GuessOps
      <3> QED
        BY <1>13, <3>1, ReqsShape DEF Begin, Places, Ops, Proofs
    <2> QED
      BY <1>13, <1>a, <2>1 DEF Begin, TypeInv, TypeOK, rows, history
  <1>14. ASSUME NEW r \in Requests, BeginInsert(r)
         PROVE  TypeInv'
    <2>1. reqs' \in [Requests -> Shaped]
      BY <1>14, ReqsShape DEF BeginInsert
    <2>2. totp' \in {None} \cup Enrolment /\ drawn' \subseteq Secrets
      BY <1>14, <1>a DEF BeginInsert, TypeOK, Enrolment
    <2> QED
      BY <1>14, <1>a, <2>1, <2>2 DEF BeginInsert, TypeInv, TypeOK, history
  <1>15. ASSUME NEW r \in Requests, Die(r)
         PROVE  TypeInv'
    <2>1. reqs' \in [Requests -> Shaped]
      BY <1>15, ReqsShape DEF Die
    <2>2. lost' \in Nat
      BY <1>15, <1>a, LostType DEF Die, TypeOK
    <2> QED
      BY <1>15, <1>a, <2>1, <2>2 DEF Die, TypeInv, TypeOK, rows
  <1>16. ASSUME Sweep
         PROVE  TypeInv'
    <2>1. pending' \in [Halves -> HalfRow]
      BY <1>16, <1>a DEF Sweep, TypeOK, HalfRow
    <2> QED
      BY <1>16, <1>a, <2>1 DEF Sweep, TypeInv, TypeOK, history
  <1>17. ASSUME Regenerate
         PROVE  TypeInv'
    BY <1>17, <1>a DEF Regenerate, TypeInv, TypeOK, history
  <1>18. ASSUME Disable
         PROVE  TypeInv'
    BY <1>18, <1>a DEF Disable, TypeInv, TypeOK, history
  <1>19. ASSUME Tick
         PROVE  TypeInv'
    <2>1. now' \in Clock
      BY <1>19, <1>a DEF Tick, TypeOK, Clock
    <2> QED
      BY <1>19, <1>a, <2>1 DEF Tick, TypeInv, TypeOK, rows, history
  <1>20. ASSUME Restart
         PROVE  TypeInv'
    <2>1. reqs' \in [Requests -> Shaped]
      <3>1. Idle \in Shaped
        BY IdleShape
      <3> QED
        BY <1>20, <3>1 DEF Restart
    <2>2. lost' \in Nat /\ failures' \in [Clock -> Nat]
      BY <1>20, <1>a, LostType, NoFailuresType DEF Restart, TypeOK
    <2> QED
      BY <1>20, <1>a, <2>1, <2>2 DEF Restart, TypeInv, TypeOK, rows
  <1>21. ASSUME UNCHANGED vars
         PROVE  TypeInv'
    BY <1>21 DEF vars, rows, history, TypeInv, TypeOK
  <1> QED
    BY <1>1, <1>2, <1>3, <1>4, <1>5, <1>6, <1>7, <1>8, <1>9, <1>10, <1>11, <1>12,
       <1>13, <1>14, <1>15, <1>16, <1>17, <1>18, <1>19, <1>20, <1>21 DEF Next

\* Type correctness: every variable of SecondFactor has its type in every
\* reachable state (secondfactor.Gate, totp.Handlers).
THEOREM TypeCorrect == Spec => []TypeOK
  <1>1. TypeInv => TypeOK
    BY DEF TypeInv
  <1> QED
    BY TypeInit, TypeStep, <1>1, PTL DEF Spec

-----------------------------------------------------------------------------
(* Who may still mint.                                                     *)

MintsFor(r, h) == At(r, "mint") /\ reqs[r].half = h
Holds(r, p) == reqs[r].at \in {"complete", "mint"} /\ reqs[r].proof = p

\* A proof is claimed once a session was opened with it, or a handler holds
\* it past the statement that spent it.
Claimed(p) == used[p] > 0 \/ \E r \in Requests : Holds(r, p)

\* Of a proof's sessions and holders there is one at most.
Once(p) ==
    /\ used[p] <= 1
    /\ \A r \in Requests : Holds(r, p) =>
           used[p] = 0 /\ \A s \in Requests : Holds(s, p) => s = r

\* The handlers after one of them ends, moves or starts.
LEMMA ReqsAfter ==
    ASSUME TypeInv, NEW r \in Requests
    PROVE  /\ Done(r) => /\ reqs'[r].at = "idle"
                        /\ \A q \in Requests \ {r} : reqs'[q] = reqs[q]
           /\ \A place : Goto(r, place) =>
                  /\ reqs'[r].at = place /\ reqs'[r].op = reqs[r].op
                  /\ reqs'[r].half = reqs[r].half /\ reqs'[r].proof = reqs[r].proof
                  /\ \A q \in Requests \ {r} : reqs'[q] = reqs[q]
           /\ \A place, op, h, p : Start(r, place, op, h, p) =>
                  /\ reqs'[r].at = place /\ reqs'[r].proof = p
                  /\ \A q \in Requests \ {r} : reqs'[q] = reqs[q]
  <1>1. /\ reqs \in [Requests -> Shaped]
        /\ reqs[r] \in Handler
    BY DEF TypeInv, Shaped
  <1>2. Done(r) => /\ reqs'[r].at = "idle"
                   /\ \A q \in Requests \ {r} : reqs'[q] = reqs[q]
    BY <1>1 DEF Done, Idle
  <1>3. ASSUME NEW place, Goto(r, place)
        PROVE  /\ reqs'[r].at = place /\ reqs'[r].op = reqs[r].op
               /\ reqs'[r].half = reqs[r].half /\ reqs'[r].proof = reqs[r].proof
               /\ \A q \in Requests \ {r} : reqs'[q] = reqs[q]
    BY <1>1, <1>3 DEF Goto, Handler
  <1>4. ASSUME NEW place, NEW op, NEW h, NEW p, Start(r, place, op, h, p)
        PROVE  /\ reqs'[r].at = place /\ reqs'[r].proof = p
               /\ \A q \in Requests \ {r} : reqs'[q] = reqs[q]
    BY <1>1, <1>4 DEF Start, Handling
  <1> QED
    BY <1>2, <1>3, <1>4

\* A handler that ends, or goes anywhere but to Complete and Mint, claims
\* nothing.
LEMMA QuietMove ==
    ASSUME TypeInv, NEW r \in Requests,
           \/ Done(r)
           \/ \E place \in Places \ {"complete", "mint"} : Goto(r, place)
           \/ \E place \in Places \ {"complete", "mint"} : \E op, h, p : Start(r, place, op, h, p)
    PROVE  /\ \A q \in Requests : \A p : Holds(q, p)' => Holds(q, p)
           /\ \A q \in Requests : \A h : MintsFor(q, h)' => MintsFor(q, h)
  <1>1. reqs'[r].at \notin {"complete", "mint"}
    BY ReqsAfter
  <1>2. \A q \in Requests \ {r} : reqs'[q] = reqs[q]
    BY ReqsAfter
  <1> QED
    BY <1>1, <1>2 DEF Holds, MintsFor, At

\* So does a miss.
LEMMA QuietMiss ==
    ASSUME TypeInv, NEW r \in Requests, Miss(r)
    PROVE  /\ \A q \in Requests : \A p : Holds(q, p)' => Holds(q, p)
           /\ \A q \in Requests : \A h : MintsFor(q, h)' => MintsFor(q, h)
  <1>1. Done(r) \/ Goto(r, "strike")
    BY DEF Miss
  <1> QED
    BY <1>1, QuietMove DEF Places

\* What a step does to the handlers: all but three claim nothing.
LEMMA ReqsStep ==
    ASSUME TypeInv, [Next]_vars
    PROVE  \/ /\ \A q \in Requests : \A p : Holds(q, p)' => Holds(q, p)
              /\ \A q \in Requests : \A h : MintsFor(q, h)' => MintsFor(q, h)
           \/ \E r \in Requests : Present(r) \/ Redeem(r) \/ Spend(r) \/ Complete(r)
  <1> DEFINE Quiet == /\ \A q \in Requests : \A p : Holds(q, p)' => Holds(q, p)
                      /\ \A q \in Requests : \A h : MintsFor(q, h)' => MintsFor(q, h)
  <1>1. ASSUME NEW r \in Requests,
               \/ HoldInsert(r) \/ Exhaust(r) \/ Mint(r) \/ ConfirmWrite(r)
               \/ BeginInsert(r) \/ Die(r)
        PROVE  Quiet
    <2>1. Done(r)
      BY <1>1 DEF HoldInsert, Exhaust, Mint, ConfirmWrite, BeginInsert, Die
    <2> QED
      BY <2>1, QuietMove
  <1>2. ASSUME NEW r \in Requests, Hold(r) \/ StepUp(r) \/ Confirm(r) \/ Begin(r)
        PROVE  Quiet
    <2>1. \/ UNCHANGED reqs
          \/ \E place \in Places \ {"complete", "mint"} : \E op, h, p : Start(r, place, op, h, p)
      BY <1>2 DEF Hold, Guarded, StepUp, Confirm, Begin, Places
    <2> QED
      BY <2>1, QuietMove DEF Holds, MintsFor, At
  <1>3. ASSUME NEW r \in Requests, Strike(r)
        PROVE  Quiet
    <2>1. Done(r) \/ Goto(r, "exhaust")
      BY <1>3 DEF Strike
    <2> QED
      BY <2>1, QuietMove DEF Places
  <1>4. ASSUME NEW r \in Requests, Read(r)
        PROVE  Quiet
    <2>1. Goto(r, "spend") \/ Goto(r, "confirm") \/ Miss(r)
      BY <1>4 DEF Read
    <2> QED
      BY <2>1, QuietMove, QuietMiss DEF Places
  <1>5. ASSUME Restart
        PROVE  Quiet
    BY <1>5 DEF Restart, Idle, Holds, MintsFor, At
  <1>6. ASSUME Sweep \/ Regenerate \/ Disable \/ Tick \/ UNCHANGED vars
        PROVE  Quiet
    <2>1. reqs' = reqs
      BY <1>6 DEF Sweep, Regenerate, Disable, Tick, vars
    <2> QED
      BY <2>1 DEF Holds, MintsFor, At
  <1> QED
    BY <1>1, <1>2, <1>3, <1>4, <1>5, <1>6 DEF Next

\* Only Mint opens sessions.
LEMMA HistoryStep ==
    ASSUME [Next]_vars
    PROVE  \/ opened' = opened /\ used' = used
           \/ \E r \in Requests : Mint(r)
  BY DEF Next, Hold, HoldInsert, Present, Strike, Exhaust, Complete, Redeem, Guarded,
         StepUp, Confirm, Read, Spend, ConfirmWrite, Begin, BeginInsert, Die, Sweep,
         Regenerate, Disable, Tick, Restart, vars, history

-----------------------------------------------------------------------------
(* A half-session opens one session at most.                               *)

HalfOnce(h) ==
    /\ opened[h] <= 1
    /\ pending[h].state # "gone" => opened[h] = 0
    /\ \A r \in Requests : MintsFor(r, h) =>
           /\ opened[h] = 0
           /\ pending[h].state = "gone"
           /\ \A s \in Requests : MintsFor(s, h) => s = r

HalfInv == \A h \in Halves : HalfOnce(h)

\* A row that is gone stays gone.
LEMMA GoneStays ==
    ASSUME TypeInv, [Next]_vars, NEW h \in Halves, pending[h].state = "gone"
    PROVE  pending'[h].state = "gone"
  <1>1. pending \in [Halves -> HalfRow]
    BY DEF TypeInv, TypeOK
  <1>2. ASSUME NEW r \in Requests, HoldInsert(r)
        PROVE  pending'[h].state = "gone"
    BY <1>1, <1>2 DEF HoldInsert
  <1>3. ASSUME NEW r \in Requests, Strike(r)
        PROVE  pending'[h].state = "gone"
    BY <1>1, <1>3 DEF Strike, HalfRow
  <1>4. ASSUME NEW r \in Requests, Exhaust(r) \/ Complete(r)
        PROVE  pending'[h].state = "gone"
    BY <1>1, <1>4 DEF Exhaust, Complete, DeleteHalf, HalfRow
  <1>5. ASSUME Sweep
        PROVE  pending'[h].state = "gone"
    BY <1>1, <1>5 DEF Sweep, HalfRow
  <1>6. \/ pending' = pending \/ Sweep
        \/ \E r \in Requests : HoldInsert(r) \/ Strike(r) \/ Exhaust(r) \/ Complete(r)
    BY DEF Next, Hold, Present, Mint, Redeem, Guarded, StepUp, Confirm, Read, Spend,
           ConfirmWrite, Begin, BeginInsert, Die, Regenerate, Disable, Tick, Restart,
           vars, rows
  <1> QED
    BY <1>2, <1>3, <1>4, <1>5, <1>6

\* Every step keeps HalfInv: Complete is the one statement that lets a
\* handler mint, and it finds the row live once.
LEMMA HalfStep == TypeInv /\ HalfInv /\ [Next]_vars => HalfInv'
  <1> SUFFICES ASSUME TypeInv, HalfInv, [Next]_vars, NEW h \in Halves
               PROVE  HalfOnce(h)'
    BY DEF HalfInv
  <1>1. HalfOnce(h)
    BY DEF HalfInv
  <1>2. /\ opened \in [Halves -> 0..2]
        /\ \A r \in Requests : reqs[r] \in Shaped
        /\ None \notin Halves
    BY SecondFactorAssumption DEF TypeInv, TypeOK
  <1>3. ASSUME opened' = opened,
               \A q \in Requests : MintsFor(q, h)' => MintsFor(q, h)
        PROVE  HalfOnce(h)'
    BY <1>1, <1>3, GoneStays DEF HalfOnce
  <1>4. ASSUME NEW r \in Requests, Complete(r)
        PROVE  HalfOnce(h)'
    <2>1. opened' = opened
      BY <1>4 DEF Complete, history
    <2>2. CASE Live(reqs[r].half) /\ reqs[r].half = h
      <3>1. pending'[h].state = "gone" /\ pending[h].state = "live"
        BY <1>4, <2>2 DEF Complete, DeleteHalf, Live, TypeInv, TypeOK, HalfRow
      <3>2. \A q \in Requests : MintsFor(q, h)' => q = r
        BY <1>1, <1>4, <2>2, <3>1, ReqsAfter DEF Complete, MintsFor, At, HalfOnce
      <3> QED
        BY <1>1, <2>1, <3>1, <3>2 DEF HalfOnce
    <2>3. CASE ~(Live(reqs[r].half) /\ reqs[r].half = h)
      <3>1. \A q \in Requests : MintsFor(q, h)' => MintsFor(q, h)
        BY <1>4, <2>3, ReqsAfter DEF Complete, MintsFor, At
      <3> QED
        BY <1>3, <2>1, <3>1
    <2> QED
      BY <2>2, <2>3
  <1>5. ASSUME NEW r \in Requests, Spend(r)
        PROVE  HalfOnce(h)'
    <2>1. opened' = opened
      BY <1>5 DEF Spend
    <2>2. \A q \in Requests : MintsFor(q, h)' => MintsFor(q, h)
      <3>1. CASE Miss(r)
        BY <3>1, QuietMiss
      <3>2. CASE Goto(r, "complete")
        BY <3>2, ReqsAfter DEF MintsFor, At
      <3>3. CASE Goto(r, "mint") /\ reqs[r].op # "totp"
        <4>1. reqs[r].half \notin Halves
          BY <1>2, <1>5, <3>3 DEF Spend, At, Shaped, GateOps
        <4> QED
          BY <3>3, <4>1, ReqsAfter DEF MintsFor, At
      <3> QED
        BY <1>5, <3>1, <3>2, <3>3 DEF Spend
    <2> QED
      BY <1>3, <2>1, <2>2
  <1>6. ASSUME NEW r \in Requests, Present(r) \/ Redeem(r)
        PROVE  HalfOnce(h)'
    <2>1. opened' = opened
      BY <1>6 DEF Present, Redeem, history
    <2>2. \A q \in Requests : MintsFor(q, h)' => MintsFor(q, h)
      BY <1>6, ReqsAfter DEF Present, Redeem, MintsFor, At
    <2> QED
      BY <1>3, <2>1, <2>2
  <1>7. ASSUME NEW r \in Requests, Mint(r)
        PROVE  HalfOnce(h)'
    <2>1. \A q \in Requests : MintsFor(q, h)' => MintsFor(q, h) /\ q # r
      BY <1>7, ReqsAfter DEF Mint, MintsFor, At
    <2>2. CASE reqs[r].half = h
      <3>1. MintsFor(r, h) /\ opened'[h] = Count(opened[h])
        BY <1>7, <1>2, <2>2 DEF Mint, MintsFor
      <3>2. opened[h] = 0 /\ opened'[h] = 1 /\ pending[h].state = "gone"
        BY <1>1, <3>1 DEF HalfOnce, Count
      <3>3. \A q \in Requests : ~MintsFor(q, h)'
        BY <1>1, <2>1, <3>1 DEF HalfOnce
      <3> QED
        BY <3>2, <3>3, GoneStays DEF HalfOnce
    <2>3. CASE reqs[r].half # h
      <3>1. opened'[h] = opened[h]
        BY <1>7, <1>2, <2>3 DEF Mint
      <3> QED
        BY <1>1, <2>1, <3>1, GoneStays DEF HalfOnce
    <2> QED
      BY <2>2, <2>3
  <1> QED
    BY <1>3, <1>4, <1>5, <1>6, <1>7, ReqsStep, HistoryStep

\* However many factors, guesses, crashes and retries finish a
\* half-session, it opens one session at most (Gate.Complete).
THEOREM OneSession == Spec => []OneSessionPerHalf
  <1>1. Init => HalfInv
    BY DEF Init, HalfInv, HalfOnce, NoRow, Idle, MintsFor, At
  <1>2. HalfInv => OneSessionPerHalf
    BY DEF HalfInv, HalfOnce, OneSessionPerHalf
  <1> QED
    BY TypeInit, TypeStep, HalfStep, <1>1, <1>2, PTL DEF Spec

-----------------------------------------------------------------------------
(* A code opens one session at most.                                       *)

\* The statement that spends a proof: Redeem deletes a code that is there,
\* Spend moves last_counter past its step.
NewClaim(r, p) ==
    /\ reqs[r].proof = p
    /\ \/ Redeem(r) /\ p \in recovery
       \/ Spend(r) /\ totp # None /\ totp.last < p.step

\* Any step either claims nothing anew and keeps a proof at one session, or
\* spends it; and spending an unclaimed proof leaves one holder.
LEMMA ClaimStep ==
    ASSUME TypeInv, [Next]_vars, NEW p \in Otps \cup RecoveryCodes
    PROVE  \/ /\ Claimed(p)' => Claimed(p)
              /\ Once(p) => Once(p)'
           \/ \E r \in Requests : NewClaim(r, p) /\ (~Claimed(p) => Once(p)')
  <1> DEFINE Kept == /\ Claimed(p)' => Claimed(p)
                     /\ Once(p) => Once(p)'
  <1>1. /\ used \in [Proofs -> 0..2] /\ p \in Proofs
        /\ \A r \in Requests : reqs[r] \in Shaped
        /\ p # Signature /\ p # Wrong
    BY SecondFactorAssumption DEF TypeInv, TypeOK, Proofs
  <1>2. ASSUME used' = used, \A q \in Requests : Holds(q, p)' => Holds(q, p)
        PROVE  Kept
    BY <1>2 DEF Claimed, Once
  <1>3. ASSUME NEW r \in Requests, Mint(r)
        PROVE  Kept
    <2>1. \A q \in Requests : Holds(q, p)' => Holds(q, p) /\ q # r
      BY <1>3, ReqsAfter DEF Mint, Holds, At
    <2>2. CASE reqs[r].proof = p
      <3>1. Holds(r, p) /\ used'[p] = Count(used[p])
        BY <1>1, <1>3, <2>2 DEF Mint, Holds, At
      <3>2. Claimed(p)
        BY <3>1 DEF Claimed
      <3>3. ASSUME Once(p)
            PROVE  Once(p)'
        <4>1. used'[p] = 1
          BY <3>1, <3>3 DEF Once, Count
        <4>2. \A q \in Requests : ~Holds(q, p)'
          BY <2>1, <3>1, <3>3 DEF Once
        <4> QED
          BY <4>1, <4>2 DEF Once
      <3> QED
        BY <3>2, <3>3
    <2>3. CASE reqs[r].proof # p
      <3>1. used'[p] = used[p]
        BY <1>1, <1>3, <2>3 DEF Mint
      <3> QED
        BY <2>1, <3>1 DEF Claimed, Once
    <2> QED
      BY <2>2, <2>3
  <1>4. ASSUME NEW r \in Requests, Complete(r)
        PROVE  Kept
    <2>1. used' = used
      BY <1>4 DEF Complete, history
    <2>2. \A q \in Requests : Holds(q, p)' => Holds(q, p)
      BY <1>4, ReqsAfter DEF Complete, Holds, At
    <2> QED
      BY <1>2, <2>1, <2>2
  <1>5. ASSUME NEW r \in Requests, Present(r)
        PROVE  Kept
    <2>1. used' = used
      BY <1>5 DEF Present, history
    <2>2. \A q \in Requests : Holds(q, p)' => Holds(q, p)
      BY <1>1, <1>5, ReqsAfter DEF Present, Holds
    <2> QED
      BY <1>2, <2>1, <2>2
  <1>6. ASSUME NEW r \in Requests, reqs[r].proof = p, used' = used,
               \A q \in Requests \ {r} : reqs'[q] = reqs[q], ~Claimed(p)
        PROVE  Once(p)'
    <2>1. used'[p] = 0
      BY <1>1, <1>6 DEF Claimed
    <2>2. \A q \in Requests : Holds(q, p)' => q = r
      BY <1>6 DEF Claimed, Holds
    <2> QED
      BY <2>1, <2>2 DEF Once
  <1>7. ASSUME NEW r \in Requests, Redeem(r)
        PROVE  Kept \/ (NewClaim(r, p) /\ (~Claimed(p) => Once(p)'))
    <2>1. used' = used
      BY <1>7 DEF Redeem, history
    <2>2. CASE reqs[r].proof = p /\ p \in recovery
      <3>1. NewClaim(r, p)
        BY <1>7, <2>2 DEF NewClaim
      <3>2. \A q \in Requests \ {r} : reqs'[q] = reqs[q]
        BY <1>7, ReqsAfter DEF Redeem
      <3> QED
        BY <1>6, <2>1, <2>2, <3>1, <3>2
    <2>3. CASE ~(reqs[r].proof = p /\ p \in recovery)
      <3>1. \A q \in Requests : Holds(q, p)' => Holds(q, p)
        BY <1>7, <2>3, ReqsAfter DEF Redeem, Holds
      <3> QED
        BY <1>2, <2>1, <3>1
    <2> QED
      BY <2>2, <2>3
  <1>8. ASSUME NEW r \in Requests, Spend(r)
        PROVE  Kept \/ (NewClaim(r, p) /\ (~Claimed(p) => Once(p)'))
    <2>1. used' = used
      BY <1>8 DEF Spend
    <2>2. CASE totp # None /\ totp.last < reqs[r].proof.step
      <3>1. Goto(r, "complete") \/ Goto(r, "mint")
        BY <1>8, <2>2 DEF Spend
      <3>2. CASE reqs[r].proof = p
        <4>1. NewClaim(r, p)
          BY <1>8, <2>2, <3>2 DEF NewClaim
        <4>2. \A q \in Requests \ {r} : reqs'[q] = reqs[q]
          BY <3>1, ReqsAfter
        <4> QED
          BY <1>6, <2>1, <3>2, <4>1, <4>2
      <3>3. CASE reqs[r].proof # p
        <4>1. \A q \in Requests : Holds(q, p)' => Holds(q, p)
          BY <3>1, <3>3, ReqsAfter DEF Holds
        <4> QED
          BY <1>2, <2>1, <4>1
      <3> QED
        BY <3>2, <3>3
    <2>3. CASE ~(totp # None /\ totp.last < reqs[r].proof.step)
      <3>1. Miss(r)
        BY <1>8, <2>3 DEF Spend
      <3> QED
        BY <1>2, <2>1, <3>1, QuietMiss
    <2> QED
      BY <2>2, <2>3
  <1> QED
    BY <1>2, <1>3, <1>4, <1>5, <1>7, <1>8, ReqsStep, HistoryStep

\* A claimed recovery code is out of the table, and never drawn again.
CodeInv ==
    /\ recovery \subseteq issued
    /\ \A c \in RecoveryCodes :
          Once(c) /\ (Claimed(c) => c \in issued /\ c \notin recovery)

\* Every step keeps CodeInv.
LEMMA CodeStep == TypeInv /\ CodeInv /\ [Next]_vars => CodeInv'
  <1> SUFFICES ASSUME TypeInv, CodeInv, [Next]_vars
               PROVE  CodeInv'
    OBVIOUS
  <1>1. /\ recovery' \subseteq issued'
        /\ \A c \in issued \ recovery : c \in issued' /\ c \notin recovery'
    <2>1. CASE Regenerate
      BY <2>1 DEF Regenerate, CodeInv
    <2>2. ASSUME NEW r \in Requests, Redeem(r)
          PROVE  recovery' = recovery \ {reqs[r].proof} /\ issued' = issued
      BY <2>2 DEF Redeem
    <2>3. \/ recovery' = recovery /\ issued' = issued
          \/ Regenerate
          \/ \E r \in Requests : Redeem(r)
      BY DEF Next, Hold, HoldInsert, Present, Strike, Exhaust, Complete, Mint, Guarded,
             StepUp, Confirm, Read, Spend, ConfirmWrite, Begin, BeginInsert, Die, Sweep,
             Disable, Tick, Restart, vars, rows
    <2> QED
      BY <2>1, <2>2, <2>3 DEF CodeInv
  <1>2. ASSUME NEW c \in RecoveryCodes
        PROVE  (Once(c) /\ (Claimed(c) => c \in issued /\ c \notin recovery))'
    <2>1. Once(c) /\ (Claimed(c) => c \in issued /\ c \notin recovery)
      BY DEF CodeInv
    <2>2. CASE /\ Claimed(c)' => Claimed(c)
               /\ Once(c) => Once(c)'
      BY <1>1, <2>1, <2>2
    <2>3. ASSUME NEW r \in Requests, NewClaim(r, c), ~Claimed(c) => Once(c)'
          PROVE  (Once(c) /\ (Claimed(c) => c \in issued /\ c \notin recovery))'
      <3>1. ~Spend(r)
        <4>1. Spend(r) => reqs[r].proof \in Otps
          BY DEF Spend, At, TypeInv, Shaped
        <4> QED
          BY <4>1, <2>3, SecondFactorAssumption DEF NewClaim
      <3>2. c \in recovery /\ Redeem(r) /\ reqs[r].proof = c
        BY <2>3, <3>1 DEF NewClaim
      <3>3. c \in issued' /\ c \notin recovery'
        BY <3>2 DEF Redeem, CodeInv
      <3> QED
        BY <2>1, <2>3, <3>2, <3>3
    <2> QED
      BY <2>2, <2>3, ClaimStep
  <1> QED
    BY <1>1, <1>2 DEF CodeInv

\* Initially nothing is claimed.
LEMMA ClaimInit == Init => \A p \in Otps \cup RecoveryCodes : Once(p) /\ ~Claimed(p)
  BY DEF Init, Idle, Once, Claimed, Holds, Proofs

\* However many requests post a recovery code, over whichever half-sessions,
\* it opens one session at most (Gate.SignInRecovery).
THEOREM RecoveryOnce == Spec => []RecoveryCodeOnce
  <1>1. Init => CodeInv
    BY ClaimInit DEF Init, CodeInv
  <1>2. CodeInv => RecoveryCodeOnce
    BY DEF CodeInv, Once, RecoveryCodeOnce
  <1> QED
    BY TypeInit, TypeStep, CodeStep, <1>1, <1>2, PTL DEF Spec

-----------------------------------------------------------------------------
(* The authenticator: what the row remembers.                              *)

Row(s) == totp # None /\ totp.secret = s

EnrolInv ==
    /\ totp # None => totp.secret \in drawn
    /\ \A r \in Requests : At(r, "spend") =>
           /\ reqs[r].proof.secret \in drawn
           /\ Row(reqs[r].proof.secret) => totp.confirmed
    /\ \A r \in Requests : At(r, "confirm") => reqs[r].proof.secret \in proven
    /\ ~crossed => (Confirmed => totp.secret \in proven)

\* All but five actions leave the row, and what is held for it, alone.
LEMMA EnrolQuiet ==
    ASSUME TypeInv, [Next]_vars
    PROVE  \/ /\ UNCHANGED <<totp, drawn, proven, crossed>>
              /\ \A q \in Requests : reqs'[q].at \in {"spend", "confirm"} => reqs'[q] = reqs[q]
           \/ \E r \in Requests : Read(r) \/ Spend(r) \/ ConfirmWrite(r) \/ BeginInsert(r)
           \/ Disable
  <1> DEFINE Quiet == \A q \in Requests :
                          reqs'[q].at \in {"spend", "confirm"} => reqs'[q] = reqs[q]
  <1>1. \/ UNCHANGED <<totp, drawn, proven, crossed>>
        \/ \E r \in Requests : Read(r) \/ Spend(r) \/ ConfirmWrite(r) \/ BeginInsert(r)
        \/ Disable
    BY ZenonT(30) DEF Next, Hold, HoldInsert, Present, Strike, Exhaust, Complete, Mint, Redeem,
           Guarded, StepUp, Confirm, Begin, Die, Sweep, Regenerate, Tick, Restart, vars, rows,
           history
  <1>2. ASSUME NEW r \in Requests,
               \/ Hold(r) \/ HoldInsert(r) \/ Present(r) \/ Strike(r) \/ Exhaust(r)
               \/ Complete(r) \/ Mint(r) \/ Redeem(r) \/ StepUp(r) \/ Confirm(r)
               \/ Begin(r) \/ Die(r)
        PROVE  Quiet
    <2>1. \/ Done(r) \/ UNCHANGED reqs
          \/ \E place \in Places \ {"spend", "confirm"} : Goto(r, place)
          \/ \E place \in Places \ {"spend", "confirm"} : \E op, h, p : Start(r, place, op, h, p)
      BY <1>2 DEF Hold, HoldInsert, Present, Strike, Exhaust, Complete, Mint, Redeem,
                  Guarded, StepUp, Confirm, Begin, Die, Places
    <2>2. UNCHANGED reqs \/ reqs'[r].at \notin {"spend", "confirm"}
      BY <2>1, ReqsAfter
    <2>3. \A q \in Requests \ {r} : reqs'[q] = reqs[q]
      BY <2>1, ReqsAfter
    <2> QED
      BY <2>2, <2>3
  <1>3. ASSUME Sweep \/ Regenerate \/ Tick \/ UNCHANGED vars
        PROVE  Quiet
    BY <1>3 DEF Sweep, Regenerate, Tick, vars
  <1>4. ASSUME Restart
        PROVE  Quiet
    BY <1>4 DEF Restart, Idle
  <1> QED
    BY <1>1, <1>2, <1>3, <1>4 DEF Next

\* A handler that is at Spend or Confirm after a miss, or an end, was there.
LEMMA EnrolMove ==
    ASSUME TypeInv, NEW r \in Requests,
           \/ Done(r) \/ Miss(r) \/ Goto(r, "complete") \/ Goto(r, "mint")
    PROVE  \A q \in Requests : reqs'[q].at \in {"spend", "confirm"} => reqs'[q] = reqs[q]
  <1>1. Done(r) \/ Goto(r, "strike") \/ Goto(r, "complete") \/ Goto(r, "mint")
    BY DEF Miss
  <1>2. reqs'[r].at \notin {"spend", "confirm"}
    BY <1>1, ReqsAfter
  <1>3. \A q \in Requests \ {r} : reqs'[q] = reqs[q]
    BY <1>1, ReqsAfter
  <1> QED
    BY <1>2, <1>3

\* Every step keeps EnrolInv.
LEMMA EnrolStep == TypeInv /\ EnrolInv /\ [Next]_vars => EnrolInv'
  <1> SUFFICES ASSUME TypeInv, EnrolInv, [Next]_vars
               PROVE  EnrolInv'
    OBVIOUS
  <1>1. /\ totp \in {None} \cup Enrolment
        /\ \A r \in Requests : reqs[r] \in Shaped
        /\ None \notin Enrolment
    BY SecondFactorAssumption DEF TypeInv, TypeOK
  <1>2. CASE /\ UNCHANGED <<totp, drawn, proven, crossed>>
             /\ \A q \in Requests : reqs'[q].at \in {"spend", "confirm"} => reqs'[q] = reqs[q]
    BY <1>2 DEF EnrolInv, Row, Confirmed, At
  <1>3. ASSUME NEW r \in Requests, Read(r)
        PROVE  EnrolInv'
    <2>1. UNCHANGED <<totp, drawn, crossed>> /\ proven \subseteq proven'
      BY <1>3 DEF Read, rows
    <2>2. CASE Verified(r) /\ (Goto(r, "spend") \/ Goto(r, "confirm"))
      <3>1. /\ \A q \in Requests \ {r} : reqs'[q] = reqs[q]
            /\ reqs'[r].proof = reqs[r].proof
        BY <2>2, ReqsAfter
      <3>2. totp # None /\ totp.secret = reqs[r].proof.secret
        BY <2>2 DEF Verified, Matches
      <3>3. reqs'[r].at = "spend" => totp.confirmed
        BY <1>3, <2>2, <1>1, ReqsAfter DEF Verified, Read, Miss, Enrolment
      <3>4. reqs'[r].at = "confirm" => reqs[r].proof.secret \in proven'
        BY <1>3, <2>2, ReqsAfter DEF Read
      <3> QED
        BY <2>1, <3>1, <3>2, <3>3, <3>4 DEF EnrolInv, Row, Confirmed, At
    <2>3. CASE Miss(r)
      BY <2>1, <2>3, EnrolMove DEF EnrolInv, Row, Confirmed, At
    <2> QED
      BY <1>3, <2>2, <2>3 DEF Read
  <1>4. ASSUME NEW r \in Requests, Spend(r)
        PROVE  EnrolInv'
    <2>1. \A q \in Requests : reqs'[q].at \in {"spend", "confirm"} => reqs'[q] = reqs[q]
      BY <1>4, EnrolMove DEF Spend
    <2>2. UNCHANGED <<drawn, proven>> /\ (crossed => crossed')
      BY <1>4 DEF Spend
    <2>3. \/ UNCHANGED totp
          \/ /\ totp # None /\ totp' # None
             /\ totp'.secret = totp.secret /\ totp'.confirmed = totp.confirmed
      <3>1. CASE totp # None /\ totp.last < reqs[r].proof.step
        <4>1. totp' = [totp EXCEPT !.last = reqs[r].proof.step] /\ totp \in Enrolment
          BY <1>1, <1>4, <3>1 DEF Spend
        <4>2. reqs[r].proof.step \in Nat
          BY <1>1, <1>4 DEF Spend, At, Shaped, Otps, Steps
        <4>3. totp' \in Enrolment
          BY <4>1, <4>2 DEF Enrolment
        <4>4. totp'.secret = totp.secret /\ totp'.confirmed = totp.confirmed
          BY <4>1 DEF Enrolment
        <4> QED
          BY <1>1, <3>1, <4>3, <4>4
      <3>2. CASE ~(totp # None /\ totp.last < reqs[r].proof.step)
        BY <1>4, <3>2 DEF Spend
      <3> QED
        BY <3>1, <3>2
    <2> QED
      BY <2>1, <2>2, <2>3 DEF EnrolInv, Row, Confirmed, At
  <1>5. ASSUME NEW r \in Requests, ConfirmWrite(r)
        PROVE  EnrolInv'
    <2>1. \A q \in Requests : reqs'[q].at \in {"spend", "confirm"} => reqs'[q] = reqs[q]
      BY <1>5, EnrolMove DEF ConfirmWrite
    <2>2. UNCHANGED <<drawn, proven>> /\ reqs[r].proof.secret \in proven
      BY <1>5 DEF ConfirmWrite, EnrolInv
    <2>3. CASE totp = None
      <3>1. UNCHANGED <<totp, crossed>>
        BY <1>5, <2>3 DEF ConfirmWrite
      <3> QED
        BY <2>1, <2>2, <3>1 DEF EnrolInv, Row, Confirmed, At
    <2>4. CASE totp # None
      <3>1. /\ totp' = [totp EXCEPT !.confirmed = TRUE, !.last = reqs[r].proof.step]
            /\ crossed' = (crossed \/ totp.secret # reqs[r].proof.secret \/ totp.confirmed)
            /\ totp \in Enrolment
        BY <1>1, <1>5, <2>4 DEF ConfirmWrite
      <3>2. totp'.secret = totp.secret
        BY <3>1 DEF Enrolment
      <3>3. ~crossed' => totp'.secret \in proven'
        <4>1. ~crossed' => totp.secret = reqs[r].proof.secret
          BY <3>1
        <4> QED
          BY <2>2, <3>2, <4>1
      <3>4. totp'.secret \in drawn'
        BY <2>2, <2>4, <3>2 DEF EnrolInv
      <3>5. totp'.confirmed
        BY <3>1 DEF Enrolment
      <3>6. \A q \in Requests : At(q, "spend")' => reqs'[q].proof.secret \in drawn'
        BY <2>1, <2>2 DEF EnrolInv, At
      <3>7. \A q \in Requests : At(q, "confirm")' => reqs'[q].proof.secret \in proven'
        BY <2>1, <2>2 DEF EnrolInv, At
      <3> QED
        BY <3>3, <3>4, <3>5, <3>6, <3>7 DEF EnrolInv
    <2> QED
      BY <2>3, <2>4
  <1>6. ASSUME NEW r \in Requests, BeginInsert(r)
        PROVE  EnrolInv'
    <2>1. \A q \in Requests : reqs'[q].at \in {"spend", "confirm"} => reqs'[q] = reqs[q]
      BY <1>6, EnrolMove DEF BeginInsert
    <2>2. PICK s \in Secrets \ drawn :
             /\ totp' = [secret |-> s, confirmed |-> FALSE, last |-> 0]
             /\ drawn' = drawn \cup {s}
      BY <1>6 DEF BeginInsert
    <2>3. UNCHANGED <<proven, crossed>>
      BY <1>6 DEF BeginInsert, history
    <2> QED
      BY <2>1, <2>2, <2>3 DEF EnrolInv, Row, Confirmed, At
  <1>7. CASE Disable
    <2>1. totp' = None /\ UNCHANGED <<drawn, proven, crossed, reqs>>
      BY <1>7 DEF Disable, history
    <2> QED
      BY <2>1 DEF EnrolInv, Row, Confirmed, At
  <1> QED
    BY <1>2, <1>3, <1>4, <1>5, <1>6, <1>7, EnrolQuiet

\* The secret that is live is one a Confirm saw a code from, as long as
\* every UPDATE lands on the enrolment its handler read (totp Confirm).
THEOREM ConfirmedProven == Spec => []ProvenUnlessCrossed
  <1>1. Init => EnrolInv
    BY DEF Init, EnrolInv, Idle, At, Confirmed
  <1>2. EnrolInv => ProvenUnlessCrossed
    BY DEF EnrolInv, ProvenUnlessCrossed
  <1> QED
    BY TypeInit, TypeStep, EnrolStep, <1>1, <1>2, PTL DEF Spec

\* A code that opened a session, or is about to, is at or below the last
\* step of its secret, as long as that secret is the one enrolled.
Remembers(o) ==
    /\ o.secret \in drawn
    /\ Row(o.secret) => totp.confirmed /\ o.step <= totp.last

OtpInv == ~crossed => \A o \in Otps : Once(o) /\ (Claimed(o) => Remembers(o))

\* Nothing the enrolment goes through forgets a spent step, until a write
\* lands on another row than was read.
LEMMA RemembersStep ==
    ASSUME TypeInv, EnrolInv, [Next]_vars, ~crossed', NEW o \in Otps, Remembers(o)
    PROVE  Remembers(o)'
  <1>1. /\ totp \in {None} \cup Enrolment
        /\ \A r \in Requests : reqs[r] \in Shaped
        /\ None \notin Enrolment
        /\ o.step \in Nat
    BY SecondFactorAssumption DEF TypeInv, TypeOK, Otps, Steps
  <1>2. CASE UNCHANGED <<totp, drawn>>
    BY <1>2 DEF Remembers, Row
  <1>3. ASSUME NEW r \in Requests, Read(r)
        PROVE  UNCHANGED <<totp, drawn>>
    BY <1>3 DEF Read, rows
  <1>4. ASSUME NEW r \in Requests, Spend(r)
        PROVE  Remembers(o)'
    <2>1. CASE totp # None /\ totp.last < reqs[r].proof.step
      <3>1. /\ totp' = [totp EXCEPT !.last = reqs[r].proof.step]
            /\ totp \in Enrolment
            /\ drawn' = drawn
        BY <1>1, <1>4, <2>1 DEF Spend
      <3>2. /\ totp'.secret = totp.secret /\ totp'.confirmed = totp.confirmed
            /\ totp'.last = reqs[r].proof.step
            /\ totp.last \in Nat
        BY <3>1 DEF Enrolment
      <3>3. reqs[r].proof.step \in Nat
        BY <1>1, <1>4 DEF Spend, At, Shaped, Otps, Steps
      <3> QED
        BY <1>1, <2>1, <3>1, <3>2, <3>3 DEF Remembers, Row
    <2>2. CASE ~(totp # None /\ totp.last < reqs[r].proof.step)
      BY <1>2, <1>4, <2>2 DEF Spend
    <2> QED
      BY <2>1, <2>2
  <1>5. ASSUME NEW r \in Requests, ConfirmWrite(r)
        PROVE  Remembers(o)'
    <2>1. CASE totp = None
      BY <1>2, <1>5, <2>1 DEF ConfirmWrite
    <2>2. CASE totp # None
      <3>1. /\ totp' = [totp EXCEPT !.confirmed = TRUE, !.last = reqs[r].proof.step]
            /\ totp \in Enrolment /\ drawn' = drawn
            /\ ~totp.confirmed
        BY <1>1, <1>5, <2>2 DEF ConfirmWrite
      <3>2. totp'.secret = totp.secret
        BY <3>1 DEF Enrolment
      <3>3. totp.secret # o.secret
        BY <2>2, <3>1 DEF Remembers, Row
      <3> QED
        BY <3>1, <3>2, <3>3 DEF Remembers, Row
    <2> QED
      BY <2>1, <2>2
  <1>6. ASSUME NEW r \in Requests, BeginInsert(r)
        PROVE  Remembers(o)'
    BY <1>6 DEF BeginInsert, Remembers, Row
  <1>7. CASE Disable
    BY <1>7 DEF Disable, Remembers, Row
  <1> QED
    BY <1>2, <1>3, <1>4, <1>5, <1>6, <1>7, EnrolQuiet

\* Every step keeps OtpInv: the step Spend moves last_counter past is one no
\* session was opened with.
LEMMA OtpStep == TypeInv /\ EnrolInv /\ OtpInv /\ [Next]_vars => OtpInv'
  <1> SUFFICES ASSUME TypeInv, EnrolInv, OtpInv, [Next]_vars, ~crossed', NEW o \in Otps
               PROVE  (Once(o) /\ (Claimed(o) => Remembers(o)))'
    BY DEF OtpInv
  <1>1. ~crossed
    BY DEF Next, Hold, HoldInsert, Present, Strike, Exhaust, Complete, Mint, Redeem,
           Guarded, StepUp, Confirm, Read, Spend, ConfirmWrite, Begin, BeginInsert, Die, Sweep,
           Regenerate, Disable, Tick, Restart, vars, history
  <1>2. Once(o) /\ (Claimed(o) => Remembers(o))
    BY <1>1 DEF OtpInv
  <1>3. CASE /\ Claimed(o)' => Claimed(o)
             /\ Once(o) => Once(o)'
    BY <1>2, <1>3, RemembersStep
  <1>4. ASSUME NEW r \in Requests, NewClaim(r, o), ~Claimed(o) => Once(o)'
        PROVE  (Once(o) /\ (Claimed(o) => Remembers(o)))'
    <2>1. ~Redeem(r)
      <3>1. Redeem(r) => reqs[r].op = "recovery"
        BY DEF Redeem, At, TypeInv, Shaped
      <3>2. reqs[r].op = "recovery" => reqs[r].proof \in RecoveryCodes \cup {Wrong}
        BY DEF TypeInv, Shaped
      <3> QED
        BY <1>4, <3>1, <3>2, SecondFactorAssumption DEF NewClaim
    <2>2. /\ Spend(r) /\ reqs[r].proof = o
          /\ totp # None /\ totp.last < o.step
      BY <1>4, <2>1 DEF NewClaim
    <2>3. /\ totp' = [totp EXCEPT !.last = o.step]
          /\ totp.secret = o.secret /\ totp \in Enrolment
          /\ drawn' = drawn
      BY <2>2 DEF Spend, TypeInv, TypeOK
    <2>4. ~Claimed(o)
      <3>1. totp.last \in Nat /\ o.step \in Nat
        BY <2>3 DEF Enrolment, Otps, Steps
      <3> QED
        BY <1>2, <2>2, <2>3, <3>1 DEF Remembers, Row
    <2>5. o.secret \in drawn /\ totp.confirmed
      BY <2>2, <2>3 DEF EnrolInv, Spend, Row
    <2>6. totp'.last = o.step /\ totp'.confirmed /\ o.step \in Nat
      BY <2>3, <2>5 DEF Enrolment, Otps, Steps
    <2>7. Remembers(o)'
      BY <2>3, <2>5, <2>6 DEF Remembers, Row
    <2> QED
      BY <1>4, <2>4, <2>7
  <1> QED
    BY <1>3, <1>4, ClaimStep

\* However sign-ins and step-ups overlap, an authenticator code opens one
\* session at most, as long as every UPDATE lands on the enrolment its
\* handler read (totp verify).
THEOREM OtpOnce == Spec => []CodeOnce
  <1>1. Init => EnrolInv /\ OtpInv
    BY ClaimInit DEF Init, EnrolInv, OtpInv, Idle, At, Confirmed
  <1>2. OtpInv => CodeOnce
    BY DEF OtpInv, Once, CodeOnce
  <1> QED
    BY TypeInit, TypeStep, EnrolStep, OtpStep, <1>1, <1>2, PTL DEF Spec
-----------------------------------------------------------------------------
(* The budget of strikes.                                                  *)

\* The handlers whose strike was the last, before their delete.
Exhausting(h) == {r \in Requests : At(r, "exhaust") /\ reqs[r].half = h}

\* Past the budget there is a handler on its way to the delete, or one that
\* was lost on its way, for each strike too many.  A row that is gone takes
\* no strike any more.
WithinBudget(h) ==
    /\ pending[h].attempts < MaxAttempts + Cardinality(Requests) + lost
    /\ Live(h) => pending[h].attempts < MaxAttempts + Cardinality(Exhausting(h)) + lost

BudgetInv == \A h \in Halves : WithinBudget(h)

\* The handlers at a delete are finite in number, and no more than there are.
LEMMA ExhaustingBound ==
    ASSUME NEW h
    PROVE  /\ IsFiniteSet(Exhausting(h)) /\ Cardinality(Exhausting(h)) \in Nat
           /\ Cardinality(Exhausting(h)) <= Cardinality(Requests)
           /\ Cardinality(Requests) \in Nat
  <1>1. Exhausting(h) \in SUBSET Requests
    BY DEF Exhausting
  <1> QED
    BY <1>1, SecondFactorAssumption, FS_Subset, FS_CardinalityType

\* As long as no handler leaves the delete, and the row and the count of lost
\* deletes do not grow, the budget holds.
LEMMA BudgetKept ==
    ASSUME TypeInv, TypeInv', BudgetInv, NEW h \in Halves,
           pending'[h].attempts = pending[h].attempts,
           Live(h)' => Live(h) /\ Exhausting(h) \subseteq Exhausting(h)',
           lost <= lost'
    PROVE  WithinBudget(h)'
  <1>1. /\ pending[h].attempts \in Nat /\ lost \in Nat /\ lost' \in Nat
        /\ MaxAttempts \in Nat /\ WithinBudget(h)
    BY SecondFactorAssumption DEF TypeInv, TypeOK, HalfRow, BudgetInv
  <1>2. /\ IsFiniteSet(Exhausting(h)') /\ Cardinality(Exhausting(h)') \in Nat
        /\ Cardinality(Exhausting(h)) \in Nat /\ Cardinality(Requests) \in Nat
    <2>1. Exhausting(h)' \in SUBSET Requests
      BY DEF Exhausting
    <2> QED
      BY <2>1, ExhaustingBound, SecondFactorAssumption, FS_Subset, FS_CardinalityType
  <1>3. Live(h)' => Cardinality(Exhausting(h)) <= Cardinality(Exhausting(h)')
    BY <1>2, FS_Subset
  <1> QED
    BY <1>1, <1>2, <1>3 DEF WithinBudget

\* A handler that is not at the delete of a half-session leaves the set of
\* those that are as it is, or joins it.
LEMMA ExhaustingGrows ==
    ASSUME NEW r \in Requests, NEW h, r \notin Exhausting(h),
           \A q \in Requests \ {r} : reqs'[q] = reqs[q]
    PROVE  Exhausting(h) \subseteq Exhausting(h)'
  BY DEF Exhausting, At

\* The step of one handler that was not at a delete, and did not touch the
\* rows.
LEMMA BudgetQuiet ==
    ASSUME TypeInv, TypeInv', BudgetInv, NEW r \in Requests, ~At(r, "exhaust"),
           UNCHANGED reqs \/ (\A q \in Requests \ {r} : reqs'[q] = reqs[q]),
           pending' = pending, lost' = lost
    PROVE  BudgetInv'
  <1> SUFFICES ASSUME NEW h \in Halves
               PROVE  WithinBudget(h)'
    BY DEF BudgetInv
  <1>1. r \notin Exhausting(h)
    BY DEF Exhausting
  <1>2. Exhausting(h) \subseteq Exhausting(h)'
    BY <1>1, ExhaustingGrows DEF Exhausting, At
  <1>3. lost \in Nat
    BY DEF TypeInv, TypeOK
  <1> QED
    BY <1>2, <1>3, BudgetKept DEF Live

\* A strike counts one more, and from the budget on it sends its handler to
\* the delete.
LEMMA StrikeStep ==
    ASSUME TypeInv, TypeInv', BudgetInv, NEW r \in Requests, Strike(r)
    PROVE  BudgetInv'
  <1> SUFFICES ASSUME NEW h \in Halves
               PROVE  WithinBudget(h)'
    BY DEF BudgetInv
  <1>1. /\ pending \in [Halves -> HalfRow] /\ lost \in Nat /\ MaxAttempts \in Nat
        /\ lost' = lost /\ WithinBudget(h)
    BY SecondFactorAssumption DEF TypeInv, TypeOK, Strike, history, BudgetInv
  <1>2. \A q \in Requests \ {r} : reqs'[q] = reqs[q]
    BY ReqsAfter DEF Strike
  <1>3. r \notin Exhausting(h)
    BY DEF Strike, At, Exhausting
  <1>4. Exhausting(h) \subseteq Exhausting(h)'
    BY <1>2, <1>3, ExhaustingGrows
  <1>5. CASE h # reqs[r].half \/ ~Live(h)
    <2>1. pending'[h] = pending[h]
      BY <1>1, <1>5 DEF Strike
    <2> QED
      BY <1>1, <1>4, <2>1, BudgetKept DEF Live
  <1>6. CASE h = reqs[r].half /\ Live(h)
    <2>1. /\ pending' = [pending EXCEPT ![h].attempts = pending[h].attempts + 1]
          /\ \/ pending'[h].attempts >= MaxAttempts /\ Goto(r, "exhaust")
             \/ ~(pending'[h].attempts >= MaxAttempts)
      BY <1>6 DEF Strike
    <2>2. /\ pending[h].attempts \in Nat
          /\ pending'[h].attempts = pending[h].attempts + 1
      BY <1>1, <2>1 DEF HalfRow
    <2>3. /\ Exhausting(h)' \in SUBSET Requests
          /\ IsFiniteSet(Exhausting(h)') /\ Cardinality(Exhausting(h)') \in Nat
          /\ Cardinality(Exhausting(h)') <= Cardinality(Requests)
          /\ Cardinality(Requests) \in Nat
      <3>1. Exhausting(h)' \in SUBSET Requests
        BY DEF Exhausting
      <3> QED
        BY <3>1, SecondFactorAssumption, FS_Subset, FS_CardinalityType
    <2>4. CASE Goto(r, "exhaust")
      <3>1. r \in Exhausting(h)'
        BY <1>6, <2>4, ReqsAfter DEF Exhausting, At
      <3>2. /\ IsFiniteSet(Exhausting(h)) /\ Cardinality(Exhausting(h)) \in Nat
            /\ Cardinality(Exhausting(h) \cup {r}) = Cardinality(Exhausting(h)) + 1
        BY <1>3, ExhaustingBound, FS_AddElement
      <3>3. Cardinality(Exhausting(h) \cup {r}) <= Cardinality(Exhausting(h)')
        <4>1. Exhausting(h) \cup {r} \in SUBSET Exhausting(h)'
          BY <1>4, <3>1
        <4> QED
          BY <4>1, <2>3, FS_Subset
      <3>4. pending[h].attempts < MaxAttempts + Cardinality(Exhausting(h)) + lost
        BY <1>1, <1>6 DEF WithinBudget
      <3>5. pending'[h].attempts < MaxAttempts + Cardinality(Exhausting(h)') + lost'
        BY <1>1, <2>2, <2>3, <3>2, <3>3, <3>4
      <3> QED
        BY <1>1, <2>2, <2>3, <3>5 DEF WithinBudget
    <2>5. CASE ~(pending'[h].attempts >= MaxAttempts)
      BY <1>1, <2>2, <2>3, <2>5 DEF WithinBudget
    <2> QED
      BY <2>1, <2>4, <2>5
  <1> QED
    BY <1>5, <1>6

\* What stays below the budget when deletes are lost: as many as left the
\* place are counted.
LEMMA BudgetLost ==
    ASSUME TypeInv, TypeInv', BudgetInv, NEW h \in Halves, pending' = pending,
           NEW n \in Nat, lost' = lost + n,
           Cardinality(Exhausting(h)) <= Cardinality(Exhausting(h)') + n
    PROVE  WithinBudget(h)'
  <1>1. /\ pending[h].attempts \in Nat /\ lost \in Nat /\ MaxAttempts \in Nat
        /\ WithinBudget(h)
    BY SecondFactorAssumption DEF TypeInv, TypeOK, HalfRow, BudgetInv
  <1>2. /\ Cardinality(Exhausting(h)') \in Nat
        /\ Cardinality(Exhausting(h)) \in Nat /\ Cardinality(Requests) \in Nat
    <2>1. Exhausting(h)' \in SUBSET Requests
      BY DEF Exhausting
    <2> QED
      BY <2>1, ExhaustingBound, SecondFactorAssumption, FS_Subset, FS_CardinalityType
  <1>3. Live(h)' <=> Live(h)
    BY DEF Live
  <1> QED
    BY <1>1, <1>2, <1>3 DEF WithinBudget

\* A handler that dies at the delete is one delete lost.
LEMMA BudgetDies ==
    ASSUME TypeInv, TypeInv', BudgetInv, NEW r \in Requests, Die(r)
    PROVE  BudgetInv'
  <1> SUFFICES ASSUME NEW h \in Halves
               PROVE  WithinBudget(h)'
    BY DEF BudgetInv
  <1> DEFINE n == ExhaustLost({r})
  <1>1. n \in Nat /\ lost' = lost + n /\ pending' = pending
    BY LostType DEF Die, rows
  <1>2. \A q \in Requests \ {r} : reqs'[q] = reqs[q]
    BY ReqsAfter DEF Die
  <1>3. Exhausting(h) \ {r} \in SUBSET Exhausting(h)'
    BY <1>2 DEF Exhausting, At
  <1>4. /\ IsFiniteSet(Exhausting(h)') /\ Cardinality(Exhausting(h)') \in Nat
        /\ IsFiniteSet(Exhausting(h)) /\ Cardinality(Exhausting(h)) \in Nat
    <2>1. Exhausting(h)' \in SUBSET Requests
      BY DEF Exhausting
    <2> QED
      BY <2>1, ExhaustingBound, SecondFactorAssumption, FS_Subset, FS_CardinalityType
  <1>5. Cardinality(Exhausting(h) \ {r}) <= Cardinality(Exhausting(h)')
    BY <1>3, <1>4, FS_Subset
  <1>6. CASE At(r, "exhaust")
    <2>1. {q \in {r} : At(q, "exhaust")} = {r}
      BY <1>6
    <2>2. n = 1
      BY <2>1, FS_Singleton DEF ExhaustLost
    <2>3. Cardinality(Exhausting(h)) <= Cardinality(Exhausting(h) \ {r}) + 1
      <3>1. \/ Cardinality(Exhausting(h) \ {r}) = Cardinality(Exhausting(h)) - 1
            \/ Cardinality(Exhausting(h) \ {r}) = Cardinality(Exhausting(h))
        BY <1>4, FS_RemoveElement, Zenon
      <3> QED
        BY <1>4, <3>1
    <2>4. Cardinality(Exhausting(h) \ {r}) \in Nat
      BY <1>4, FS_RemoveElement, FS_CardinalityType
    <2>5. Cardinality(Exhausting(h)) <= Cardinality(Exhausting(h)') + n
      BY <1>4, <1>5, <2>2, <2>3, <2>4
    <2> HIDE DEF n
    <2> QED
      BY <1>1, <2>5, BudgetLost
  <1>7. CASE ~At(r, "exhaust")
    <2>1. Exhausting(h) \ {r} = Exhausting(h)
      BY <1>7 DEF Exhausting
    <2>2. Cardinality(Exhausting(h)) <= Cardinality(Exhausting(h)')
      BY <1>5, <2>1
    <2> HIDE DEF n
    <2>3. Cardinality(Exhausting(h)) <= Cardinality(Exhausting(h)') + n
      BY <1>1, <1>4, <2>2
    <2> QED
      BY <1>1, <2>3, BudgetLost
  <1> QED
    BY <1>6, <1>7

\* A restart loses every delete under way.
LEMMA BudgetRestarts ==
    ASSUME TypeInv, TypeInv', BudgetInv, Restart
    PROVE  BudgetInv'
  <1> SUFFICES ASSUME NEW h \in Halves
               PROVE  WithinBudget(h)'
    BY DEF BudgetInv
  <1> DEFINE n == ExhaustLost(Requests)
             All == {r \in Requests : At(r, "exhaust")}
  <1>1. n \in Nat /\ lost' = lost + n /\ pending' = pending
    BY LostType DEF Restart, rows
  <1>2. IsFiniteSet(All) /\ Exhausting(h) \in SUBSET All
    BY SecondFactorAssumption, FS_Subset DEF Exhausting
  <1>3. Cardinality(Exhausting(h)) <= n
    <2>1. Cardinality(Exhausting(h)) <= Cardinality(All)
      BY <1>2, FS_Subset
    <2> QED
      BY <2>1 DEF ExhaustLost
  <1>4. Cardinality(Exhausting(h)') \in Nat /\ Cardinality(Exhausting(h)) \in Nat
    <2>1. Exhausting(h)' \in SUBSET Requests
      BY DEF Exhausting
    <2> QED
      BY <2>1, ExhaustingBound, SecondFactorAssumption, FS_Subset, FS_CardinalityType
  <1>5. Cardinality(Exhausting(h)) <= Cardinality(Exhausting(h)') + n
    BY <1>1, <1>3, <1>4
  <1> HIDE DEF n
  <1> QED
    BY <1>1, <1>5, BudgetLost

\* A row that is deleted, or stored, is within its budget.
LEMMA BudgetRows ==
    ASSUME TypeInv, TypeInv', BudgetInv,
           \/ Sweep
           \/ \E r \in Requests : HoldInsert(r) \/ Exhaust(r) \/ Complete(r)
    PROVE  BudgetInv'
  <1> SUFFICES ASSUME NEW h \in Halves
               PROVE  WithinBudget(h)'
    BY DEF BudgetInv
  <1>1. /\ pending \in [Halves -> HalfRow] /\ lost \in Nat /\ MaxAttempts \in Nat \ {0}
        /\ WithinBudget(h)
    BY SecondFactorAssumption DEF TypeInv, TypeOK, BudgetInv
  <1>2. CASE Sweep
    <2>1. pending'[h].attempts = pending[h].attempts /\ (Live(h)' => Live(h))
      BY <1>1, <1>2 DEF Sweep, Live, HalfRow
    <2>2. reqs' = reqs /\ lost' = lost
      BY <1>2 DEF Sweep, history
    <2>3. Exhausting(h) \subseteq Exhausting(h)'
      BY <2>2 DEF Exhausting, At
    <2> QED
      BY <1>1, <2>1, <2>2, <2>3, BudgetKept
  <1>3. ASSUME NEW r \in Requests, HoldInsert(r)
        PROVE  WithinBudget(h)'
    <2>1. /\ lost' = lost /\ \A q \in Requests \ {r} : reqs'[q] = reqs[q]
          /\ r \notin Exhausting(h)
      BY <1>3, ReqsAfter DEF HoldInsert, history, At, Exhausting
    <2>2. Exhausting(h) \subseteq Exhausting(h)'
      BY <2>1, ExhaustingGrows
    <2>3. \/ pending'[h] = pending[h]
          \/ pending'[h].attempts = 0
      BY <1>1, <1>3 DEF HoldInsert
    <2>4. CASE pending'[h] = pending[h]
      BY <1>1, <2>1, <2>2, <2>4, BudgetKept DEF Live
    <2>5. CASE pending'[h].attempts = 0
      <3>1. Cardinality(Exhausting(h)') \in Nat /\ Cardinality(Requests) \in Nat
        <4>1. Exhausting(h)' \in SUBSET Requests
          BY DEF Exhausting
        <4> QED
          BY <4>1, SecondFactorAssumption, FS_Subset, FS_CardinalityType
      <3> QED
        BY <1>1, <2>1, <2>5, <3>1 DEF WithinBudget
    <2> QED
      BY <2>3, <2>4, <2>5
  <1>4. ASSUME NEW r \in Requests, Exhaust(r) \/ Complete(r)
        PROVE  WithinBudget(h)'
    <2>1. lost' = lost /\ \A q \in Requests \ {r} : reqs'[q] = reqs[q]
      BY <1>4, ReqsAfter DEF Exhaust, Complete, history
    <2>2. pending'[h].attempts = pending[h].attempts /\ (Live(h)' => Live(h))
      BY <1>1, <1>4 DEF Exhaust, Complete, DeleteHalf, Live, HalfRow
    <2>3. Live(h)' => r \notin Exhausting(h)
      <3>1. Exhaust(r) \/ r \notin Exhausting(h)
        BY <1>4 DEF Complete, At, Exhausting
      <3>2. Exhaust(r) /\ reqs[r].half = h => ~Live(h)'
        BY <1>1 DEF Exhaust, DeleteHalf, Live, HalfRow
      <3> QED
        BY <3>1, <3>2 DEF Exhausting
    <2>4. Live(h)' => Exhausting(h) \subseteq Exhausting(h)'
      BY <2>1, <2>3, ExhaustingGrows
    <2> QED
      BY <1>1, <2>1, <2>2, <2>4, BudgetKept
  <1> QED
    BY <1>2, <1>3, <1>4

\* Every step keeps the budget.
LEMMA BudgetStep == TypeInv /\ BudgetInv /\ [Next]_vars => BudgetInv'
  <1> SUFFICES ASSUME TypeInv, BudgetInv, [Next]_vars
               PROVE  BudgetInv'
    OBVIOUS
  <1>0. TypeInv'
    BY TypeStep
  <1>1. ASSUME NEW r \in Requests, Strike(r)
        PROVE  BudgetInv'
    BY <1>0, <1>1, StrikeStep
  <1>2. ASSUME NEW r \in Requests, Die(r)
        PROVE  BudgetInv'
    BY <1>0, <1>2, BudgetDies
  <1>3. CASE Restart
    BY <1>0, <1>3, BudgetRestarts
  <1>4. CASE \/ Sweep
             \/ \E r \in Requests : HoldInsert(r) \/ Exhaust(r) \/ Complete(r)
    BY <1>0, <1>4, BudgetRows
  <1>5. ASSUME NEW r \in Requests,
               \/ Hold(r) \/ Present(r) \/ Mint(r) \/ Redeem(r) \/ StepUp(r) \/ Confirm(r)
               \/ Read(r) \/ Spend(r) \/ ConfirmWrite(r) \/ Begin(r) \/ BeginInsert(r)
        PROVE  BudgetInv'
    <2>1. pending' = pending /\ lost' = lost /\ ~At(r, "exhaust")
      BY <1>5 DEF Hold, Present, Start, Mint, Redeem, StepUp, Confirm, Guarded, Read, Spend,
                  ConfirmWrite, Begin, BeginInsert, At, rows, history
    <2>2. \/ UNCHANGED reqs \/ Done(r) \/ (\E place : Goto(r, place))
          \/ (\E place, op, h, p : Start(r, place, op, h, p))
      BY <1>5 DEF Hold, Present, Mint, Redeem, StepUp, Confirm, Guarded, Read, Miss, Spend,
                  ConfirmWrite, Begin, BeginInsert
    <2>3. UNCHANGED reqs \/ (\A q \in Requests \ {r} : reqs'[q] = reqs[q])
      BY <2>2, ReqsAfter
    <2> QED
      BY <1>0, <2>1, <2>3, BudgetQuiet
  <1>6. CASE Regenerate \/ Disable \/ Tick \/ UNCHANGED vars
    <2>1. pending' = pending /\ lost' = lost /\ reqs' = reqs
      BY <1>6 DEF Regenerate, Disable, Tick, vars, rows, history
    <2>2. \A h \in Halves : Exhausting(h) \subseteq Exhausting(h)'
      BY <2>1 DEF Exhausting, At
    <2>3. lost \in Nat
      BY DEF TypeInv, TypeOK
    <2> QED
      BY <1>0, <2>1, <2>2, <2>3, BudgetKept DEF BudgetInv, Live
  <1> QED
    BY <1>1, <1>2, <1>3, <1>4, <1>5, <1>6 DEF Next

\* The misses charged to a half-session stay below its budget and what the
\* handlers already past Pending add, and one for each delete that never ran
\* (Gate.Strike).
THEOREM StrikesBounded == Spec => []StrikeBudget
  <1>1. Init => BudgetInv
    <2> SUFFICES ASSUME Init, NEW h \in Halves
                 PROVE  WithinBudget(h)
      BY DEF BudgetInv
    <2>1. pending[h].attempts = 0 /\ ~Live(h) /\ lost = 0
      BY DEF Init, NoRow, Live
    <2>2. Cardinality(Requests) \in Nat /\ MaxAttempts \in Nat \ {0}
      BY SecondFactorAssumption, FS_CardinalityType
    <2> QED
      BY <2>1, <2>2 DEF WithinBudget
  <1>2. BudgetInv => StrikeBudget
    BY DEF BudgetInv, WithinBudget, StrikeBudget
  <1> QED
    BY TypeInit, TypeStep, BudgetStep, <1>1, <1>2, PTL DEF Spec

-----------------------------------------------------------------------------
(* Sums.  SumFunctionOnSet is a fold: a recursive function on the subsets  *)
(* of its domain.  The smallest set that breaks a fact about it stands in  *)
(* for induction.                                                          *)

\* The element a fold takes first.
Elem(s) == CHOOSE x \in s : TRUE

\* g sums f over every subset of S.
Totals(g, f, S) ==
    g = [s \in SUBSET S |-> IF s = {} THEN 0 ELSE f[Elem(s)] + g[s \ {Elem(s)}]]

\* It sums those of n elements at most.
TotalsTo(g, f, S, n) ==
    /\ g = [s \in SUBSET S |-> g[s]]
    /\ \A s \in SUBSET S : Cardinality(s) <= n =>
           g[s] = IF s = {} THEN 0 ELSE f[Elem(s)] + g[s \ {Elem(s)}]

\* A family of subsets of a finite set has a smallest member.
LEMMA SmallestSet ==
    ASSUME NEW S, IsFiniteSet(S), NEW Bad \in SUBSET (SUBSET S), Bad # {}
    PROVE  \E T \in Bad : \A U \in Bad : ~(U \subseteq T /\ U # T)
  <1>1. IsWellFoundedOn(StrictSubsetOrdering(S), SUBSET S)
    BY FS_FiniteSubsetsOfFinite, FS_StrictSubsetOrderingWellFounded
  <1>2. \E T \in Bad : \A U \in Bad : ~(<<U, T>> \in StrictSubsetOrdering(S))
    BY <1>1, WFMin
  <1> QED
    BY <1>2 DEF StrictSubsetOrdering

\* A set that is not empty has one element more than it has without the one
\* that is chosen.
LEMMA LessOne ==
    ASSUME NEW S, IsFiniteSet(S), NEW s \in SUBSET S, s # {}
    PROVE  /\ Elem(s) \in s /\ s \ {Elem(s)} \in SUBSET S
           /\ s \ {Elem(s)} \subseteq s /\ s \ {Elem(s)} # s
           /\ Cardinality(s) \in Nat /\ Cardinality(s \ {Elem(s)}) = Cardinality(s) - 1
  <1>1. Elem(s) \in s
    BY DEF Elem
  <1>2. IsFiniteSet(s) /\ Cardinality(s) \in Nat
    BY FS_Subset, FS_CardinalityType
  <1>3. Cardinality(s \ {Elem(s)}) = Cardinality(s) - 1
    BY <1>1, <1>2, FS_RemoveElement
  <1> QED
    BY <1>1, <1>2, <1>3

\* Up to any size there is a function that sums as it should.
LEMMA TotalsUpTo ==
    ASSUME NEW S, IsFiniteSet(S), NEW f
    PROVE  \A T \in SUBSET S : \E g : TotalsTo(g, f, S, Cardinality(T))
  <1> DEFINE Bad == {T \in SUBSET S : ~ \E g : TotalsTo(g, f, S, Cardinality(T))}
  <1> SUFFICES ASSUME Bad # {}
               PROVE  FALSE
    OBVIOUS
  <1>1. PICK T \in Bad : \A U \in Bad : ~(U \subseteq T /\ U # T)
    <2>1. Bad \in SUBSET (SUBSET S)
      OBVIOUS
    <2> HIDE DEF Bad
    <2> QED
      BY <2>1, SmallestSet
  <1>2. CASE T = {}
    <2> DEFINE g == [s \in SUBSET S |-> 0]
    <2>1. \A s \in SUBSET S : Cardinality(s) <= 0 => s = {}
      <3> TAKE s \in SUBSET S
      <3>1. IsFiniteSet(s) /\ Cardinality(s) \in Nat
        BY FS_Subset, FS_CardinalityType
      <3> QED
        BY <3>1, FS_EmptySet
    <2>2. Cardinality(T) = 0
      BY <1>2, FS_EmptySet
    <2>3. TotalsTo(g, f, S, Cardinality(T))
      BY <2>1, <2>2 DEF TotalsTo
    <2> QED
      BY <1>1, <2>3
  <1>3. CASE T # {}
    <2> DEFINE U == T \ {Elem(T)}
    <2>1. /\ U \in SUBSET S /\ U \subseteq T /\ U # T
          /\ Cardinality(T) \in Nat /\ Cardinality(U) = Cardinality(T) - 1
      BY <1>3, LessOne
    <2>2. PICK g : TotalsTo(g, f, S, Cardinality(U))
      BY <1>1, <2>1
    <2> DEFINE k == [s \in SUBSET S |->
                       IF s = {} THEN 0 ELSE f[Elem(s)] + g[s \ {Elem(s)}]]
    <2>3. ASSUME NEW s \in SUBSET S, Cardinality(s) <= Cardinality(T)
          PROVE  k[s] = IF s = {} THEN 0 ELSE f[Elem(s)] + k[s \ {Elem(s)}]
      <3>1. CASE s = {}
        BY <3>1
      <3>2. CASE s # {}
        <4> DEFINE u == s \ {Elem(s)}
        <4>1. /\ u \in SUBSET S /\ Cardinality(s) \in Nat
              /\ Cardinality(u) = Cardinality(s) - 1
          BY <3>2, LessOne
        <4>2. Cardinality(u) <= Cardinality(U)
          BY <2>1, <2>3, <4>1
        <4>3. g[u] = IF u = {} THEN 0 ELSE f[Elem(u)] + g[u \ {Elem(u)}]
          BY <2>2, <4>1, <4>2 DEF TotalsTo
        <4>4. k[u] = g[u]
          BY <4>1, <4>3
        <4>5. k[s] = f[Elem(s)] + g[u]
          BY <3>2
        <4> QED
          BY <3>2, <4>4, <4>5
      <3> QED
        BY <3>1, <3>2
    <2>4. k = [s \in SUBSET S |-> k[s]]
      OBVIOUS
    <2> HIDE DEF k
    <2>5. TotalsTo(k, f, S, Cardinality(T))
      BY <2>3, <2>4, Zenon DEF TotalsTo
    <2> QED
      BY <1>1, <2>5
  <1> QED
    BY <1>2, <1>3

\* So there is one for all of S, and the community modules' sum is its value.
LEMMA SumTotals ==
    ASSUME NEW S, IsFiniteSet(S), NEW f
    PROVE  \E g : Totals(g, f, S) /\ SumFunctionOnSet(f, S) = g[S]
  <1>1. PICK g : TotalsTo(g, f, S, Cardinality(S))
    <2>1. S \in SUBSET S
      OBVIOUS
    <2> QED
      BY <2>1, TotalsUpTo, Zenon
  <1>2. \A s \in SUBSET S : Cardinality(s) <= Cardinality(S)
    BY FS_Subset
  <1>3. Totals(g, f, S)
    BY <1>1, <1>2, Zenon DEF Totals, TotalsTo
  <1>4. SumFunctionOnSet(f, S) = (CHOOSE k : Totals(k, f, S))[S]
    BY Zenon DEF SumFunctionOnSet, FoldFunctionOnSet, MapThenFoldSet, Totals, Elem
  <1>5. Totals((CHOOSE k : Totals(k, f, S)), f, S)
    BY <1>3, Zenon
  <1> QED
    BY <1>4, <1>5, Zenon

\* If one function exceeds another by one at a single place and nowhere else,
\* so does its sum.
LEMMA SumGrows ==
    ASSUME NEW S, IsFiniteSet(S), NEW f \in [S -> Nat], NEW k \in [S -> Nat], NEW t,
           \A x \in S : k[x] <= f[x] + (IF x = t THEN 1 ELSE 0)
    PROVE  /\ SumFunctionOnSet(f, S) \in Nat /\ SumFunctionOnSet(k, S) \in Nat
           /\ SumFunctionOnSet(k, S) <= SumFunctionOnSet(f, S) + (IF t \in S THEN 1 ELSE 0)
  <1>1. PICK g : Totals(g, f, S) /\ SumFunctionOnSet(f, S) = g[S]
    BY SumTotals
  <1>2. PICK h : Totals(h, k, S) /\ SumFunctionOnSet(k, S) = h[S]
    BY SumTotals
  <1> DEFINE Ok(s) == /\ g[s] \in Nat /\ h[s] \in Nat
                      /\ h[s] <= g[s] + (IF t \in s THEN 1 ELSE 0)
             Bad == {s \in SUBSET S : ~Ok(s)}
  <1>3. ASSUME Bad # {}
        PROVE  FALSE
    <2>1. PICK s \in Bad : \A u \in Bad : ~(u \subseteq s /\ u # s)
      <3>1. Bad \in SUBSET (SUBSET S)
        OBVIOUS
      <3> HIDE DEF Bad
      <3> QED
        BY <1>3, <3>1, SmallestSet
    <2>2. /\ g[s] = IF s = {} THEN 0 ELSE f[Elem(s)] + g[s \ {Elem(s)}]
          /\ h[s] = IF s = {} THEN 0 ELSE k[Elem(s)] + h[s \ {Elem(s)}]
      BY <1>1, <1>2, <2>1 DEF Totals
    <2>3. CASE s = {}
      BY <2>1, <2>2, <2>3
    <2>4. CASE s # {}
      <3> DEFINE x == Elem(s)
                 u == s \ {x}
      <3>1. x \in s /\ u \in SUBSET S /\ u \subseteq s /\ u # s
        BY <2>1, <2>4, LessOne
      <3>2. Ok(u)
        BY <2>1, <3>1
      <3>3. x \in S /\ f[x] \in Nat /\ k[x] \in Nat
        BY <2>1, <3>1
      <3>4. k[x] <= f[x] + (IF x = t THEN 1 ELSE 0)
        BY <3>3
      <3>5. g[s] = f[x] + g[u] /\ h[s] = k[x] + h[u]
        BY <2>2, <2>4
      <3>6. t \in s <=> (x = t \/ t \in u)
        BY <3>1
      <3>7. ~(x = t /\ t \in u)
        OBVIOUS
      <3> HIDE DEF x, u
      <3>8. g[s] \in Nat /\ h[s] \in Nat
        BY <3>2, <3>3, <3>5
      <3>9. h[s] <= g[s] + (IF t \in s THEN 1 ELSE 0)
        <4>1. CASE x = t
          BY <4>1, <3>2, <3>3, <3>4, <3>5, <3>6, <3>7
        <4>2. CASE x # t /\ t \in u
          BY <4>2, <3>2, <3>3, <3>4, <3>5, <3>6, <3>7
        <4>3. CASE x # t /\ t \notin u
          BY <4>3, <3>2, <3>3, <3>4, <3>5, <3>6, <3>7
        <4> QED
          BY <4>1, <4>2, <4>3
      <3> QED
        BY <2>1, <3>8, <3>9
    <2> QED
      BY <2>3, <2>4
  <1>4. Ok(S)
    BY <1>3
  <1> QED
    BY <1>1, <1>2, <1>4

\* The sum of nothing but zeros.
LEMMA SumOfZeros ==
    ASSUME NEW S, IsFiniteSet(S)
    PROVE  SumFunctionOnSet([x \in S |-> 0], S) = 0
  <1> DEFINE f == [x \in S |-> 0]
  <1>1. PICK g : Totals(g, f, S) /\ SumFunctionOnSet(f, S) = g[S]
    BY SumTotals
  <1> DEFINE Bad == {s \in SUBSET S : g[s] # 0}
  <1>2. ASSUME Bad # {}
        PROVE  FALSE
    <2>1. PICK s \in Bad : \A u \in Bad : ~(u \subseteq s /\ u # s)
      <3>1. Bad \in SUBSET (SUBSET S)
        OBVIOUS
      <3> HIDE DEF Bad
      <3> QED
        BY <1>2, <3>1, SmallestSet
    <2>2. g[s] = IF s = {} THEN 0 ELSE f[Elem(s)] + g[s \ {Elem(s)}]
      BY <1>1, <2>1 DEF Totals
    <2>3. s # {}
      BY <2>1, <2>2
    <2>4. /\ Elem(s) \in S /\ s \ {Elem(s)} \in SUBSET S
          /\ s \ {Elem(s)} \subseteq s /\ s \ {Elem(s)} # s
      BY <2>1, <2>3, LessOne
    <2>5. g[s \ {Elem(s)}] = 0 /\ f[Elem(s)] = 0
      BY <2>1, <2>4
    <2> QED
      BY <2>1, <2>2, <2>3, <2>5
  <1> QED
    BY <1>1, <1>2

-----------------------------------------------------------------------------
(* The budget of the limiter.                                              *)

\* The handlers that asked the limiter and may still fail.
Asking == {r \in Requests : /\ reqs[r].at \in {"read", "spend"}
                            /\ reqs[r].op \in {"stepup", "confirm"}}

\* The failures in the window, and those that may still come, of handlers
\* that began in the past.
LimiterInv ==
    /\ SumFunction(Recent(now)) + Cardinality(Asking) < LimitFailures + Cardinality(Requests)
    /\ \A r \in Requests : reqs[r].began <= now

\* The clock's times are finite in number, and what the limiter counts is a
\* number.
LEMMA RecentSum ==
    ASSUME TypeInv
    PROVE  /\ IsFiniteSet(Clock) /\ now \in Clock
           /\ Recent(now) \in [Clock -> Nat]
           /\ SumFunction(Recent(now)) = SumFunctionOnSet(Recent(now), Clock)
           /\ SumFunction(Recent(now)) \in Nat
  <1>1. IsFiniteSet(Clock)
    BY SecondFactorAssumption, FS_Interval DEF Clock
  <1>2. now \in Clock /\ Recent(now) \in [Clock -> Nat]
    BY RecentType DEF TypeInv, TypeOK
  <1>3. SumFunction(Recent(now)) = SumFunctionOnSet(Recent(now), Clock)
    <2>1. DOMAIN Recent(now) = Clock
      BY DEF Recent
    <2> QED
      BY <2>1, Zenon DEF SumFunction
  <1>4. SumFunctionOnSet(Recent(now), Clock) \in Nat
    <2>1. \A x \in Clock : Recent(now)[x] <= Recent(now)[x] + (IF x = now THEN 1 ELSE 0)
      BY <1>2
    <2> QED
      BY <1>1, <1>2, <2>1, SumGrows
  <1> QED
    BY <1>1, <1>2, <1>3, <1>4

\* What Recent keeps, before a step and after it.
LEMMA RecentAfter ==
    ASSUME TypeInv, TypeInv'
    PROVE  /\ Recent(now) \in [Clock -> Nat] /\ Recent(now)' \in [Clock -> Nat]
           /\ SumFunction(Recent(now)) = SumFunctionOnSet(Recent(now), Clock)
           /\ SumFunction(Recent(now))' = SumFunctionOnSet(Recent(now)', Clock)
           /\ SumFunction(Recent(now)) \in Nat /\ SumFunction(Recent(now))' \in Nat
           /\ \A u \in Clock : /\ Recent(now)[u] = IF now - u < LimitWindow THEN failures[u] ELSE 0
                               /\ Recent(now)'[u] = IF now' - u < LimitWindow THEN failures'[u] ELSE 0
  <1>1. Recent(now)' = [u \in Clock |-> IF now' - u < LimitWindow THEN failures'[u] ELSE 0]
    BY DEF Recent
  <1>2. IsFiniteSet(Clock) /\ Recent(now)' \in [Clock -> Nat]
    BY <1>1, RecentSum DEF TypeInv, TypeOK
  <1>3. SumFunction(Recent(now))' = SumFunctionOnSet(Recent(now)', Clock)
    <2>1. DOMAIN Recent(now)' = Clock
      BY <1>1
    <2> QED
      BY <2>1, Zenon DEF SumFunction
  <1>4. SumFunctionOnSet(Recent(now)', Clock) \in Nat
    <2>1. \A x \in Clock : Recent(now)'[x] <= Recent(now)'[x] + (IF x = now THEN 1 ELSE 0)
      BY <1>2
    <2> QED
      BY <1>2, <2>1, SumGrows
  <1> QED
    BY <1>1, <1>2, <1>3, <1>4, RecentSum DEF Recent

\* Time may pass and failures be forgotten: the window holds no more.
LEMMA WindowShrinks ==
    ASSUME TypeInv, TypeInv', now <= now',
           \A u \in Clock : failures'[u] <= failures[u]
    PROVE  SumFunction(Recent(now))' <= SumFunction(Recent(now))
  <1>1. /\ IsFiniteSet(Clock) /\ -1 \notin Clock
        /\ \A u \in Clock : u \in Nat /\ failures[u] \in Nat /\ failures'[u] \in Nat
        /\ now \in Nat /\ now' \in Nat /\ LimitWindow \in Nat
    BY RecentSum, SecondFactorAssumption, SMTT(30) DEF TypeInv, TypeOK, Clock
  <1>2. \A u \in Clock : Recent(now)'[u] <= Recent(now)[u] + (IF u = -1 THEN 1 ELSE 0)
    BY <1>1, RecentAfter
  <1>3. /\ SumFunctionOnSet(Recent(now), Clock) \in Nat
        /\ SumFunctionOnSet(Recent(now)', Clock) \in Nat
        /\ SumFunctionOnSet(Recent(now)', Clock)
             <= SumFunctionOnSet(Recent(now), Clock) + (IF -1 \in Clock THEN 1 ELSE 0)
    BY <1>1, <1>2, RecentAfter, SumGrows
  <1> QED
    BY <1>1, <1>3, RecentAfter

\* One failure noted, at a time that is not in the future, is one more.
LEMMA WindowGrows ==
    ASSUME TypeInv, TypeInv', now' = now, NEW t \in Clock, t <= now,
           failures' = [Recent(t) EXCEPT ![t] = @ + 1]
    PROVE  SumFunction(Recent(now))' <= SumFunction(Recent(now)) + 1
  <1>1. /\ IsFiniteSet(Clock) /\ t \in Nat /\ now \in Nat /\ LimitWindow \in Nat
        /\ \A u \in Clock : u \in Nat /\ failures[u] \in Nat /\ failures'[u] \in Nat
    BY RecentSum, SecondFactorAssumption, SMTT(30) DEF TypeInv, TypeOK, Clock
  <1>2. \A u \in Clock : failures'[u] <= failures[u] + (IF u = t THEN 1 ELSE 0)
    <2>1. \A u \in Clock : failures'[u] = IF u = t THEN Recent(t)[u] + 1 ELSE Recent(t)[u]
      BY DEF Recent
    <2>2. \A u \in Clock : Recent(t)[u] = IF t - u < LimitWindow THEN failures[u] ELSE 0
      BY DEF Recent
    <2> QED
      BY <1>1, <2>1, <2>2
  <1>3. \A u \in Clock : Recent(now)'[u] <= Recent(now)[u] + (IF u = t THEN 1 ELSE 0)
    BY <1>1, <1>2, RecentAfter
  <1>4. /\ SumFunctionOnSet(Recent(now), Clock) \in Nat
        /\ SumFunctionOnSet(Recent(now)', Clock) \in Nat
        /\ SumFunctionOnSet(Recent(now)', Clock)
             <= SumFunctionOnSet(Recent(now), Clock) + (IF t \in Clock THEN 1 ELSE 0)
    BY <1>1, <1>3, RecentAfter, SumGrows
  <1> QED
    BY <1>4, RecentAfter

\* A limiter that forgot counts nothing.
LEMMA WindowEmpty ==
    ASSUME TypeInv, TypeInv', failures' = NoFailures
    PROVE  SumFunction(Recent(now))' = 0
  <1>1. Recent(now)' = [u \in Clock |-> 0]
    BY DEF Recent, NoFailures
  <1> QED
    BY <1>1, RecentSum, RecentAfter, SumOfZeros

\* The handlers that may still fail are finite in number.
LEMMA AskingBound ==
    ASSUME NEW A \in SUBSET Requests
    PROVE  /\ IsFiniteSet(A) /\ Cardinality(A) \in Nat
           /\ Cardinality(A) <= Cardinality(Requests) /\ Cardinality(Requests) \in Nat
  BY SecondFactorAssumption, FS_Subset, FS_CardinalityType

\* A handler began in the past, and time does not turn back.
LEMMA BeganStep ==
    ASSUME TypeInv, [Next]_vars, \A r \in Requests : reqs[r].began <= now
    PROVE  \A r \in Requests : reqs'[r].began <= now'
  <1>1. /\ now \in Nat /\ reqs \in [Requests -> Handler]
        /\ \A r \in Requests : reqs[r] \in Handler /\ reqs[r].began \in Nat
    BY ClockType DEF TypeInv, TypeOK, Handler
  <1>2. CASE now' = now /\ reqs' = reqs
    BY <1>2
  <1>3. ASSUME now' = now, NEW r \in Requests,
               \/ Done(r)
               \/ \E place : Goto(r, place)
               \/ \E place, op, h, p : Start(r, place, op, h, p)
        PROVE  \A q \in Requests : reqs'[q].began <= now'
    <2>1. CASE Done(r)
      BY <1>1, <1>3, <2>1 DEF Done, Idle
    <2>2. CASE \E place : Goto(r, place)
      <3>1. \A q \in Requests : reqs'[q].began = reqs[q].began
        BY <1>1, <2>2 DEF Goto, Handler
      <3> QED
        BY <1>3, <3>1
    <2>3. CASE \E place, op, h, p : Start(r, place, op, h, p)
      <3>1. \A q \in Requests : reqs'[q].began \in {reqs[q].began, now, 0}
        BY <1>1, <2>3 DEF Start, Handling
      <3> QED
        BY <1>1, <1>3, <3>1
    <2> QED
      BY <1>3, <2>1, <2>2, <2>3
  <1>4. CASE Tick
    <2>1. now' = now + 1 /\ reqs' = reqs
      BY <1>4 DEF Tick
    <2> QED
      BY <1>1, <2>1
  <1>5. CASE Restart
    <2>1. now' = now /\ \A r \in Requests : reqs'[r].began = 0
      BY <1>5 DEF Restart, Idle
    <2> QED
      BY <1>1, <2>1
  <1>6. CASE Sweep \/ Regenerate \/ Disable \/ UNCHANGED vars
    BY <1>2, <1>6 DEF Sweep, Regenerate, Disable, vars
  <1>7. ASSUME NEW r \in Requests,
               \/ Hold(r) \/ HoldInsert(r) \/ Present(r) \/ Strike(r) \/ Exhaust(r)
               \/ Complete(r) \/ Mint(r) \/ Redeem(r) \/ StepUp(r) \/ Confirm(r) \/ Read(r)
               \/ Spend(r) \/ ConfirmWrite(r) \/ Begin(r) \/ BeginInsert(r) \/ Die(r)
        PROVE  \A q \in Requests : reqs'[q].began <= now'
    <2>1. now' = now
      BY <1>7 DEF Hold, HoldInsert, Present, Strike, Exhaust, Complete, Mint, Redeem, StepUp,
                  Confirm, Guarded, Read, Spend, ConfirmWrite, Begin, BeginInsert, Die
    <2>2. \/ UNCHANGED reqs \/ Done(r) \/ (\E place : Goto(r, place))
          \/ (\E place, op, h, p : Start(r, place, op, h, p))
      BY <1>7 DEF Hold, HoldInsert, Present, Strike, Exhaust, Complete, Mint, Redeem, StepUp,
                  Confirm, Guarded, Read, Miss, Spend, ConfirmWrite, Begin, BeginInsert, Die
    <2> QED
      BY <1>2, <1>3, <2>1, <2>2
  <1> QED
    BY <1>4, <1>5, <1>6, <1>7 DEF Next

Within == SumFunction(Recent(now)) + Cardinality(Asking) < LimitFailures + Cardinality(Requests)

\* A step that lets no handler in and notes no failure keeps the budget.
LEMMA LimiterQuiet ==
    ASSUME TypeInv, TypeInv', Within, Asking' \subseteq Asking,
           SumFunction(Recent(now))' <= SumFunction(Recent(now))
    PROVE  Within'
  <1>1. /\ Asking \in SUBSET Requests /\ Asking' \in SUBSET Asking
        /\ Asking' \in SUBSET Requests
    BY DEF Asking
  <1>2. /\ Cardinality(Asking) \in Nat /\ Cardinality(Asking') \in Nat
        /\ Cardinality(Requests) \in Nat /\ Cardinality(Asking') <= Cardinality(Asking)
    BY <1>1, AskingBound, FS_Subset
  <1> QED
    BY <1>2, RecentAfter, SecondFactorAssumption DEF Within

\* A handler let in finds the window below its budget.
LEMMA LimiterAsked ==
    ASSUME TypeInv, TypeInv', ~Blocked,
           SumFunction(Recent(now))' <= SumFunction(Recent(now))
    PROVE  Within'
  <1>1. SumFunction(Recent(now)) < LimitFailures
    BY RecentAfter, SecondFactorAssumption DEF Blocked
  <1>2. Asking' \in SUBSET Requests
    BY DEF Asking
  <1>3. /\ Cardinality(Asking') \in Nat /\ Cardinality(Requests) \in Nat
        /\ Cardinality(Asking') <= Cardinality(Requests)
    BY <1>2, AskingBound
  <1> QED
    BY <1>1, <1>3, RecentAfter, SecondFactorAssumption DEF Within

\* A handler that fails was counted among those that may.
LEMMA LimiterMissed ==
    ASSUME TypeInv, TypeInv', Within, NEW r \in Asking, Asking' \subseteq Asking \ {r},
           SumFunction(Recent(now))' <= SumFunction(Recent(now)) + 1
    PROVE  Within'
  <1>1. /\ Asking \in SUBSET Requests /\ Asking' \in SUBSET (Asking \ {r})
        /\ Asking' \in SUBSET Requests /\ Asking \ {r} \in SUBSET Requests
    BY DEF Asking
  <1>2. /\ Cardinality(Asking) \in Nat /\ Cardinality(Asking') \in Nat
        /\ Cardinality(Requests) \in Nat
        /\ Cardinality(Asking') <= Cardinality(Asking \ {r})
    BY <1>1, AskingBound, FS_Subset
  <1>3. Cardinality(Asking \ {r}) = Cardinality(Asking) - 1
    BY <1>1, AskingBound, FS_RemoveElement
  <1> QED
    BY <1>2, <1>3, RecentAfter, SecondFactorAssumption DEF Within

\* Where one handler went, and whether it may still fail.
LEMMA AskingAfter ==
    ASSUME NEW r \in Requests, \A q \in Requests \ {r} : reqs'[q] = reqs[q]
    PROVE  /\ r \notin Asking' => Asking' \subseteq Asking \ {r}
           /\ r \in Asking => Asking' \subseteq Asking
  BY DEF Asking

\* The window after a step that leaves the limiter alone, prunes it, or makes
\* it forget.
LEMMA WindowQuiet ==
    ASSUME TypeInv, TypeInv', now <= now',
           \/ failures' = failures \/ failures' = Recent(now) \/ failures' = NoFailures
    PROVE  SumFunction(Recent(now))' <= SumFunction(Recent(now))
  <1>1. /\ \A u \in Clock : failures[u] \in Nat
        /\ failures' = failures => \A u \in Clock : failures'[u] <= failures[u]
    BY DEF TypeInv, TypeOK
  <1>2. failures' = Recent(now) => \A u \in Clock : failures'[u] <= failures[u]
    BY <1>1 DEF Recent
  <1>3. failures' = NoFailures => \A u \in Clock : failures'[u] <= failures[u]
    BY <1>1 DEF NoFailures
  <1> QED
    BY <1>1, <1>2, <1>3, WindowShrinks

\* A miss outside a half-session is noted, and its handler is done.
LEMMA LimiterMiss ==
    ASSUME TypeInv, TypeInv', LimiterInv, NEW r \in Requests, Miss(r),
           At(r, "read") \/ At(r, "spend"), now' = now
    PROVE  Within'
  <1>1. reqs[r] \in Shaped /\ reqs[r].op \in GuessOps
    BY DEF TypeInv, Shaped, At, GuessOps
  <1>2. now \in Nat /\ now \in Clock /\ reqs[r].began \in Clock /\ reqs[r].began <= now
    BY <1>1, ClockType DEF TypeInv, TypeOK, LimiterInv, Shaped, Handler
  <1>3. CASE reqs[r].op = "totp"
    <2>1. Goto(r, "strike") /\ failures' = failures
      BY <1>3 DEF Miss
    <2>2. r \notin Asking'
      BY <2>1, ReqsAfter DEF Asking
    <2>3. Asking' \subseteq Asking
      BY <2>1, <2>2, ReqsAfter, AskingAfter
    <2> QED
      BY <1>2, <2>1, <2>3, WindowQuiet, LimiterQuiet DEF LimiterInv, Within
  <1>4. CASE reqs[r].op # "totp"
    <2>1. /\ Done(r)
          /\ \E t \in Clock : t <= now /\ failures' = [Recent(t) EXCEPT ![t] = @ + 1]
      BY <1>2, <1>4 DEF Miss
    <2>2. r \in Asking /\ r \notin Asking'
      BY <1>1, <1>4, <2>1, ReqsAfter DEF Asking, At, GuessOps
    <2>3. Asking' \subseteq Asking \ {r}
      BY <2>1, <2>2, ReqsAfter, AskingAfter
    <2>4. SumFunction(Recent(now))' <= SumFunction(Recent(now)) + 1
      BY <2>1, WindowGrows
    <2> QED
      BY <2>2, <2>3, <2>4, LimiterMissed DEF LimiterInv, Within
  <1> QED
    BY <1>3, <1>4

\* Every step keeps the limiter's budget.
LEMMA LimiterStep == TypeInv /\ LimiterInv /\ [Next]_vars => LimiterInv'
  <1> SUFFICES ASSUME TypeInv, LimiterInv, [Next]_vars
               PROVE  Within'
    BY BeganStep DEF LimiterInv, Within
  <1>0. TypeInv' /\ Within /\ now \in Nat
    BY TypeStep, ClockType DEF LimiterInv, Within, TypeInv, TypeOK
  <1>1. ASSUME NEW r \in Requests, StepUp(r) \/ Confirm(r)
        PROVE  Within'
    <2>1. now' = now /\ failures' = Recent(now)
      BY <1>1 DEF StepUp, Confirm, Guarded
    <2>2. SumFunction(Recent(now))' <= SumFunction(Recent(now))
      BY <1>0, <2>1, WindowQuiet
    <2>3. reqs' = reqs \/ ~Blocked
      BY <1>1 DEF StepUp, Confirm, Guarded
    <2>4. CASE reqs' = reqs
      <3>1. Asking' \subseteq Asking
        BY <2>4 DEF Asking
      <3> QED
        BY <1>0, <2>2, <3>1, LimiterQuiet
    <2>5. CASE ~Blocked
      BY <1>0, <2>2, <2>5, LimiterAsked
    <2> QED
      BY <2>3, <2>4, <2>5
  <1>2. ASSUME NEW r \in Requests, Read(r)
        PROVE  Within'
    <2>1. now' = now /\ At(r, "read") /\ reqs[r].op \in GuessOps
      BY <1>2 DEF Read, At, TypeInv, Shaped
    <2>2. CASE Miss(r)
      BY <1>0, <2>1, <2>2, LimiterMiss
    <2>3. CASE /\ Goto(r, "spend") \/ Goto(r, "confirm")
               /\ failures' = failures \/ failures' = NoFailures
      <3>1. r \in Asking' => r \in Asking
        BY <2>1, <2>3, ReqsAfter DEF Asking, At
      <3>2. Asking' \subseteq Asking
        BY <2>3, <3>1, ReqsAfter, AskingAfter
      <3> QED
        BY <1>0, <2>1, <2>3, <3>2, WindowQuiet, LimiterQuiet
    <2> QED
      BY <1>2, <2>2, <2>3 DEF Read
  <1>3. ASSUME NEW r \in Requests, Spend(r)
        PROVE  Within'
    <2>1. now' = now /\ At(r, "spend")
      BY <1>3 DEF Spend
    <2>2. CASE Miss(r)
      BY <1>0, <2>1, <2>2, LimiterMiss
    <2>3. CASE /\ Goto(r, "complete") \/ Goto(r, "mint")
               /\ failures' = failures \/ failures' = NoFailures
      <3>1. r \notin Asking'
        BY <2>3, ReqsAfter DEF Asking
      <3>2. Asking' \subseteq Asking
        BY <2>3, <3>1, ReqsAfter, AskingAfter
      <3> QED
        BY <1>0, <2>1, <2>3, <3>2, WindowQuiet, LimiterQuiet
    <2> QED
      BY <1>3, <2>2, <2>3 DEF Spend
  <1>4. ASSUME NEW r \in Requests, Present(r) \/ Hold(r) \/ Begin(r)
        PROVE  Within'
    <2>1. now' = now /\ failures' = failures
      BY <1>4 DEF Present, Hold, Begin
    <2>2. \E place, h, p : \E op \in {"totp", "recovery", "passkey", "hold", "begin"} :
             Start(r, place, op, h, p)
      BY <1>4 DEF Present, Hold, Begin
    <2>3. reqs'[r].op \notin {"stepup", "confirm"} /\ \A q \in Requests \ {r} : reqs'[q] = reqs[q]
      BY <2>2 DEF Start, Handling, TypeInv
    <2>4. Asking' \subseteq Asking
      BY <2>3, AskingAfter DEF Asking
    <2> QED
      BY <1>0, <2>1, <2>4, WindowQuiet, LimiterQuiet
  <1>5. ASSUME NEW r \in Requests,
               \/ HoldInsert(r) \/ Strike(r) \/ Exhaust(r) \/ Complete(r) \/ Mint(r)
               \/ Redeem(r) \/ ConfirmWrite(r) \/ BeginInsert(r) \/ Die(r)
        PROVE  Within'
    <2>1. now' = now /\ failures' = failures
      BY <1>5 DEF HoldInsert, Strike, Exhaust, Complete, Mint, Redeem, ConfirmWrite,
                  BeginInsert, Die
    <2>2. Done(r) \/ \E place \in {"exhaust", "mint", "complete", "strike"} : Goto(r, place)
      BY <1>5 DEF HoldInsert, Strike, Exhaust, Complete, Mint, Redeem, ConfirmWrite,
                  BeginInsert, Die
    <2>3. r \notin Asking'
      BY <2>2, ReqsAfter DEF Asking
    <2>4. Asking' \subseteq Asking
      BY <2>2, <2>3, ReqsAfter, AskingAfter
    <2> QED
      BY <1>0, <2>1, <2>4, WindowQuiet, LimiterQuiet
  <1>6. CASE Sweep \/ Regenerate \/ Disable \/ Tick \/ UNCHANGED vars
    <2>1. now <= now' /\ failures' = failures /\ reqs' = reqs
      BY <1>0, <1>6 DEF Sweep, Regenerate, Disable, Tick, vars
    <2>2. Asking' \subseteq Asking
      BY <2>1 DEF Asking
    <2> QED
      BY <1>0, <2>1, <2>2, WindowQuiet, LimiterQuiet
  <1>7. CASE Restart
    <2>1. now' = now /\ failures' = NoFailures /\ \A q \in Requests : reqs'[q].at = "idle"
      BY <1>7 DEF Restart, Idle
    <2>2. Asking' \subseteq Asking
      BY <2>1 DEF Asking
    <2> QED
      BY <1>0, <2>1, <2>2, WindowQuiet, LimiterQuiet
  <1> QED
    BY <1>1, <1>2, <1>3, <1>4, <1>5, <1>6, <1>7 DEF Next

\* The failures in the limiter's window stay below its budget and what the
\* handlers that had already asked add, wherever in the window a StepUp dates
\* its failure (limiter).
THEOREM FailuresBounded == Spec => []LimiterBudget
  <1>1. Init => LimiterInv
    <2> SUFFICES ASSUME Init
                 PROVE  LimiterInv
      OBVIOUS
    <2>1. TypeInv
      BY TypeInit
    <2>2. Recent(now) = [u \in Clock |-> 0]
      BY DEF Init, NoFailures, Recent
    <2>3. SumFunction(Recent(now)) = 0
      BY <2>1, <2>2, RecentSum, SumOfZeros
    <2>4. Asking = {}
      BY DEF Init, Idle, Asking
    <2>5. Cardinality(Asking) = 0 /\ Cardinality(Requests) \in Nat
      BY <2>4, FS_EmptySet, FS_CardinalityType, SecondFactorAssumption
    <2>6. \A r \in Requests : reqs[r].began <= now
      BY DEF Init, Idle
    <2> QED
      BY <2>3, <2>5, <2>6, SecondFactorAssumption DEF LimiterInv
  <1>2. TypeInv /\ LimiterInv => LimiterBudget
    <2> SUFFICES ASSUME TypeInv, LimiterInv
                 PROVE  LimiterBudget
      OBVIOUS
    <2>1. Asking \in SUBSET Requests
      BY DEF Asking
    <2> QED
      BY <2>1, AskingBound, RecentSum, SecondFactorAssumption DEF LimiterInv, LimiterBudget
  <1> QED
    BY TypeInit, TypeStep, LimiterStep, <1>1, <1>2, PTL DEF Spec

=============================================================================

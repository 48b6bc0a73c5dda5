----------------------- MODULE ServerConnectionProofs -----------------------
(***************************************************************************)
(* What ServerConnection promises for any number of attempts: the          *)
(* inductive invariant, and the theorems that follow from it.              *)
(***************************************************************************)
EXTENDS ServerConnection, TLAPS

Underway == {"handshaking", "versioning", "login"}

\* nothing is known of an attempt that was not made yet, and every index was
\* given to an attempt of its own
Numbering ==
    /\ \A k \in Attempts :
          k > attempts => wire[k] = "none" /\ k \notin sockets
    /\ index <= attempts
    /\ pc \in Underway => index < attempts

\* mpSocket and mpConnection belong together when it matters
Pairing ==
    /\ socket \in connections => connection = socket
    /\ connected =>
          /\ connection \in Attempts
          /\ wire[connection] \in {ModeOf(writable), "dead"}
    /\ pc \in Underway =>
          /\ connection \in Attempts
          /\ wire[connection] \in {"open", "dead"}

\* how far the call has come
Progress ==
    /\ pc \in Underway \cup {"connecting"} => ~ connected
    /\ pc = "asking" => connected /\ writable = call.writable

Noted == listing # NULL => listing.index <= index

IndInv ==
    /\ TypeOK
    /\ Numbering
    /\ Pairing
    /\ Progress
    /\ Noted
    /\ NoForgottenSession
    /\ PointersLive
    /\ ListingFresh

-----------------------------------------------------------------------------
USE ConnectionAssumption DEF ConnectionAssumption

\* The program starts within the invariant.
THEOREM InitInv == Init => IndInv
<1> SUFFICES ASSUME Init
             PROVE  IndInv
    OBVIOUS
<1> USE DEF Init, Attempts, LoggedIn
<1>1. TypeOK
  <2>1. call \in Call /\ failure \in Failures
      BY DEF Call, Requests, Failures
  <2>2. 0 \in 0 .. MaxAttempts
      OBVIOUS
  <2>3. wire \in [Attempts -> {"none", "open", "dead", "closed"} \cup LoggedIn]
      OBVIOUS
  <2>4. QED
      BY <2>1, <2>2, <2>3 DEF TypeOK
<1>2. Numbering /\ Pairing /\ Progress /\ Noted
    BY DEF Numbering, Pairing, Progress, Noted, Underway
<1>3. NoForgottenSession /\ PointersLive /\ ListingFresh
    BY DEF NoForgottenSession, PointersLive, ListingFresh
<1>4. QED
    BY <1>1, <1>2, <1>3 DEF IndInv

\* Disconnect leaves nothing connected and forgets no session.
LEMMA DropInv ==
    ASSUME IndInv, Drop
    PROVE  /\ wire' \in [Attempts -> {"none", "open", "dead", "closed"} \cup LoggedIn]
           /\ sockets' \subseteq Attempts /\ connections' \subseteq Attempts
           /\ writable' = writable /\ index' = index
           /\ socket' = NULL /\ connection' = NULL /\ connected' = FALSE
           /\ \A k \in Attempts : k > attempts => wire'[k] = "none" /\ k \notin sockets'
           /\ connections' \subseteq sockets'
           /\ \A k \in Attempts : wire'[k] \notin LoggedIn
BY DEF Drop, IndInv, TypeOK, Numbering, Pairing, NoForgottenSession, PointersLive,
       LoggedIn, Attempts

\* A call that breaks off or is refused leaves the rest as it is.
LEMMA BreakInv ==
    ASSUME IndInv, NEW f \in Failures, Break(f)
    PROVE  IndInv'
BY DEF IndInv, Numbering, Pairing, Progress, Noted, Underway, TypeOK, Break, Fail,
       NoForgottenSession, PointersLive, ListingFresh, flags, objects, users

\* A call that Connect2 refuses leaves nothing connected and no pointer bad.
LEMMA RefuseInv ==
    ASSUME IndInv, Refuse, pc \in Underway \cup {"connecting"}
    PROVE  IndInv'
BY DEF IndInv, Numbering, Pairing, Progress, Noted, Underway, TypeOK, Refuse,
       NoForgottenSession, PointersLive, ListingFresh, flags, objects, users

\* Every step stays within the invariant.
THEOREM StepInv == IndInv /\ [Next]_vars => IndInv'
<1> SUFFICES ASSUME IndInv, [Next]_vars
             PROVE  IndInv'
    OBVIOUS
<1> USE DEF IndInv, TypeOK, Numbering, Pairing, Progress, Noted, Underway,
            NoForgottenSession, PointersLive, ListingFresh, LoggedIn, Failures,
            ModeOf, Attempts, flags, objects, users
<1>1. ASSUME NEW c \in Calls, Enter(c)
      PROVE  IndInv'
  <2>1. c \in Call
      BY DEF Calls
  <2>2. CASE Drop /\ ~ Reusable(c)
      BY <1>1, <2>1, <2>2, DropInv DEF Enter
  <2>3. CASE UNCHANGED <<flags, objects, wire>> /\ Reusable(c)
      BY <1>1, <2>1, <2>3 DEF Enter, Reusable
  <2>4. CASE UNCHANGED <<flags, objects, wire>> /\ ~ connected /\ ~ Reusable(c)
      BY <1>1, <2>1, <2>4 DEF Enter
  <2>5. QED
      BY <1>1, <2>2, <2>3, <2>4 DEF Enter
<1>2. CASE NotConfigured
    BY <1>2, RefuseInv DEF NotConfigured
<1>3. CASE BadKeys
    BY <1>3 DEF BadKeys, Fail
<1>4. CASE Open
  <2> DEFINE made == attempts + 1
  <2>1. made \in Attempts /\ made \notin sockets /\ made \notin connections
      BY <1>4 DEF Open
  <2>2. CASE pc' = "handshaking"
    <3>1. /\ attempts' = made /\ socket' = made /\ connection' = made
          /\ sockets' = sockets \cup {made}
          /\ connections' = connections \cup {made}
          /\ wire' = [wire EXCEPT ![made] = "open"]
          /\ UNCHANGED <<failure, call, flags, users>>
        BY <1>4, <2>2 DEF Open, Fail
    <3>2. TypeOK' /\ PointersLive' /\ NoForgottenSession' /\ ListingFresh'
        BY <1>4, <2>1, <2>2, <3>1 DEF Open
    <3>3. Numbering' /\ Pairing' /\ Progress' /\ Noted'
        BY <1>4, <2>1, <2>2, <3>1 DEF Open
    <3>4. QED
        BY <3>2, <3>3
  <2>3. CASE Fail("other") /\ UNCHANGED <<connection, connections, wire>>
      BY <1>4, <2>1, <2>3 DEF Open, Fail
  <2>4. QED
      BY <1>4, <2>2, <2>3 DEF Open
<1>5. CASE HandshakeStep
  <2>1. CASE Alive /\ pc' = "versioning"
                   /\ UNCHANGED <<call, failure, attempts, flags, objects, wire, users>>
      BY <1>5, <2>1 DEF HandshakeStep
  <2>2. CASE \E f \in Failures : Break(f)
      BY <2>2, BreakInv
  <2>3. QED
      BY <1>5, <2>1, <2>2 DEF HandshakeStep
<1>6. CASE VersionStep
  <2>1. CASE Alive /\ pc' = "login"
                   /\ UNCHANGED <<call, failure, attempts, flags, objects, wire, users>>
      BY <1>6, <2>1 DEF VersionStep
  <2>2. CASE Refuse
      BY <1>6, <2>2, RefuseInv DEF VersionStep
  <2>3. CASE \E f \in Failures : Break(f)
      BY <2>3, BreakInv
  <2>4. QED
      BY <1>6, <2>1, <2>2, <2>3 DEF VersionStep
<1>7. CASE LoginStep
  <2>1. CASE Alive /\ LoggedInNow
    <3>1. index + 1 \in 0 .. MaxAttempts /\ call.writable \in BOOLEAN
        BY <1>7 DEF LoginStep, Call
    <3>2. QED
        BY <1>7, <2>1, <3>1 DEF LoginStep, LoggedInNow
  <2>2. CASE Refuse
      BY <1>7, <2>2, RefuseInv DEF LoginStep
  <2>3. CASE \E f \in Failures : Break(f)
      BY <2>3, BreakInv
  <2>4. QED
      BY <1>7, <2>1, <2>2, <2>3 DEF LoginStep
<1>8. CASE Answered
    BY <1>8 DEF Answered
<1>9. CASE NotAnswered
    BY <1>9, BreakInv DEF NotAnswered
<1>10. CASE HandleException
  <2>1. CASE Drop
      BY <1>10, <2>1, DropInv DEF HandleException
  <2>2. CASE UNCHANGED <<flags, objects, wire>>
      BY <1>10, <2>2 DEF HandleException
  <2>3. QED
      BY <1>10, <2>1, <2>2 DEF HandleException
<1>11. CASE Disconnect
    BY <1>11, DropInv DEF Disconnect
<1>12. CASE Destroy
  <2>1. CASE Drop
      BY <1>12, <2>1, DropInv DEF Destroy
  <2>2. CASE UNCHANGED <<flags, objects, wire>>
      BY <1>12, <2>2 DEF Destroy
  <2>3. QED
      BY <1>12, <2>1, <2>2 DEF Destroy
<1>13. CASE GiveBack
    BY <1>13 DEF GiveBack
<1>14. ASSUME NEW k \in Attempts, WireDies(k)
       PROVE  IndInv'
    BY <1>14 DEF WireDies
<1>15. CASE UNCHANGED vars
    BY <1>15 DEF vars
<1>16. QED
    BY <1>1, <1>2, <1>3, <1>4, <1>5, <1>6, <1>7, <1>8, <1>9, <1>10, <1>11,
       <1>12, <1>13, <1>14, <1>15 DEF Next

\* Every reachable state satisfies the inductive invariant.
THEOREM Invariance == Spec => []IndInv
<1>1. Init => IndInv
    BY InitInv
<1>2. IndInv /\ [Next]_vars => IndInv'
    BY StepInv
<1>3. QED
    BY <1>1, <1>2, PTL DEF Spec

-----------------------------------------------------------------------------
\* Every variable keeps its type; in particular no more indexes are given out
\* than attempts were made.
THEOREM TypeCorrect == Spec => []TypeOK
<1>1. IndInv => TypeOK
    BY DEF IndInv
<1>2. QED
    BY <1>1, Invariance, PTL

\* No request goes out but on a session of its own mode.
THEOREM RequestsOnTheirSession == Spec => []RequestOnItsSession
<1>1. IndInv => RequestOnItsSession
    BY DEF IndInv, Progress, Pairing, PointersLive, RequestOnItsSession, Attempts
<1>2. QED
    BY <1>1, Invariance, PTL

\* No session that is logged in is ever forgotten.
THEOREM SessionsRemembered == Spec => []NoForgottenSession
<1>1. IndInv => NoForgottenSession
    BY DEF IndInv
<1>2. QED
    BY <1>1, Invariance, PTL

\* mpSocket and mpConnection never dangle.
THEOREM PointersStayLive == Spec => []PointersLive
<1>1. IndInv => PointersLive
    BY DEF IndInv
<1>2. QED
    BY <1>1, Invariance, PTL

\* A listing cached under the current index is of the current session.
THEOREM ListingsFresh == Spec => []ListingFresh
<1>1. IndInv => ListingFresh
    BY DEF IndInv
<1>2. QED
    BY <1>1, Invariance, PTL

-----------------------------------------------------------------------------
\* The object a comparison was lent outlives the reads of the other panels.
THEOREM LentOutlivesReads == Spec => LentSurvivesReads
<1> DEFINE Lost  == lent \in connections /\ lent \notin connections'
           Cause == \/ pc = "handling" /\ failure = "TLSReadFailed"
                    \/ Disconnect
                    \/ Destroy
                    \/ \E c \in Calls : Enter(c) /\ c.writable # writable
<1> USE DEF flags, objects, users
<1>1. ASSUME [Next]_vars, Lost
      PROVE  Cause
  <2>1. ASSUME NEW c \in Calls, Enter(c)
        PROVE  c.writable # writable
      BY <1>1, <2>1 DEF Enter, Reusable
  <2>2. CASE HandleException
      BY <1>1, <2>2 DEF HandleException
  <2>3. CASE Open
      BY <1>1, <2>3 DEF Open
  <2>4. CASE NotConfigured \/ BadKeys \/ HandshakeStep \/ VersionStep \/ LoginStep
             \/ Answered \/ NotAnswered \/ GiveBack \/ UNCHANGED vars
      BY <1>1, <2>4 DEF NotConfigured, BadKeys, HandshakeStep, VersionStep, LoginStep,
         LoggedInNow, Answered, NotAnswered, GiveBack, vars, Refuse, Break, Fail
  <2>5. CASE \E k \in Attempts : WireDies(k)
      BY <1>1, <2>5 DEF WireDies
  <2>6. QED
      BY <1>1, <2>1, <2>2, <2>3, <2>4, <2>5 DEF Next
<1>2. QED
    BY <1>1, PTL DEF Spec, LentSurvivesReads
=============================================================================

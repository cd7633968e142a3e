------------------------------ MODULE ActorGuard ------------------------------
(***************************************************************************)
(* cdcf::ActorGuard keeps one worker actor: a send that ends in a system   *)
(* error runs the application's restart function and sends the message     *)
(* again, while a restart function that clears `active` ends the guard.    *)
(* Several threads use one guard; keeper_locker is held for a whole send,  *)
(* the restarts included, but active_ is first read outside the lock.      *)
(***************************************************************************)
EXTENDS Naturals

CONSTANTS
    Caller,         \* the threads that use the guard
    MaxGuardCalls,  \* bound on their calls
    MaxRestarts     \* bound on the calls of restart_fun_

ASSUME GuardAssumption == MaxGuardCalls \in Nat /\ MaxRestarts \in Nat

VARIABLES
    guardActive,    \* active_
    keptWorks,      \* whether keep_actor_ is an actor that answers
    guardHolder,    \* the caller that holds keeper_locker, or "nobody"
    guardCall,      \* per caller: where its call is, and whether it found active_ set
    callbacks,      \* per caller: the callbacks its call ran
    guardCalls,     \* bounded counts
    restarts

guardVars ==
    <<guardActive, keptWorks, guardHolder, guardCall, callbacks, guardCalls, restarts>>

GuardInit ==
    /\ guardActive = TRUE
    /\ keptWorks = TRUE
    /\ guardHolder = "nobody"
    /\ guardCall = [c \in Caller |-> [at |-> "returned", entered |-> FALSE]]
    /\ callbacks = [c \in Caller |-> 0]
    /\ guardCalls = 0
    /\ restarts = 0

CallAt(c, place) == guardCall' = [guardCall EXCEPT ![c].at = place]

\* SendAndReceive reads active_; a guard that has ended sends nothing.
CallGuard(c) ==
    /\ guardCall[c].at = "returned"
    /\ guardCalls < MaxGuardCalls
    /\ guardCalls' = guardCalls + 1
    /\ guardCall' = [guardCall EXCEPT ![c] =
                        [at |-> IF guardActive THEN "waits" ELSE "returned",
                         entered |-> guardActive]]
    /\ callbacks' = [callbacks EXCEPT ![c] = 0]
    /\ UNCHANGED <<guardActive, keptWorks, guardHolder, restarts>>

TakeKeeperLock(c) ==
    /\ guardCall[c].at = "waits"
    /\ guardHolder = "nobody"
    /\ guardHolder' = c
    /\ CallAt(c, "asks")
    /\ UNCHANGED <<guardActive, keptWorks, callbacks, guardCalls, restarts>>

CallBack(c) == callbacks' = [callbacks EXCEPT ![c] = @ + 1]

\* The call returns and the lock with it.
Return(c) == CallAt(c, "returned") /\ guardHolder' = "nobody"

\* The kept actor answers: return_function.
KeptAnswers(c) ==
    /\ guardCall[c].at = "asks"
    /\ keptWorks
    /\ CallBack(c)
    /\ Return(c)
    /\ UNCHANGED <<guardActive, keptWorks, guardCalls, restarts>>

\* Mutant of BusinessError: the handler goes on to the restart.
BusinessErrorRestarting(c) ==
    /\ guardCall[c].at = "asks"
    /\ keptWorks
    /\ CallBack(c)
    /\ UNCHANGED <<guardActive, keptWorks, guardHolder, guardCall, guardCalls, restarts>>

\* HandleSendFailed, an error of the application's own: error_deal_function.
BusinessError(c) ==
    /\ guardCall[c].at = "asks"
    /\ keptWorks
    /\ CallBack(c)
    /\ Return(c)
    /\ UNCHANGED <<guardActive, keptWorks, guardCalls, restarts>>

\* HandleSendFailed, a system error: the actor is down, or did not answer in
\* time.  restart_fun_ sets active_ as it likes and its actor may be no better
\* than the last; the message is sent again unless active_ is clear now.
SystemError(c) ==
    /\ guardCall[c].at = "asks"
    /\ restarts < MaxRestarts
    /\ restarts' = restarts + 1
    /\ keptWorks' \in BOOLEAN
    /\ guardActive' \in BOOLEAN
    /\ IF guardActive'
       THEN UNCHANGED <<guardHolder, guardCall, callbacks>>
       ELSE CallBack(c) /\ Return(c)
    /\ UNCHANGED guardCalls

KeptActorDies ==
    /\ keptWorks
    /\ keptWorks' = FALSE
    /\ UNCHANGED <<guardActive, guardHolder, guardCall, callbacks, guardCalls, restarts>>

GuardNext ==
    \/ KeptActorDies
    \/ \E c \in Caller :
          \/ CallGuard(c) \/ TakeKeeperLock(c) \/ KeptAnswers(c)
          \/ BusinessError(c) \/ SystemError(c)

GuardSpec == GuardInit /\ [][GuardNext]_guardVars

-----------------------------------------------------------------------------

\* The types of the guard's state.
GuardTypeOK ==
    /\ guardActive \in BOOLEAN /\ keptWorks \in BOOLEAN
    /\ guardHolder \in Caller \cup {"nobody"}
    /\ guardCall \in [Caller -> [at : {"returned", "waits", "asks"}, entered : BOOLEAN]]
    /\ callbacks \in [Caller -> Nat]
    /\ guardCalls \in 0 .. MaxGuardCalls /\ restarts \in 0 .. MaxRestarts

\* SendAndReceive runs exactly one of its two callbacks if it found the guard
\* active, whatever restarts, failed restarts and calls of other threads came
\* in between, and none if it did not: callers fulfil a promise in each callback,
\* which throws the second time, and wait for it.
OneCallbackPerCall ==
    \A c \in Caller : guardCall[c].at = "returned" =>
        callbacks[c] = IF guardCall[c].entered THEN 1 ELSE 0
=============================================================================

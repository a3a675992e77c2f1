---------------------------- MODULE SignalHandler ----------------------------
(***************************************************************************)
(* The stop flag every thread of fronius-bridge polls                      *)
(* (include/signal_handler.h), and the mutex and condition variable on     *)
(* which main waits for it.                                                *)
(*                                                                         *)
(* Both flags are written under mtx_. A thread other than main's is not    *)
(* interrupted inside shutdown(), so its call is one step that waits for   *)
(* mtx_. The main thread is: Linux delivers a signal sent to the process   *)
(* to its first thread as long as that thread does not block it, and main  *)
(* never does. What main does under mtx_ is therefore a step of its own.   *)
(* A second lock of a std::mutex by its holder blocks for good (glibc).    *)
(***************************************************************************)
VARIABLES
  running,   \* running_
  failed,    \* failed_
  stoppedBy, \* what stopped the bridge first: "signal", "failure", "nothing"
  waiter     \* the main thread in this object: "outside", "locked" in its
             \* own shutdown(), in wait() "checked", "asleep" or "notified",
             \* or "hung" in a signal handler that waits for main's own lock

handlerVars == <<running, failed, stoppedBy, waiter>>

HandlerInit ==
  /\ running = TRUE
  /\ failed = FALSE
  /\ stoppedBy = "nothing"
  /\ waiter = "outside"

HandlerTypeOK ==
  /\ running \in BOOLEAN
  /\ failed \in BOOLEAN
  /\ stoppedBy \in {"signal", "failure", "nothing"}
  /\ waiter \in {"outside", "locked", "checked", "asleep", "notified", "hung"}

-----------------------------------------------------------------------------

\* mtx_ is free: main gives it up only while it sleeps in wait().
mtxFree == waiter \in {"outside", "asleep", "notified"}

\* The stores of shutdown(), under mtx_.
stop(failure) ==
  /\ failed' = (failed \/ failure)
  /\ running' = FALSE
  /\ stoppedBy' = IF ~running THEN stoppedBy
                  ELSE IF failure THEN "failure" ELSE "signal"

\* cv_.notify_all() reaches main only when it sleeps.
notify == waiter' = IF waiter = "asleep" THEN "notified" ELSE waiter

\* Fault (no specification uses it): the flag that stops the threads is set
\* and the failure forgotten.
ShutdownForgetsBug(failure) ==
  /\ mtxFree
  /\ failed' = failed
  /\ running' = FALSE
  /\ stoppedBy' = IF ~running THEN stoppedBy
                  ELSE IF failure THEN "failure" ELSE "signal"
  /\ notify

\* Fault: the flag is stored and main notified without mtx_.
UnlockedShutdownBug(failure) ==
  /\ stop(failure)
  /\ notify

\* Fault: the flag is stored and nobody told.
NoNotifyBug(failure) ==
  /\ mtxFree
  /\ stop(failure)
  /\ UNCHANGED waiter

shutdown(failure) ==
  /\ mtxFree
  /\ stop(failure)
  /\ notify

\* main's own shutdown(): it locks mtx_, and then stores and unlocks.
lockMtx ==
  /\ waiter = "outside"
  /\ waiter' = "locked"
  /\ UNCHANGED <<running, failed, stoppedBy>>

shutdownByMain ==
  /\ waiter = "locked"
  /\ stop(TRUE)
  /\ waiter' = "outside"

-----------------------------------------------------------------------------
\* SIGINT or SIGTERM, on the main thread. The handler does nothing once the
\* bridge stops; before, it locks mtx_, whoever holds it.

hang ==
  /\ waiter' = "hung"
  /\ UNCHANGED <<running, failed, stoppedBy>>

signalHandler ==
  /\ running /\ waiter # "hung"
  /\ IF mtxFree THEN shutdown(FALSE) ELSE hang

\* sa_mask is empty: the other signal may interrupt the handler inside its
\* own shutdown(), before the store.
nestedSignal ==
  /\ running /\ mtxFree
  /\ hang

-----------------------------------------------------------------------------
\* wait(): main locks mtx_ and looks at the flag, ...
checkFlag ==
  /\ waiter = "outside" /\ running
  /\ waiter' = "checked"
  /\ UNCHANGED <<running, failed, stoppedBy>>

\* ... goes to sleep, which releases mtx_, ...
sleep ==
  /\ waiter = "checked"
  /\ waiter' = "asleep"
  /\ UNCHANGED <<running, failed, stoppedBy>>

\* ... and returns when it finds the flag cleared. A spurious wakeup only
\* repeats checkFlag and is left out.
waitReturns ==
  /\ waiter \in {"outside", "notified"} /\ ~running
  /\ waiter' = "outside"
  /\ UNCHANGED <<running, failed, stoppedBy>>
=============================================================================

----------------------------- MODULE FileWatch ------------------------------
(***************************************************************************)
(* filewatch::FileWatch (FileWatch.h), the Windows build: the monitor      *)
(* thread that reads directory changes, the callback thread that passes    *)
(* them on, and the thread that constructs and destroys the object.        *)
(*                                                                         *)
(* A change is a number, in the order in which the changes happen, and the *)
(* file it is about.  The steps taken under _callback_mutex are atomic;    *)
(* the mutex is seen held only while the callback thread is about to wait  *)
(* on _cv, between its test of the predicate and the wait itself.          *)
(***************************************************************************)
EXTENDS Naturals, Sequences, SequencesExt

CONSTANTS
  Files,       \* files below the watched directory: [dir, name] records
  WatchedFile, \* the path the constructor is given, when it names a file
  BufferSize,  \* changes the system keeps between two reads
  MaxChanges   \* bound: changes made to the directory

ASSUME FilesAssumption ==
  /\ \A f \in Files : f = [dir |-> f.dir, name |-> f.name]
  /\ WatchedFile \in Files
  /\ BufferSize \in Nat \ {0}
  /\ MaxChanges \in Nat

VARIABLES
  single,     \* _watching_single_file
  hEvent,     \* CreateEvent gave the monitor an event to wait on
  made,       \* changes made so far
  armed,      \* the system has begun to record changes for the handle
  pending,    \* changes recorded and not yet read
  overflow,   \* more changes came than the system keeps
  queue,      \* _callback_information
  monitor,    \* the monitor thread,
  buffer, parsed,       \* the records of its read, and its parsed_information
  callback, batch,      \* the callback thread, and the events it swapped out
  owner,      \* the thread that constructs and destroys the FileWatch
  destory, closeEvent,  \* _destory; _close_event is signalled
  closes,     \* how often the directory handle has been closed
  reported, delivered,  \* history: events parsed; events called back
  owed,       \* history: changes that are kept for the object
  lostWakeup            \* history: destroy() notified between the callback
                        \* thread's test of the predicate and its wait

setup  == <<single, hEvent>>
kernel == <<armed, pending, overflow>>
flags  == <<destory, closeEvent>>
hist   == <<made, owed>>
parse  == <<buffer, parsed>>
vars   == <<setup, kernel, queue, monitor, parse, callback, batch, owner, flags,
            closes, reported, delivered, hist, lostWakeup>>

Change == [num : Nat, file : Files]

\* parsed_information and callback_information are locals of a loop body.
TypeOK ==
  /\ {single, hEvent, armed, overflow, destory, closeEvent, lostWakeup} \subseteq BOOLEAN
  /\ made \in Nat /\ closes \in Nat
  /\ {pending, buffer, queue, parsed, batch, reported, delivered} \subseteq Seq(Change)
  /\ Len(pending) <= BufferSize
  /\ owed \subseteq Nat
  /\ monitor \in {"start", "issue", "wait", "parse", "dispatch", "notify", "exited", "failed"}
  /\ callback \in {"loop", "lock", "block", "waiting", "run", "exited"}
  /\ owner \in {"constructing", "running", "flagged", "signalled",
                "joinMonitor", "joinCallback", "closing", "gone"}
  /\ buffer # <<>> <=> monitor = "parse"
  /\ parsed # <<>> => monitor \in {"parse", "dispatch"}
  /\ batch # <<>> => callback = "run"

-----------------------------------------------------------------------------
(* The operating system.                                                   *)

\* pass_filter: in single-file mode only the file's name is compared, with
\* the directory part cut off; otherwise the pattern ".*" takes every path.
PassFilter(f) == single => f.name = WatchedFile.name

\* Nothing is recorded before the first ReadDirectoryChangesW on the handle.
\* A buffer that would overflow is discarded, but for the records that have
\* already completed an outstanding read.
Record(c) ==
  \/ /\ ~armed \/ overflow
     /\ UNCHANGED <<pending, overflow>>
  \/ /\ armed /\ ~overflow /\ Len(pending) < BufferSize
     /\ pending' = Append(pending, c)
     /\ UNCHANGED overflow
  \/ /\ armed /\ ~overflow /\ Len(pending) = BufferSize
     /\ \E k \in IF monitor = "wait" THEN 1..Len(pending) ELSE {0} :
          pending' = SubSeq(pending, 1, k)
     /\ overflow' = TRUE

Numbers(changes) == {changes[i].num : i \in 1..Len(changes)}

\* A file below the directory changes.
ChangeFile(f) ==
  /\ made < MaxChanges
  /\ made' = made + 1
  /\ Record([num |-> made', file |-> f])
  /\ LET due == IF owner = "running" /\ PassFilter(f) THEN {made'} ELSE {}
     IN  owed' = (owed \ Numbers(pending)) \cup ((owed \cup due) \cap Numbers(pending'))
  /\ UNCHANGED <<setup, armed, queue, monitor, parse, callback, batch, owner, flags,
                 closes, reported, delivered, lostWakeup>>

-----------------------------------------------------------------------------
(* The monitor thread: monitor_directory().                                *)

\* _running.set_value(): the constructor may return.
SetRunning ==
  /\ monitor = "start"
  /\ monitor' = "issue"
  /\ UNCHANGED <<setup, kernel, queue, parse, callback, batch, owner, flags, closes,
                 reported, delivered, hist, lostWakeup>>

\* ReadDirectoryChangesW; when it fails the thread closes _directory and ends.
IssueRead ==
  /\ monitor = "issue"
  /\ \/ armed' = TRUE /\ monitor' = "wait" /\ UNCHANGED closes
     \/ closes' = closes + 1 /\ monitor' = "failed" /\ UNCHANGED armed
  /\ UNCHANGED <<setup, pending, overflow, queue, parse, callback, batch, owner, flags,
                 reported, delivered, hist, lostWakeup>>

\* WAIT_OBJECT_0: the read is complete, with some of the records.  No bytes
\* are returned if the system had to discard its buffer.
ReadCompletes ==
  /\ monitor = "wait" /\ hEvent
  /\ \/ /\ overflow /\ pending = <<>>
        /\ overflow' = FALSE
        /\ monitor' = "dispatch"
        /\ UNCHANGED <<pending, buffer>>
     \/ /\ \E n \in 1..Len(pending) :
             /\ buffer' = SubSeq(pending, 1, n)
             /\ pending' = SubSeq(pending, n + 1, Len(pending))
        /\ monitor' = "parse"
        /\ UNCHANGED overflow
  /\ UNCHANGED <<setup, armed, queue, parsed, callback, batch, owner, flags, closes,
                 reported, delivered, hist, lostWakeup>>

\* Fault: NextEntryOffset is not followed.
NextEntry_None == buffer' = <<>> /\ monitor' = "dispatch"

\* file_information moves on to the next record, if there is one.
NextEntry == /\ buffer' = Tail(buffer)
             /\ monitor' = IF buffer' = <<>> THEN "dispatch" ELSE "parse"

\* One record of the buffer; an event, if the filter keeps it.
ParseRecord ==
  /\ monitor = "parse"
  /\ LET event == IF PassFilter(Head(buffer).file) THEN <<Head(buffer)>> ELSE <<>>
     IN  parsed' = parsed \o event /\ reported' = reported \o event
  /\ NextEntry
  /\ UNCHANGED <<setup, kernel, queue, callback, batch, owner, flags, closes, delivered,
                 hist, lostWakeup>>

\* GetOverlappedResult fails: the exception ends the thread.
ReadThrows ==
  /\ monitor = "wait" /\ hEvent
  /\ monitor' = "exited"
  /\ UNCHANGED <<setup, kernel, queue, parse, callback, batch, owner, flags, closes,
                 reported, delivered, hist, lostWakeup>>

\* Fault: the thread closes the directory on its way out here too.
CloseRequested_Closes ==
  /\ monitor = "wait" /\ hEvent
  /\ closeEvent /\ pending = <<>> /\ ~overflow
  /\ monitor' = "exited" /\ closes' = closes + 1
  /\ UNCHANGED <<setup, kernel, queue, parse, callback, batch, owner, flags,
                 reported, delivered, hist, lostWakeup>>

\* WAIT_OBJECT_0 + 1: goto quit.  A completed read comes first in handles.
CloseRequested ==
  /\ monitor = "wait" /\ hEvent
  /\ closeEvent /\ pending = <<>> /\ ~overflow
  /\ monitor' = "exited"
  /\ UNCHANGED <<setup, kernel, queue, parse, callback, batch, owner, flags, closes,
                 reported, delivered, hist, lostWakeup>>

\* WAIT_FAILED, on a null event handle: nothing is parsed.
WaitFails ==
  /\ monitor = "wait" /\ ~hEvent
  /\ monitor' = "dispatch"
  /\ UNCHANGED <<setup, kernel, queue, parse, callback, batch, owner, flags, closes,
                 reported, delivered, hist, lostWakeup>>

\* Fault: the monitor does not take _callback_mutex.
MutexFree_Ignored == TRUE

MutexFree == callback # "block"

\* Fault: the events go to the front.
Enqueue_Front == queue' = parsed \o queue /\ parsed' = <<>>

\* Fault: parsed_information outlives the iteration.
Enqueue_Hoisted == queue' = queue \o parsed /\ UNCHANGED parsed

Enqueue == queue' = queue \o parsed /\ parsed' = <<>>

\* Under _callback_mutex the parsed events are appended.
Dispatch ==
  /\ monitor = "dispatch" /\ MutexFree
  /\ Enqueue
  /\ monitor' = "notify"
  /\ UNCHANGED <<setup, kernel, buffer, callback, batch, owner, flags, closes, reported,
                 delivered, hist, lostWakeup>>

\* A thread that waits on _cv goes on to take the mutex again.
Woken == IF callback = "waiting" THEN "lock" ELSE callback

\* _cv.notify_all(); } while (_destory == false);
NotifyQueued ==
  /\ monitor = "notify"
  /\ callback' = Woken
  /\ monitor' = IF destory THEN "exited" ELSE "issue"
  /\ UNCHANGED <<setup, kernel, queue, parse, batch, owner, flags, closes, reported,
                 delivered, hist, lostWakeup>>

-----------------------------------------------------------------------------
(* The callback thread: callback_thread().                                 *)

\* while (_destory == false)
CallbackLoop ==
  /\ callback = "loop"
  /\ callback' = IF destory THEN "exited" ELSE "lock"
  /\ UNCHANGED <<setup, kernel, queue, monitor, parse, batch, owner, flags, closes,
                 reported, delivered, hist, lostWakeup>>

\* Under the mutex: with nothing to do, wait on _cv ...
TestPredicate ==
  /\ callback = "lock"
  /\ queue = <<>> /\ ~destory
  /\ callback' = "block"
  /\ UNCHANGED <<setup, kernel, queue, monitor, parse, batch, owner, flags, closes,
                 reported, delivered, hist, lostWakeup>>

\* std::swap with an empty vector.
TakeQueue == batch' = queue /\ queue' = <<>>

\* ... otherwise swap the queue out and release the mutex.
SwapOut ==
  /\ callback = "lock"
  /\ queue # <<>> \/ destory
  /\ TakeQueue
  /\ callback' = "run"
  /\ UNCHANGED <<setup, kernel, monitor, parse, owner, flags, closes, reported,
                 delivered, hist, lostWakeup>>

\* _cv.wait releases the mutex and is from now on in reach of notify_all.
Block ==
  /\ callback = "block"
  /\ callback' = "waiting"
  /\ UNCHANGED <<setup, kernel, queue, monitor, parse, batch, owner, flags, closes,
                 reported, delivered, hist, lostWakeup>>

\* A condition variable may wake its waiters for no reason.
SpuriousWakeup ==
  /\ callback = "waiting"
  /\ callback' = "lock"
  /\ UNCHANGED <<setup, kernel, queue, monitor, parse, batch, owner, flags, closes,
                 reported, delivered, hist, lostWakeup>>

\* for (file : callback_information) _callback(...); its exceptions are
\* swallowed.
CallBack ==
  /\ callback = "run"
  /\ \/ /\ batch = <<>>
        /\ callback' = "loop"
        /\ UNCHANGED <<batch, delivered>>
     \/ /\ batch # <<>>
        /\ delivered' = Append(delivered, Head(batch))
        /\ batch' = Tail(batch)
        /\ UNCHANGED callback
  /\ UNCHANGED <<setup, kernel, queue, monitor, parse, owner, flags, closes, reported,
                 hist, lostWakeup>>

-----------------------------------------------------------------------------
(* The owner: the constructor's future.get(), and destroy().               *)

owned == <<setup, kernel, queue, monitor, parse, batch, reported, delivered, hist>>

\* future.get() returns.
Constructed ==
  /\ owner = "constructing" /\ monitor # "start"
  /\ owner' = "running"
  /\ UNCHANGED <<owned, flags, callback, closes, lostWakeup>>

SetDestroy ==
  /\ owner = "running"
  /\ destory' = TRUE
  /\ owner' = "flagged"
  /\ UNCHANGED <<owned, closeEvent, callback, closes, lostWakeup>>

\* Fault: the event is not set.
SignalClose_Not ==
  /\ owner = "flagged"
  /\ owner' = "signalled"
  /\ UNCHANGED <<owned, flags, callback, closes, lostWakeup>>

SignalClose ==
  /\ owner = "flagged"
  /\ closeEvent' = TRUE
  /\ owner' = "signalled"
  /\ UNCHANGED <<owned, destory, callback, closes, lostWakeup>>

\* _cv.notify_all(), without the mutex.
NotifyDestroy ==
  /\ owner = "signalled"
  /\ callback' = Woken
  /\ lostWakeup' = (callback = "block")
  /\ owner' = "joinMonitor"
  /\ UNCHANGED <<owned, flags, closes>>

JoinMonitor ==
  /\ owner = "joinMonitor" /\ monitor \in {"exited", "failed"}
  /\ owner' = "joinCallback"
  /\ UNCHANGED <<owned, flags, callback, closes, lostWakeup>>

\* Fault: the callback thread is not waited for.
JoinCallback_Detaches ==
  /\ owner = "joinCallback"
  /\ owner' = "closing"
  /\ UNCHANGED <<owned, flags, callback, closes, lostWakeup>>

JoinCallback ==
  /\ owner = "joinCallback" /\ callback = "exited"
  /\ owner' = "closing"
  /\ UNCHANGED <<owned, flags, callback, closes, lostWakeup>>

CloseDirectory ==
  /\ owner = "closing"
  /\ closes' = closes + 1
  /\ owner' = "gone"
  /\ UNCHANGED <<owned, flags, callback, lostWakeup>>

-----------------------------------------------------------------------------
Init ==
  /\ single \in BOOLEAN /\ hEvent \in BOOLEAN
  /\ made = 0 /\ armed = FALSE /\ pending = <<>> /\ overflow = FALSE
  /\ queue = <<>> /\ monitor = "start" /\ buffer = <<>> /\ parsed = <<>>
  /\ callback = "loop" /\ batch = <<>>
  /\ owner = "constructing" /\ destory = FALSE /\ closeEvent = FALSE /\ closes = 0
  /\ reported = <<>> /\ delivered = <<>>
  /\ owed = {} /\ lostWakeup = FALSE

Monitor == \/ SetRunning \/ IssueRead \/ ReadCompletes \/ ParseRecord \/ CloseRequested
           \/ WaitFails \/ Dispatch \/ NotifyQueued

CallbackThread == CallbackLoop \/ TestPredicate \/ SwapOut \/ Block \/ CallBack

Destroy == \/ SignalClose \/ NotifyDestroy \/ JoinMonitor \/ JoinCallback
           \/ CloseDirectory

Next == \/ \E f \in Files : ChangeFile(f)
        \/ Monitor \/ ReadThrows \/ CallbackThread \/ SpuriousWakeup
        \/ Constructed \/ SetDestroy \/ Destroy

Spec == Init /\ [][Next]_vars

\* The scheduler runs every thread that is not blocked; callbacks return.
\* Spurious wakeups do not come so often that they keep _callback_mutex from
\* the monitor for ever.  Nothing is assumed of the files, of a read that is
\* outstanding, or of whether the owner ever destroys the object.
FairSpec ==
  Spec /\ WF_vars(Monitor) /\ SF_vars(Dispatch) /\ WF_vars(CallbackThread)
       /\ WF_vars(Constructed) /\ WF_vars(Destroy)

-----------------------------------------------------------------------------
(* Properties                                                              *)

\* Between the monitor's parse and the callback no event is lost, doubled or
\* overtaken (FileWatch.h:416-421, 527-546).
NothingLostInside == reported = delivered \o batch \o queue \o parsed

\* Callbacks come in the order of the changes, once for each, and only for
\* paths that pass the filter: of a single file the name, in whatever directory
\* below the watched one (FileWatch.h:243-272, 391-407).
DeliveredInOrder ==
  \A i, j \in 1..Len(delivered) :
    /\ PassFilter(delivered[i].file)
    /\ i < j => delivered[i].num < delivered[j].num

\* The directory handle is closed once by the time destroy() returns, but
\* twice if the monitor closed it after a failed read (FileWatch.h:370, 237).
DirectoryClosed ==
  closes = (IF owner = "gone" THEN 1 ELSE 0) + (IF monitor = "failed" THEN 1 ELSE 0)

\* An event that was parsed reaches the callback, unless the object is
\* destroyed first: the monitor's notification is never missed.
ReportedIsDelivered ==
  \A n \in 1..MaxChanges :
    (Len(reported) >= n) ~> (Len(delivered) >= n \/ destory)

\* A change that the system keeps for the object is called back, unless the
\* system discards it after all, the monitor ends, or it has no event to wait
\* for (FileWatch.h:355-409: the reads, and all the records of each).
KeptChangesAreNotified ==
  \A n \in 1..MaxChanges :
    (n \in owed)
      ~> (\/ \E i \in 1..Len(delivered) : delivered[i].num = n
          \/ n \notin owed \/ destory \/ monitor \in {"exited", "failed"} \/ ~hEvent)

\* destroy() returns, unless its notification fell between the callback
\* thread's test of _destory and its wait (FileWatch.h:226-233, 528-529).
DestroyReturns == destory ~> (owner = "gone" \/ lostWakeup)

\* The threads implement EventFeed.
Feed == INSTANCE EventFeed WITH Event <- Change, notified <- delivered,
                                gone <- owner = "gone"
FeedSpec == Feed!Spec
=============================================================================

----------------------------- MODULE IpcObjects -----------------------------
(***************************************************************************)
(* The kernel with one object that threads wait for, which is an event, a  *)
(* mailbox, a message queue or a memory pool.  The kind is chosen in the   *)
(* initial state; the state of the other kinds is not touched then.        *)
(***************************************************************************)
EXTENDS Event, Mailbox, MessageQueue, MemPool

CONSTANTS
  Objects     \* the kinds of object that are looked at

ASSUME IpcObjectsAssumption == Objects \subseteq {"event", "mailbox", "queue", "pool"}

VARIABLES
  object      \* the kind of the object

objects == <<object, eventVars, mailboxVars, mqVars, poolVars>>

IpcObjectsInit ==
  /\ object \in Objects
  /\ ObjStart /\ EventInit /\ MailboxInit /\ MessageQueueInit /\ MemPoolInit

IpcObjectsNext ==
  /\ \/ object = "event" /\ EventNext /\ UNCHANGED <<mailboxVars, mqVars, poolVars>>
     \/ object = "mailbox" /\ MailboxNext /\ UNCHANGED <<eventVars, mqVars, poolVars>>
     \/ object = "queue" /\ MessageQueueNext /\ UNCHANGED <<eventVars, mailboxVars, poolVars>>
     \/ object = "pool" /\ MemPoolNext /\ UNCHANGED <<eventVars, mailboxVars, mqVars>>
  /\ UNCHANGED object

IpcObjectsSpec ==
  IpcObjectsInit /\ [][IpcObjectsNext]_<<vars, objVars, objects>>

-----------------------------------------------------------------------------
(* No wakeup is lost: a thread waits only while there is nothing that it   *)
(* could be given but for the threads that were woken before it.           *)
NobodyWaitsInVain ==
  /\ object = "mailbox" => NoMailMissed
  /\ object = "queue" => NoMessageMissed
  /\ object = "pool" => NoBlockMissed
=============================================================================

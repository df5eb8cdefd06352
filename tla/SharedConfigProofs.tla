--------------------------- MODULE SharedConfigProofs ---------------------------
(***************************************************************************)
(* The invariants of SharedConfig, for any number of processes.            *)
(*                                                                         *)
(* The inductive invariant says what the place of a process implies, that  *)
(* only the maker's step gives an object its name, who has written a       *)
(* segment, and then, for each set of things that may happen, how the      *)
(* segment that is found, the semaphore that is found, its value and the   *)
(* processes inside belong together.                                       *)
(***************************************************************************)
EXTENDS SharedConfig, TLAPS

-----------------------------------------------------------------------------
(* The inductive invariant *)

\* Complete: the constructor has returned, nothing has ended the process.
Complete == Places \ (Constructing \cup InHandler \cup InDestructor \cup Ended)

\* A process has taken its semaphore.
Holds(p) == Critical(p) \/ pc[p] = "print"

\* A process has left initFromUserInput or, a client, seen the configuration.
Informed(p) ==
  \/ pc[p] \in {"post", "status", "print", "get", "read", "serving"}
  \/ pc[p] = "poll" /\ p \in Mains

\* A process has not yet written the format.
BeforeWrite == {"off", "enter", "checked", "input", "rejected", "write"} \cup Constructing

\* What the place of a process says about its handles.
Labels == \A p \in Procs :
  /\ pc[p] \in {"off", "attach"} => at[p] = None
  /\ pc[p] \in Constructing \cup {"off"} => sem[p] = None
  /\ pc[p] \in {"construct", "unlink", "exitSem"} => at[p] = p
  /\ pc[p] \in Complete \cup {"openSem"} => at[p] # None
  /\ pc[p] \in Complete => sem[p] # None
  /\ pc[p] \in Checking => back[p] \in {"init", "poll", "get"}
  /\ pc[p] \in InHandler => back[p] \in {"exit", "dead"} /\ "interrupt" \in env
  /\ pc[p] = "enter" \/ Critical(p) => p \in Mains
  /\ pc[p] = "rejected" => "invalid" \in env
  /\ pc[p] \in {"write", "publish"} => option[p] # NoFormat

\* What is used or found has been made, and a segment is blank until then.
Made ==
  /\ \A p \in Procs : at[p] # None => at[at[p]] = at[p]
  /\ \A p \in Procs : sem[p] # None => sem[sem[p]] = sem[p]
  /\ key # None => at[key] = key
  /\ name # None => sem[name] = name
  /\ \A s \in Procs : at[s] # s => segment[s] = Blank

\* The pid in a segment is of a main that uses it and has written it.
Author == \A s \in Procs : segment[s].pid # None =>
  /\ segment[s].pid \in Mains
  /\ at[segment[s].pid] = s
  /\ pc[segment[s].pid] \notin BeforeWrite
  /\ pc[segment[s].pid] \in Checking => back[segment[s].pid] # "init"

\* One process is in the constructor, and alone in a segment it has just made.
Orderly == "together" \notin env =>
  /\ \A p, q \in Procs : pc[p] \in Constructing /\ pc[q] \in Constructing => p = q
  /\ \A p, q \in Procs : pc[p] \in {"construct", "unlink"} /\ at[q] = p => q = p

\* Without handlers: a segment is found until its creator ends, none is found
\* until that one has unlinked the name, and who uses the segment that is found
\* has the semaphore that is found.
Named == env \subseteq {"kill", "end"} =>
  /\ \A p \in Procs : at[p] = p /\ Alive(p) /\ pc[p] # "exitSem" => key = p
  /\ \A p \in Procs : pc[p] = "exitSem" => key = None
  /\ \A p \in Procs : key # None /\ at[p] = key /\ sem[p] # None => sem[p] = name

\* A semaphore is a lock, which a process that was killed may hold.
OneHolder == env \subseteq {"kill", "end"} => \A s \in Procs :
  /\ value[s] <= 1
  /\ \A p \in Procs : Holds(p) /\ sem[p] = s => value[s] = 0
  /\ \A p, q \in Procs : Holds(p) /\ Holds(q) /\ sem[p] = s /\ sem[q] = s => p = q

\* While only clients end, a main that has a segment does not end, a creator
\* leaves a segment that is published, which stays published, and who has left
\* initFromUserInput finds it so.
Calm == env \subseteq {"end"} =>
  /\ \A p \in Mains : pc[p] \in {"dead"} \cup InDestructor => at[p] = None
  /\ \A p \in Procs : pc[p] \notin {"clean", "cleaned"}
  /\ \A p \in Procs : pc[p] = "check" => back[p] = "init"
  /\ \A p \in Procs : at[p] = p /\ pc[p] \in {"dead"} \cup InDestructor => segment[p].initialized
  /\ \A s \in Procs : segment[s].initialized =>
       segment[s].pid # None /\ segment[s].format = option[segment[s].pid]
  /\ \A p \in Procs : Informed(p) => Data(p).initialized
  /\ \A p \in Procs : pc[p] \in {"input", "write", "publish"} => ~Data(p).initialized
  /\ \A p \in Procs : pc[p] = "publish" => Data(p).pid = p /\ Data(p).format = option[p]
  /\ \A p \in Procs : pc[p] = "serving" => result[p] = Data(p).format

\* With handlers: the process that wrote the segment that is found lives and
\* has not yet unlinked it, so nobody cleans it.
Signalled == env \subseteq {"interrupt", "invalid", "end", "gap"} /\ key # None =>
  /\ segment[key].pid # None =>
       pc[segment[key].pid] \notin Ended \cup InDestructor \cup {"handlerSem"}
  /\ segment[key].initialized => segment[key].pid # None
  /\ \A p \in Procs : at[p] = key =>
       /\ pc[p] \notin {"clean", "cleaned"}
       /\ pc[p] = "check" => back[p] = "init"
       /\ pc[p] = "publish" => segment[key].pid # None
       /\ Informed(p) => segment[key].initialized

\* A semaphore at 0 is held, or held by a process in the handler, which will
\* unlink it, or no longer found.
Posted == "kill" \notin env =>
  \A s \in Procs : sem[s] = s /\ value[s] = 0 =>
    \/ \E q \in Procs : sem[q] = s /\ (Holds(q) \/ pc[q] \in InHandler)
    \/ name # s /\ "interrupt" \in env

IInv ==
  /\ TypeOK /\ Labels /\ Made /\ Author /\ Orderly
  /\ Named /\ OneHolder /\ Calm /\ Signalled /\ Posted

-----------------------------------------------------------------------------
(* The steps of a process, as SharedConfig groups them *)

Constructs(p) ==
  \/ Create(p) \/ Exists(p) \/ Attach(p) \/ AttachThrows(p)
  \/ Construct(p) \/ Unlink(p) \/ OpenSem(p)
Cleans(p) ==
  \/ \E from \in {"poll", "get"} : CallClean(p, from)
  \/ NotStale(p) \/ IsStale(p) \/ Clean(p) \/ Cleaned(p)
Initializes(p) ==
  \/ Enter(p) \/ Check(p) \/ Input(p) \/ Reject(p) \/ Rethrow(p)
  \/ WriteConfig(p) \/ Publish(p) \/ Post(p)
Reads(p) == Poll(p) \/ Status(p) \/ Printed(p) \/ Get(p) \/ Read(p)
Ends(p) ==
  \/ End(p) \/ Kill(p) \/ Interrupt(p) \/ ForceRemove(p) \/ ForceUnlink(p)
  \/ Exit(p) \/ ExitUnlink(p)

StepOf(p) == Constructs(p) \/ Cleans(p) \/ Initializes(p) \/ Reads(p) \/ Ends(p)

\* Every step of the system is a step of a process, in one of the groups.
LEMMA StepIsOfGroup == Next => \E p \in Procs : StepOf(p)
BY DEF Next, Start, Step, StepOf, Constructs, Cleans, Initializes, Reads, Ends

-----------------------------------------------------------------------------
(* Every step keeps the parts *)

USE SharedAssumption DEF Places, Constructing, InHandler, InDestructor,
  Ended, Checking, Formats, NoFormat,
  Goto, handles, names, choices, Complete

\* A step that writes a segment writes the one the process uses.
LEMMA WritesItsSegment ==
  ASSUME TypeOK, Labels, NEW p \in Procs,
         Construct(p) \/ Clean(p) \/ Cleaned(p) \/ WriteConfig(p) \/ Publish(p)
  PROVE  /\ at[p] \in Procs /\ UNCHANGED <<handles, names>>
         /\ segment' \in [Procs -> [format: Formats, initialized: BOOLEAN,
                                    pid: Procs \cup {None}]]
         /\ \A s \in Procs : s # at[p] => segment'[s] = segment[s]
<1> DEFINE Segments == [format: Formats, initialized: BOOLEAN, pid: Procs \cup {None}]
<1>1. at[p] \in Procs /\ UNCHANGED <<handles, names>>
  BY DEF TypeOK, Labels, Construct, Clean, Cleaned, WriteConfig, Publish
<1>2. segment \in [Procs -> Segments]
  BY DEF TypeOK
<1>3. PICK r \in Segments : r = segment[at[p]]
  BY <1>1, <1>2
<1>4. \E w \in Segments : segment' = [segment EXCEPT ![at[p]] = w]
  <2>1. CASE Construct(p)
    <3>1. Blank \in Segments
      BY DEF Blank
    <3> QED BY <2>1, <3>1 DEF Construct, TypeOK, Labels
  <2>2. CASE Clean(p)
    <3>1. [r EXCEPT !.initialized = FALSE] \in Segments
      OBVIOUS
    <3>2. segment' = [segment EXCEPT ![at[p]] = [r EXCEPT !.initialized = FALSE]]
      BY <1>3, <2>2 DEF Clean
    <3> QED BY <3>1, <3>2
  <2>3. CASE Cleaned(p)
    <3>1. [r EXCEPT !.pid = None, !.format = 0] \in Segments
      OBVIOUS
    <3>2. segment' = [segment EXCEPT ![at[p]] = [r EXCEPT !.pid = None, !.format = 0]]
      BY <1>1, <1>2, <1>3, <2>3 DEF Cleaned
    <3> QED BY <3>1, <3>2
  <2>4. CASE WriteConfig(p)
    <3>1. option[p] \in Formats
      BY <2>4 DEF WriteConfig, TypeOK, Labels
    <3>2. [r EXCEPT !.format = option[p], !.pid = p] \in Segments
      BY <3>1
    <3>3. segment' = [segment EXCEPT ![at[p]] = [r EXCEPT !.format = option[p], !.pid = p]]
      BY <1>1, <1>2, <1>3, <2>4 DEF WriteConfig
    <3> QED BY <3>2, <3>3
  <2>5. CASE Publish(p)
    <3>1. [r EXCEPT !.initialized = TRUE] \in Segments
      OBVIOUS
    <3>2. segment' = [segment EXCEPT ![at[p]] = [r EXCEPT !.initialized = TRUE]]
      BY <1>3, <2>5 DEF Publish
    <3> QED BY <3>1, <3>2
  <2> QED BY <2>1, <2>2, <2>3, <2>4, <2>5
<1>5. segment' \in [Procs -> Segments] /\ \A s \in Procs : s # at[p] => segment'[s] =
    segment[s]
  <2> HIDE DEF Segments
  <2> QED BY <1>1, <1>2, <1>4
<1> QED BY <1>1, <1>5

\* While only clients end, a segment that is not published is the one that is
\* found, and one of those that use it is in initFromUserInput.
LEMMA AloneInside ==
  ASSUME TypeOK, Labels, Made, Named, OneHolder, Calm, env \subseteq {"end"},
         NEW p \in Procs, NEW q \in Procs, Critical(p), Critical(q),
         at[p] = at[q], ~Data(p).initialized
  PROVE  p = q
<1>1. /\ at[p] \in Procs /\ at[at[p]] = at[p]
      /\ sem[p] \in Procs /\ sem[q] \in Procs
  BY DEF TypeOK, Labels, Made, Critical
<1>2. pc[at[p]] \notin {"off", "dead"} \cup InDestructor
  BY <1>1 DEF Calm, Labels, Data
<1>3. at[p] = key
  BY <1>1, <1>2 DEF Named, Alive, TypeOK
<1>4. sem[p] = sem[q]
  BY <1>1, <1>3 DEF Named
<1> QED BY <1>1, <1>4 DEF OneHolder, Holds

\* A step keeps the types.
LEMMA TypeOKStays ==
  ASSUME TypeOK, Labels, NEW p \in Procs, StepOf(p)
  PROVE  TypeOK'
<1>1. CASE Constructs(p)
  <2>1. CASE Create(p)
    BY <2>1 DEF Create, TypeOK
  <2>2. CASE Exists(p)
    BY <2>2 DEF Exists, TypeOK
  <2>3. CASE Attach(p)
    BY <2>3 DEF Attach, TypeOK
  <2>4. CASE AttachThrows(p)
    BY <2>4 DEF AttachThrows, TypeOK
  <2>5. CASE Construct(p)
    BY <2>5, WritesItsSegment DEF Construct, TypeOK
  <2>6. CASE Unlink(p)
    BY <2>6 DEF Unlink, TypeOK
  <2>7. CASE OpenSem(p)
    BY <2>7 DEF OpenSem, TypeOK
  <2> QED BY <1>1, <2>1, <2>2, <2>3, <2>4, <2>5, <2>6, <2>7 DEF Constructs
<1>2. CASE Cleans(p)
  <2>1. ASSUME NEW from \in {"poll", "get"}, CallClean(p, from) PROVE TypeOK'
    BY <2>1 DEF CallClean, TypeOK
  <2>2. CASE Clean(p)
    BY <2>2, WritesItsSegment DEF Clean, TypeOK
  <2>3. CASE Cleaned(p)
    BY <2>3, WritesItsSegment DEF Cleaned, Checked, TypeOK, Labels
  <2>4. CASE NotStale(p)
    BY <2>4 DEF NotStale, Checked, TypeOK, Labels
  <2>5. CASE IsStale(p)
    BY <2>5 DEF IsStale, TypeOK
  <2> QED BY <1>2, <2>1, <2>2, <2>3, <2>4, <2>5 DEF Cleans
<1>3. CASE Initializes(p)
  <2>1. CASE Enter(p)
    BY <2>1 DEF Enter, TypeOK, Labels
  <2>2. CASE Check(p)
    BY <2>2 DEF Check, TypeOK
  <2>3. CASE Input(p)
    BY <2>3 DEF Input, TypeOK
  <2>4. CASE Reject(p)
    BY <2>4 DEF Reject, TypeOK, Labels
  <2>5. CASE Rethrow(p)
    BY <2>5 DEF Rethrow, TypeOK, Labels
  <2>6. CASE WriteConfig(p)
    BY <2>6, WritesItsSegment DEF WriteConfig, TypeOK
  <2>7. CASE Publish(p)
    BY <2>7, WritesItsSegment DEF Publish, TypeOK
  <2>8. CASE Post(p)
    BY <2>8 DEF Post, TypeOK, Labels
  <2> QED BY <1>3, <2>1, <2>2, <2>3, <2>4, <2>5, <2>6, <2>7, <2>8 DEF Initializes
<1>4. CASE Reads(p)
  <2>1. CASE Poll(p)
    BY <2>1 DEF Poll, TypeOK, Labels, Data
  <2>2. CASE Status(p)
    BY <2>2 DEF Status, TypeOK, Labels, Data
  <2>3. CASE Printed(p)
    BY <2>3 DEF Printed, TypeOK, Labels, Data
  <2>4. CASE Get(p)
    BY <2>4 DEF Get, TypeOK, Labels, Data
  <2>5. CASE Read(p)
    BY <2>5 DEF Read, TypeOK, Labels, Data
  <2> QED BY <1>4, <2>1, <2>2, <2>3, <2>4, <2>5 DEF Reads
<1>5. CASE Ends(p)
  <2>1. CASE End(p)
    BY <2>1 DEF End, TypeOK, Labels
  <2>2. CASE Kill(p)
    BY <2>2 DEF Kill, TypeOK, Labels
  <2>3. CASE Interrupt(p)
    BY <2>3 DEF Interrupt, TypeOK, Labels
  <2>4. CASE ForceRemove(p)
    BY <2>4 DEF ForceRemove, TypeOK, Labels
  <2>5. CASE ForceUnlink(p)
    BY <2>5 DEF ForceUnlink, TypeOK, Labels
  <2>6. CASE Exit(p)
    BY <2>6 DEF Exit, TypeOK, Labels
  <2>7. CASE ExitUnlink(p)
    BY <2>7 DEF ExitUnlink, TypeOK, Labels
  <2> QED BY <1>5, <2>1, <2>2, <2>3, <2>4, <2>5, <2>6, <2>7 DEF Ends
<1> QED BY <1>1, <1>2, <1>3, <1>4, <1>5 DEF StepOf

\* A step keeps what the place of a process says about its handles.
LEMMA LabelsStays ==
  ASSUME TypeOK, Labels, NEW p \in Procs, StepOf(p)
  PROVE  Labels'
<1>1. CASE Constructs(p)
  <2>1. CASE Create(p)
    BY <2>1 DEF Create, TypeOK, Labels, Critical
  <2>2. CASE Exists(p)
    BY <2>2 DEF Exists, TypeOK, Labels, Critical
  <2>3. CASE Attach(p)
    BY <2>3 DEF Attach, TypeOK, Labels, Critical
  <2>4. CASE AttachThrows(p)
    BY <2>4 DEF AttachThrows, TypeOK, Labels, Critical
  <2>5. CASE Construct(p)
    BY <2>5 DEF Construct, TypeOK, Labels, Critical
  <2>6. CASE Unlink(p)
    BY <2>6 DEF Unlink, TypeOK, Labels, Critical
  <2>7. CASE OpenSem(p)
    BY <2>7 DEF OpenSem, TypeOK, Labels, Critical
  <2> QED BY <1>1, <2>1, <2>2, <2>3, <2>4, <2>5, <2>6, <2>7 DEF Constructs
<1>2. CASE Cleans(p)
  <2>1. ASSUME NEW from \in {"poll", "get"}, CallClean(p, from) PROVE Labels'
    BY <2>1 DEF CallClean, TypeOK, Labels, Critical
  <2>2. CASE NotStale(p)
    BY <2>2 DEF NotStale, Checked, TypeOK, Labels, Critical
  <2>3. CASE IsStale(p)
    BY <2>3 DEF IsStale, TypeOK, Labels, Critical
  <2>4. CASE Clean(p)
    BY <2>4 DEF Clean, TypeOK, Labels, Critical
  <2>5. CASE Cleaned(p)
    BY <2>5 DEF Cleaned, Checked, TypeOK, Labels, Critical
  <2> QED BY <1>2, <2>1, <2>2, <2>3, <2>4, <2>5 DEF Cleans
<1>3. CASE Initializes(p)
  <2>1. CASE Enter(p)
    BY <2>1 DEF Enter, TypeOK, Labels, Critical
  <2>2. CASE Check(p)
    BY <2>2 DEF Check, TypeOK, Labels, Critical
  <2>3. CASE Input(p)
    BY <2>3 DEF Input, TypeOK, Labels, Critical
  <2>4. CASE Reject(p)
    BY <2>4 DEF Reject, TypeOK, Labels, Critical
  <2>5. CASE Rethrow(p)
    BY <2>5 DEF Rethrow, TypeOK, Labels, Critical
  <2>6. CASE WriteConfig(p)
    BY <2>6 DEF WriteConfig, TypeOK, Labels, Critical
  <2>7. CASE Publish(p)
    BY <2>7 DEF Publish, TypeOK, Labels, Critical
  <2>8. CASE Post(p)
    BY <2>8 DEF Post, TypeOK, Labels, Critical
  <2> QED BY <1>3, <2>1, <2>2, <2>3, <2>4, <2>5, <2>6, <2>7, <2>8 DEF Initializes
<1>4. CASE Reads(p)
  <2>1. CASE Poll(p)
    BY <2>1 DEF Poll, TypeOK, Labels, Critical
  <2>2. CASE Status(p)
    BY <2>2 DEF Status, TypeOK, Labels, Critical
  <2>3. CASE Printed(p)
    BY <2>3 DEF Printed, TypeOK, Labels, Critical
  <2>4. CASE Get(p)
    BY <2>4 DEF Get, TypeOK, Labels, Critical
  <2>5. CASE Read(p)
    BY <2>5 DEF Read, TypeOK, Labels, Critical
  <2> QED BY <1>4, <2>1, <2>2, <2>3, <2>4, <2>5 DEF Reads
<1>5. CASE Ends(p)
  <2>1. CASE End(p)
    BY <2>1 DEF End, TypeOK, Labels, Critical
  <2>2. CASE Kill(p)
    BY <2>2 DEF Kill, TypeOK, Labels, Critical
  <2>3. CASE Interrupt(p)
    BY <2>3 DEF Interrupt, TypeOK, Labels, Critical
  <2>4. CASE ForceRemove(p)
    BY <2>4 DEF ForceRemove, TypeOK, Labels, Critical
  <2>5. CASE ForceUnlink(p)
    BY <2>5 DEF ForceUnlink, TypeOK, Labels, Critical
  <2>6. CASE Exit(p)
    BY <2>6 DEF Exit, TypeOK, Labels, Critical
  <2>7. CASE ExitUnlink(p)
    BY <2>7 DEF ExitUnlink, TypeOK, Labels, Critical
  <2> QED BY <1>5, <2>1, <2>2, <2>3, <2>4, <2>5, <2>6, <2>7 DEF Ends
<1> QED BY <1>1, <1>2, <1>3, <1>4, <1>5 DEF StepOf

\* Objects are made once, by the process whose name they have.
LEMMA MadeStays ==
  ASSUME TypeOK, Labels, Made, NEW p \in Procs, StepOf(p)
  PROVE  Made'
<1>1. CASE Constructs(p)
  <2>1. CASE Create(p)
    BY <2>1 DEF Create, TypeOK, Made
  <2>2. CASE Exists(p)
    BY <2>2 DEF Exists, Made
  <2>3. CASE Attach(p)
    BY <2>3 DEF Attach, TypeOK, Labels, Made
  <2>4. CASE AttachThrows(p)
    BY <2>4 DEF AttachThrows, Made
  <2>5. CASE Construct(p)
    BY <2>5, WritesItsSegment DEF Made
  <2>6. CASE Unlink(p)
    BY <2>6 DEF Unlink, Made
  <2>7. CASE OpenSem(p)
    BY <2>7 DEF OpenSem, TypeOK, Labels, Made
  <2> QED BY <1>1, <2>1, <2>2, <2>3, <2>4, <2>5, <2>6, <2>7 DEF Constructs
<1>2. CASE Cleans(p)
  <2>1. ASSUME NEW from \in {"poll", "get"}, CallClean(p, from) PROVE Made'
    BY <2>1 DEF CallClean, Made
  <2>2. CASE Clean(p)
    BY <2>2, WritesItsSegment DEF Made
  <2>3. CASE Cleaned(p)
    BY <2>3, WritesItsSegment DEF Made
  <2>4. CASE NotStale(p)
    BY <2>4 DEF NotStale, Checked, Made
  <2>5. CASE IsStale(p)
    BY <2>5 DEF IsStale, Made
  <2> QED BY <1>2, <2>1, <2>2, <2>3, <2>4, <2>5 DEF Cleans
<1>3. CASE Initializes(p)
  <2>1. CASE Enter(p)
    BY <2>1 DEF Enter, Made
  <2>2. CASE Check(p)
    BY <2>2 DEF Check, Made
  <2>3. CASE Input(p)
    BY <2>3 DEF Input, Made
  <2>4. CASE Reject(p)
    BY <2>4 DEF Reject, Made
  <2>5. CASE Rethrow(p)
    BY <2>5 DEF Rethrow, Made
  <2>6. CASE WriteConfig(p)
    BY <2>6, WritesItsSegment DEF Made
  <2>7. CASE Publish(p)
    BY <2>7, WritesItsSegment DEF Made
  <2>8. CASE Post(p)
    BY <2>8 DEF Post, Made
  <2> QED BY <1>3, <2>1, <2>2, <2>3, <2>4, <2>5, <2>6, <2>7, <2>8 DEF Initializes
<1>4. CASE Reads(p)
  <2>1. UNCHANGED <<handles, names, segment>>
    BY <1>4 DEF Reads, Poll, Status, Printed, Get, Read
  <2> QED BY <2>1 DEF Made
<1>5. CASE Ends(p)
  <2>1. CASE Kill(p)
    BY <2>1 DEF Kill, Made
  <2>2. CASE Interrupt(p)
    BY <2>2 DEF Interrupt, Made
  <2>3. CASE ForceRemove(p)
    BY <2>3 DEF ForceRemove, Made
  <2>4. CASE ForceUnlink(p)
    BY <2>4 DEF ForceUnlink, Made
  <2>5. CASE Exit(p)
    BY <2>5 DEF Exit, Made
  <2>6. CASE ExitUnlink(p)
    BY <2>6 DEF ExitUnlink, Made
  <2>7. CASE End(p)
    BY <2>7 DEF End, Made
  <2> QED BY <1>5, <2>1, <2>2, <2>3, <2>4, <2>5, <2>6, <2>7 DEF Ends
<1> QED BY <1>1, <1>2, <1>3, <1>4, <1>5 DEF StepOf

\* The pid of a segment changes only with a write of that process or a reset.
LEMMA AuthorStays ==
  ASSUME TypeOK, Labels, Author, NEW p \in Procs, StepOf(p)
  PROVE  Author'
<1>1. CASE Constructs(p)
  BY <1>1 DEF Constructs, Create, Exists, Attach, AttachThrows, Construct, Unlink,
      OpenSem, TypeOK, Author, Blank, BeforeWrite
<1>2. CASE Cleans(p)
  <2>1. ASSUME NEW from \in {"poll", "get"}, CallClean(p, from) PROVE Author'
    BY <2>1 DEF CallClean, TypeOK, Author, BeforeWrite
  <2>2. CASE Clean(p)
    BY <2>2 DEF Clean, Author, BeforeWrite
  <2>3. CASE Cleaned(p)
    BY <2>3 DEF Cleaned, Checked, TypeOK, Author
  <2>4. CASE NotStale(p)
    BY <2>4 DEF NotStale, Checked, Labels, Author, BeforeWrite
  <2>5. CASE IsStale(p)
    BY <2>5 DEF IsStale, Author, BeforeWrite
  <2> QED BY <1>2, <2>1, <2>2, <2>3, <2>4, <2>5 DEF Cleans
<1>3. CASE Initializes(p)
  <2>1. CASE Enter(p)
    BY <2>1 DEF Enter, Author, BeforeWrite
  <2>2. CASE Check(p)
    BY <2>2 DEF Check, Author, BeforeWrite
  <2>3. CASE Input(p)
    BY <2>3 DEF Input, Author, BeforeWrite
  <2>4. CASE Reject(p)
    BY <2>4 DEF Reject, Author, BeforeWrite
  <2>5. CASE Rethrow(p)
    BY <2>5 DEF Rethrow, Author, BeforeWrite
  <2>6. CASE WriteConfig(p)
    BY <2>6 DEF WriteConfig, TypeOK, Labels, Critical, Author, BeforeWrite
  <2>7. CASE Publish(p)
    BY <2>7 DEF Publish, Author, BeforeWrite
  <2>8. CASE Post(p)
    BY <2>8 DEF Post, Author, BeforeWrite
  <2> QED BY <1>3, <2>1, <2>2, <2>3, <2>4, <2>5, <2>6, <2>7, <2>8 DEF Initializes
<1>4. CASE Reads(p)
  BY <1>4 DEF Reads, Poll, Status, Printed, Get, Read, TypeOK, Author, BeforeWrite
<1>5. CASE Ends(p)
  BY <1>5 DEF Ends, End, Kill, Interrupt, ForceRemove, ForceUnlink, Exit, ExitUnlink,
      TypeOK, Labels, Author, BeforeWrite
<1> QED BY <1>1, <1>2, <1>3, <1>4, <1>5 DEF StepOf

\* Processes start one after the other, so nobody attaches to a segment before
\* its creator has opened the semaphore.
LEMMA OrderlyStays ==
  ASSUME TypeOK, Labels, Made, Orderly, NEW p \in Procs, StepOf(p)
  PROVE  Orderly'
<1>1. CASE Constructs(p)
  BY <1>1 DEF Constructs, Create, Exists, Attach, AttachThrows, Construct, Unlink,
      OpenSem, MayStart, TypeOK, Labels, Made, Orderly
<1>2. CASE Cleans(p)
  <2>1. ASSUME NEW from \in {"poll", "get"}, CallClean(p, from) PROVE Orderly'
    BY <2>1 DEF CallClean, Orderly
  <2>2. CASE Clean(p)
    BY <2>2 DEF Clean, Orderly
  <2>3. CASE Cleaned(p)
    BY <2>3 DEF Cleaned, Checked, Labels, Orderly
  <2>4. CASE NotStale(p)
    BY <2>4 DEF NotStale, Checked, Labels, Orderly
  <2>5. CASE IsStale(p)
    BY <2>5 DEF IsStale, Orderly
  <2> QED BY <1>2, <2>1, <2>2, <2>3, <2>4, <2>5 DEF Cleans
<1>3. CASE Initializes(p)
  <2>1. CASE Enter(p)
    BY <2>1 DEF Enter, Orderly
  <2>2. CASE Check(p)
    BY <2>2 DEF Check, Orderly
  <2>3. CASE Input(p)
    BY <2>3 DEF Input, Orderly
  <2>4. CASE Reject(p)
    BY <2>4 DEF Reject, Orderly
  <2>5. CASE Rethrow(p)
    BY <2>5 DEF Rethrow, Orderly
  <2>6. CASE WriteConfig(p)
    BY <2>6 DEF WriteConfig, Orderly
  <2>7. CASE Publish(p)
    BY <2>7 DEF Publish, Orderly
  <2>8. CASE Post(p)
    BY <2>8 DEF Post, Orderly
  <2> QED BY <1>3, <2>1, <2>2, <2>3, <2>4, <2>5, <2>6, <2>7, <2>8 DEF Initializes
<1>4. CASE Reads(p)
  BY <1>4 DEF Reads, Poll, Status, Printed, Get, Read, TypeOK, Orderly
<1>5. CASE Ends(p)
  <2>1. CASE End(p)
    BY <2>1 DEF End, TypeOK, Labels, Orderly
  <2>2. CASE Kill(p)
    BY <2>2 DEF Kill, TypeOK, Labels, Orderly
  <2>3. CASE Interrupt(p)
    BY <2>3 DEF Interrupt, TypeOK, Labels, Orderly
  <2>4. CASE ForceRemove(p)
    BY <2>4 DEF ForceRemove, TypeOK, Labels, Orderly
  <2>5. CASE ForceUnlink(p)
    BY <2>5 DEF ForceUnlink, TypeOK, Labels, Orderly
  <2>6. CASE Exit(p)
    BY <2>6 DEF Exit, TypeOK, Labels, Orderly
  <2>7. CASE ExitUnlink(p)
    BY <2>7 DEF ExitUnlink, TypeOK, Labels, Orderly
  <2> QED BY <1>5, <2>1, <2>2, <2>3, <2>4, <2>5, <2>6, <2>7 DEF Ends
<1> QED BY <1>1, <1>2, <1>3, <1>4, <1>5 DEF StepOf

\* Without handlers only a creator's unlink, when nobody else uses its segment,
\* and its destructor, which removes the segment too, take the name away.
LEMMA NamedStays ==
  ASSUME TypeOK, Labels, Made, Orderly, Named, NEW p \in Procs, StepOf(p)
  PROVE  Named'
<1>1. CASE Constructs(p)
  <2>1. CASE Create(p)
    BY <2>1 DEF Create, MayStart, TypeOK, Labels, Made, Named, Alive
  <2>2. CASE Exists(p)
    BY <2>2 DEF Exists, Labels, Named, Alive
  <2>3. CASE Attach(p)
    BY <2>3 DEF Attach, Labels, Named, Alive
  <2>4. CASE AttachThrows(p)
    BY <2>4 DEF AttachThrows, Named, Alive
  <2>5. CASE Construct(p)
    BY <2>5 DEF Construct, Named, Alive
  <2>6. CASE Unlink(p)
    BY <2>6 DEF Unlink, Labels, Orderly, Named, Alive
  <2>7. CASE OpenSem(p)
    BY <2>7 DEF OpenSem, Named, Alive
  <2> QED BY <1>1, <2>1, <2>2, <2>3, <2>4, <2>5, <2>6, <2>7 DEF Constructs
<1>2. CASE Cleans(p)
  <2>1. ASSUME NEW from \in {"poll", "get"}, CallClean(p, from) PROVE Named'
    BY <2>1 DEF CallClean, TypeOK, Labels, Named, Alive
  <2>2. CASE NotStale(p)
    BY <2>2 DEF NotStale, Checked, TypeOK, Labels, Named, Alive
  <2>3. CASE IsStale(p)
    BY <2>3 DEF IsStale, TypeOK, Labels, Named, Alive
  <2>4. CASE Clean(p)
    BY <2>4 DEF Clean, TypeOK, Labels, Named, Alive
  <2>5. CASE Cleaned(p)
    BY <2>5 DEF Cleaned, Checked, TypeOK, Labels, Named, Alive
  <2> QED BY <1>2, <2>1, <2>2, <2>3, <2>4, <2>5 DEF Cleans
<1>3. CASE Initializes(p)
  BY <1>3 DEF Initializes, Enter, Check, Input, Reject, Rethrow, WriteConfig,
      Publish, Post, TypeOK, Named, Alive
<1>4. CASE Reads(p)
  BY <1>4 DEF Reads, Poll, Status, Printed, Get, Read, TypeOK, Named, Alive
<1>5. CASE Ends(p)
  <2>1. CASE Kill(p)
    BY <2>1 DEF Kill, Named, Alive
  <2>2. CASE Interrupt(p)
    BY <2>2 DEF Interrupt, Named
  <2>3. CASE ForceRemove(p)
    BY <2>3 DEF ForceRemove, Labels, Named
  <2>4. CASE ForceUnlink(p)
    BY <2>4 DEF ForceUnlink, Labels, Named
  <2>5. CASE Exit(p)
    BY <2>5 DEF Exit, TypeOK, Named, Alive
  <2>6. CASE ExitUnlink(p)
    BY <2>6 DEF ExitUnlink, TypeOK, Named, Alive
  <2>7. CASE End(p)
    BY <2>7 DEF End, TypeOK, Named, Alive
  <2> QED BY <1>5, <2>1, <2>2, <2>3, <2>4, <2>5, <2>6, <2>7 DEF Ends
<1> QED BY <1>1, <1>2, <1>3, <1>4, <1>5 DEF StepOf

\* Without handlers and invalid input a semaphore is posted by its holder only.
LEMMA OneHolderStays ==
  ASSUME TypeOK, Labels, Made, OneHolder, NEW p \in Procs, StepOf(p)
  PROVE  OneHolder'
<1>1. CASE Constructs(p)
  <2>1. CASE Create(p)
    BY <2>1 DEF Create, OneHolder, Critical, Holds
  <2>2. CASE Exists(p)
    BY <2>2 DEF Exists, OneHolder, Critical, Holds
  <2>3. CASE Attach(p)
    BY <2>3 DEF Attach, OneHolder, Critical, Holds
  <2>4. CASE AttachThrows(p)
    BY <2>4 DEF AttachThrows, OneHolder, Critical, Holds
  <2>5. CASE Construct(p)
    BY <2>5 DEF Construct, OneHolder, Critical, Holds
  <2>6. CASE Unlink(p)
    BY <2>6 DEF Unlink, OneHolder, Critical, Holds
  <2>7. CASE OpenSem(p)
    BY <2>7 DEF OpenSem, Labels, Made, OneHolder, Critical, Holds
  <2> QED BY <1>1, <2>1, <2>2, <2>3, <2>4, <2>5, <2>6, <2>7 DEF Constructs
<1>2. CASE Cleans(p)
  <2>1. ASSUME NEW from \in {"poll", "get"}, CallClean(p, from) PROVE OneHolder'
    BY <2>1 DEF CallClean, TypeOK, OneHolder, Critical, Holds
  <2>2. CASE Clean(p)
    BY <2>2 DEF Clean, OneHolder, Critical, Holds
  <2>3. CASE Cleaned(p)
    BY <2>3 DEF Cleaned, Checked, Labels, OneHolder, Critical, Holds
  <2>4. CASE NotStale(p)
    BY <2>4 DEF NotStale, Checked, Labels, OneHolder, Critical, Holds
  <2>5. CASE IsStale(p)
    BY <2>5 DEF IsStale, OneHolder, Critical, Holds
  <2> QED BY <1>2, <2>1, <2>2, <2>3, <2>4, <2>5 DEF Cleans
<1>3. CASE Initializes(p)
  <2>1. CASE Enter(p)
    BY <2>1 DEF Enter, TypeOK, OneHolder, Critical, Holds
  <2>2. CASE Check(p)
    BY <2>2 DEF Check, OneHolder, Critical, Holds
  <2>3. CASE Input(p)
    BY <2>3 DEF Input, OneHolder, Critical, Holds
  <2>4. CASE Reject(p)
    BY <2>4 DEF Reject, OneHolder
  <2>5. CASE Rethrow(p)
    BY <2>5 DEF Rethrow, Labels, OneHolder
  <2>6. CASE WriteConfig(p)
    BY <2>6 DEF WriteConfig, OneHolder, Critical, Holds
  <2>7. CASE Publish(p)
    BY <2>7 DEF Publish, OneHolder, Critical, Holds
  <2>8. CASE Post(p)
    BY <2>8 DEF Post, TypeOK, OneHolder, Critical, Holds
  <2> QED BY <1>3, <2>1, <2>2, <2>3, <2>4, <2>5, <2>6, <2>7, <2>8 DEF Initializes
<1>4. CASE Reads(p)
  <2>1. CASE Poll(p)
    BY <2>1 DEF Poll, OneHolder, Critical, Holds
  <2>2. CASE Status(p)
    BY <2>2 DEF Status, TypeOK, OneHolder, Critical, Holds
  <2>3. CASE Printed(p)
    BY <2>3 DEF Printed, TypeOK, OneHolder, Critical, Holds
  <2>4. CASE Get(p)
    BY <2>4 DEF Get, OneHolder, Critical, Holds
  <2>5. CASE Read(p)
    BY <2>5 DEF Read, OneHolder, Critical, Holds
  <2> QED BY <1>4, <2>1, <2>2, <2>3, <2>4, <2>5 DEF Reads
<1>5. CASE Ends(p)
  <2>1. CASE End(p)
    BY <2>1 DEF End, TypeOK, Labels, Made, OneHolder, Critical, Holds
  <2>2. CASE Kill(p)
    BY <2>2 DEF Kill, TypeOK, Labels, Made, OneHolder, Critical, Holds
  <2>3. CASE Interrupt(p)
    BY <2>3 DEF Interrupt, TypeOK, Labels, Made, OneHolder, Critical, Holds
  <2>4. CASE ForceRemove(p)
    BY <2>4 DEF ForceRemove, TypeOK, Labels, Made, OneHolder, Critical, Holds
  <2>5. CASE ForceUnlink(p)
    BY <2>5 DEF ForceUnlink, TypeOK, Labels, Made, OneHolder, Critical, Holds
  <2>6. CASE Exit(p)
    BY <2>6 DEF Exit, TypeOK, Labels, Made, OneHolder, Critical, Holds
  <2>7. CASE ExitUnlink(p)
    BY <2>7 DEF ExitUnlink, TypeOK, Labels, Made, OneHolder, Critical, Holds
  <2> QED BY <1>5, <2>1, <2>2, <2>3, <2>4, <2>5, <2>6, <2>7 DEF Ends
<1> QED BY <1>1, <1>2, <1>3, <1>4, <1>5 DEF StepOf

\* While only clients end, only the process inside writes, and only once.
LEMMA CalmStays ==
  ASSUME TypeOK, Labels, Made, Author, Orderly, Named, OneHolder, Calm, NEW p \in Procs, StepOf(p)
  PROVE  Calm'
<1>1. CASE Constructs(p)
  <2>1. CASE Create(p)
    BY <2>1 DEF Create, TypeOK, Labels, Made, Calm, Data, Blank, Informed
  <2>2. CASE Exists(p)
    BY <2>2 DEF Exists, Calm, Data, Informed
  <2>3. CASE Attach(p)
    BY <2>3 DEF Attach, Calm, Data, Informed
  <2>4. CASE AttachThrows(p)
    BY <2>4 DEF AttachThrows, TypeOK, Labels, Calm, Data, Informed
  <2>5. CASE Construct(p)
    BY <2>5 DEF Construct, Orderly, Calm, Blank, Data, Informed
  <2>6. CASE Unlink(p)
    BY <2>6 DEF Unlink, Calm, Data, Informed
  <2>7. CASE OpenSem(p)
    BY <2>7 DEF OpenSem, Calm, Data, Informed
  <2> QED BY <1>1, <2>1, <2>2, <2>3, <2>4, <2>5, <2>6, <2>7 DEF Constructs
<1>2. CASE Cleans(p)
  <2>1. ASSUME NEW from \in {"poll", "get"}, CallClean(p, from) PROVE Calm'
    BY <2>1 DEF CallClean, TypeOK, Labels, Author, Calm, Data, Alive, StaleConfig
  <2>2. CASE Clean(p)
    BY <2>2 DEF Clean, Calm
  <2>3. CASE Cleaned(p)
    BY <2>3 DEF Cleaned, Checked, Calm
  <2>4. CASE NotStale(p)
    BY <2>4 DEF NotStale, Checked, TypeOK, Labels, Calm, Data, Informed
  <2>5. CASE IsStale(p)
    BY <2>5 DEF IsStale, TypeOK, Labels, Author, Calm, Data, Alive, StaleConfig, BeforeWrite
  <2> QED BY <1>2, <2>1, <2>2, <2>3, <2>4, <2>5 DEF Cleans
<1>3. CASE Initializes(p)
  <2>1. CASE Enter(p)
    BY <2>1 DEF Enter, TypeOK, Calm, Data, Informed
  <2>2. CASE Check(p)
    BY <2>2 DEF Check, TypeOK, Labels, Author, Calm, Data, Alive, Informed
  <2>3. CASE Input(p)
    BY <2>3 DEF Input, Author, Calm, Data, Informed
  <2>4. CASE Reject(p)
    BY <2>4 DEF Reject, Calm
  <2>5. CASE Rethrow(p)
    BY <2>5 DEF Rethrow, Labels, Calm
  <2>6. CASE WriteConfig(p)
    <3> SUFFICES ASSUME env \subseteq {"end"} PROVE Calm'
      BY <2>6 DEF WriteConfig, Calm
    <3>1. pc[p] = "write" /\ at[p] \in Procs /\ ~Data(p).initialized
      BY <2>6 DEF WriteConfig, Calm, Labels, TypeOK
    <3>2. \A q \in Procs : at[q] = at[p] /\ pc[q] \in {"input", "write", "publish"} => q = p
      BY <3>1, AloneInside DEF Critical
    <3>3. /\ pc' = [pc EXCEPT ![p] = "publish"]
          /\ UNCHANGED <<env, back, key, at, sem, option, result>>
          /\ \A s \in Procs : s # at[p] => segment'[s] = segment[s]
          /\ segment'[at[p]].initialized = segment[at[p]].initialized
          /\ segment'[at[p]].pid = p /\ segment'[at[p]].format = option[p]
      BY <2>6, <3>1 DEF WriteConfig, TypeOK, Data
    <3>4. \A q \in Procs : at[q] = at[p] => ~Informed(q) /\ pc[q] # "serving"
      BY <3>1 DEF Calm, Informed, Data
    <3>5. pc' \in [Procs -> Places] /\ \A q \in Procs : pc[q] # "off" /\ at[q] # None =>
        at[q] \in Procs
      BY <3>3 DEF TypeOK
    <3> QED BY <3>1, <3>2, <3>3, <3>4, <3>5 DEF Calm, Informed, Data, Labels
  <2>7. CASE Publish(p)
    <3> SUFFICES ASSUME env \subseteq {"end"} PROVE Calm'
      BY <2>7 DEF Publish, Calm
    <3>1. /\ pc[p] = "publish" /\ at[p] \in Procs /\ ~Data(p).initialized
          /\ Data(p).pid = p /\ Data(p).format = option[p]
      BY <2>7 DEF Publish, Calm, Labels, TypeOK
    <3>2. \A q \in Procs : at[q] = at[p] /\ pc[q] \in {"input", "write", "publish"} => q = p
      BY <3>1, AloneInside DEF Critical
    <3>3. /\ pc' = [pc EXCEPT ![p] = "post"]
          /\ UNCHANGED <<env, back, key, at, sem, option, result>>
          /\ \A s \in Procs : s # at[p] => segment'[s] = segment[s]
          /\ segment'[at[p]].initialized
          /\ segment'[at[p]].pid = p /\ segment'[at[p]].format = option[p]
      BY <2>7, <3>1 DEF Publish, TypeOK, Data
    <3>4. \A q \in Procs : at[q] = at[p] => ~Informed(q) /\ pc[q] # "serving"
      BY <3>1 DEF Calm, Informed, Data
    <3>5. pc' \in [Procs -> Places] /\ \A q \in Procs : pc[q] # "off" /\ at[q] # None =>
        at[q] \in Procs
      BY <3>3 DEF TypeOK
    <3> QED BY <3>1, <3>2, <3>3, <3>4, <3>5 DEF Calm, Informed, Data, Labels
  <2>8. CASE Post(p)
    BY <2>8 DEF Post, Calm, Data, Informed
  <2> QED BY <1>3, <2>1, <2>2, <2>3, <2>4, <2>5, <2>6, <2>7, <2>8 DEF Initializes
<1>4. CASE Reads(p)
  BY <1>4 DEF Reads, Poll, Status, Printed, Get, Read, TypeOK, Calm, Data, Informed
<1>5. CASE Ends(p)
  <2>1. CASE End(p)
    BY <2>1 DEF End, TypeOK, Labels, Calm, Informed, Data
  <2>2. CASE Kill(p)
    BY <2>2 DEF Kill, TypeOK, Labels, Calm, Informed, Data
  <2>3. CASE Interrupt(p)
    BY <2>3 DEF Interrupt, TypeOK, Labels, Calm, Informed, Data
  <2>4. CASE ForceRemove(p)
    BY <2>4 DEF ForceRemove, TypeOK, Labels, Calm, Informed, Data
  <2>5. CASE ForceUnlink(p)
    BY <2>5 DEF ForceUnlink, TypeOK, Labels, Calm, Informed, Data
  <2>6. CASE Exit(p)
    BY <2>6 DEF Exit, TypeOK, Labels, Calm, Informed, Data
  <2>7. CASE ExitUnlink(p)
    BY <2>7 DEF ExitUnlink, TypeOK, Labels, Calm, Informed, Data
  <2> QED BY <1>5, <2>1, <2>2, <2>3, <2>4, <2>5, <2>6, <2>7 DEF Ends
<1> QED BY <1>1, <1>2, <1>3, <1>4, <1>5 DEF StepOf

\* A process that ends has taken the key away from the segment it wrote.
LEMMA SignalledStays ==
  ASSUME TypeOK, Labels, Made, Author, Orderly, Signalled, NEW p \in Procs, StepOf(p)
  PROVE  Signalled'
<1>1. CASE Constructs(p)
  <2>1. CASE Create(p)
    BY <2>1 DEF Create, Labels, Made, Signalled, Blank, Informed
  <2>2. CASE Exists(p)
    BY <2>2 DEF Exists, Signalled, Informed
  <2>3. CASE Attach(p)
    BY <2>3 DEF Attach, Signalled, Informed
  <2>4. CASE AttachThrows(p)
    BY <2>4 DEF AttachThrows, Signalled
  <2>5. CASE Construct(p)
    BY <2>5 DEF Construct, Made, Orderly, Signalled, Blank, Informed
  <2>6. CASE Unlink(p)
    BY <2>6 DEF Unlink, Signalled, Informed
  <2>7. CASE OpenSem(p)
    BY <2>7 DEF OpenSem, Signalled, Informed
  <2> QED BY <1>1, <2>1, <2>2, <2>3, <2>4, <2>5, <2>6, <2>7 DEF Constructs
<1>2. CASE Cleans(p)
  BY <1>2 DEF Cleans, CallClean, NotStale, IsStale, Checked, Clean, Cleaned,
      TypeOK, Author, Signalled, Data, Alive, StaleConfig, Informed
<1>3. CASE Initializes(p)
  <2>1. CASE Enter(p)
    BY <2>1 DEF Enter, TypeOK, Signalled, Informed
  <2>2. CASE Check(p)
    BY <2>2 DEF Check, Signalled, Data, Informed
  <2>3. CASE Input(p)
    BY <2>3 DEF Input, Signalled, Informed
  <2>4. CASE Reject(p)
    BY <2>4 DEF Reject, Signalled, Informed
  <2>5. CASE Rethrow(p)
    BY <2>5 DEF Rethrow, TypeOK, Author, Signalled, Informed, BeforeWrite
  <2>6. CASE WriteConfig(p)
    BY <2>6 DEF WriteConfig, TypeOK, Signalled, Informed
  <2>7. CASE Publish(p)
    BY <2>7 DEF Publish, TypeOK, Signalled, Informed
  <2>8. CASE Post(p)
    BY <2>8 DEF Post, Signalled, Informed
  <2> QED BY <1>3, <2>1, <2>2, <2>3, <2>4, <2>5, <2>6, <2>7, <2>8 DEF Initializes
<1>4. CASE Reads(p)
  BY <1>4 DEF Reads, Poll, Status, Printed, Get, Read, TypeOK, Author, Signalled, Data,
      Informed
<1>5. CASE Ends(p)
  <2>1. CASE Kill(p)
    BY <2>1 DEF Kill, Signalled
  <2>2. CASE Interrupt(p)
    BY <2>2 DEF Interrupt, TypeOK, Labels, Signalled, Informed
  <2>3. CASE ForceRemove(p)
    BY <2>3 DEF ForceRemove, Signalled
  <2>4. CASE ForceUnlink(p)
    BY <2>4 DEF ForceUnlink, Labels, Signalled, Informed
  <2>5. CASE Exit(p)
    BY <2>5 DEF Exit, Signalled, Informed
  <2>6. CASE ExitUnlink(p)
    BY <2>6 DEF ExitUnlink, Signalled, Informed
  <2>7. CASE End(p)
    BY <2>7 DEF End, TypeOK, Author, Signalled, Informed
  <2> QED BY <1>5, <2>1, <2>2, <2>3, <2>4, <2>5, <2>6, <2>7 DEF Ends
<1> QED BY <1>1, <1>2, <1>3, <1>4, <1>5 DEF StepOf

\* A process lets a semaphore go only with a post, or in the handler, which
\* unlinks it.
LEMMA PostedStays ==
  ASSUME TypeOK, Labels, Made, Posted, NEW p \in Procs, StepOf(p)
  PROVE  Posted'
<1>1. CASE Constructs(p)
  <2>1. CASE Create(p)
    BY <2>1 DEF Create, Posted, Critical, Holds
  <2>2. CASE Exists(p)
    BY <2>2 DEF Exists, Posted, Critical, Holds
  <2>3. CASE Attach(p)
    BY <2>3 DEF Attach, Posted, Critical, Holds
  <2>4. CASE AttachThrows(p)
    BY <2>4 DEF AttachThrows, Posted, Critical, Holds
  <2>5. CASE Construct(p)
    BY <2>5 DEF Construct, Posted, Critical, Holds
  <2>6. CASE Unlink(p)
    BY <2>6 DEF Unlink, Posted, Critical, Holds
  <2>7. CASE OpenSem(p)
    BY <2>7 DEF OpenSem, TypeOK, Made, Posted, Critical, Holds
  <2> QED BY <1>1, <2>1, <2>2, <2>3, <2>4, <2>5, <2>6, <2>7 DEF Constructs
<1>2. CASE Cleans(p)
  <2>1. ASSUME NEW from \in {"poll", "get"}, CallClean(p, from) PROVE Posted'
    BY <2>1 DEF CallClean, TypeOK, Posted, Critical, Holds
  <2>2. CASE Clean(p)
    BY <2>2 DEF Clean, Labels, Posted, Critical, Holds
  <2>3. CASE Cleaned(p)
    BY <2>3 DEF Cleaned, Checked, TypeOK, Labels, Posted, Critical, Holds
  <2>4. CASE NotStale(p)
    BY <2>4 DEF NotStale, Checked, TypeOK, Labels, Posted, Critical, Holds
  <2>5. CASE IsStale(p)
    BY <2>5 DEF IsStale, Posted, Critical, Holds
  <2> QED BY <1>2, <2>1, <2>2, <2>3, <2>4, <2>5 DEF Cleans
<1>3. CASE Initializes(p)
  <2>1. CASE Enter(p)
    BY <2>1 DEF Enter, TypeOK, Posted, Critical, Holds
  <2>2. CASE Check(p)
    BY <2>2 DEF Check, Posted, Critical, Holds
  <2>3. CASE Input(p)
    BY <2>3 DEF Input, Posted, Critical, Holds
  <2>4. CASE Reject(p)
    BY <2>4 DEF Reject, TypeOK, Posted, Critical, Holds
  <2>5. CASE Rethrow(p)
    BY <2>5 DEF Rethrow, TypeOK, Posted, Critical, Holds
  <2>6. CASE WriteConfig(p)
    BY <2>6 DEF WriteConfig, Posted, Critical, Holds
  <2>7. CASE Publish(p)
    BY <2>7 DEF Publish, Posted, Critical, Holds
  <2>8. CASE Post(p)
    BY <2>8 DEF Post, TypeOK, Posted, Critical, Holds
  <2> QED BY <1>3, <2>1, <2>2, <2>3, <2>4, <2>5, <2>6, <2>7, <2>8 DEF Initializes
<1>4. CASE Reads(p)
  BY <1>4 DEF Reads, Poll, Status, Printed, Get, Read, TypeOK, Posted, Critical, Holds
<1>5. CASE Ends(p)
  <2>1. CASE Kill(p)
    BY <2>1 DEF Kill, Posted
  <2>2. CASE Interrupt(p)
    BY <2>2 DEF Interrupt, TypeOK, Posted, Critical, Holds
  <2>3. CASE ForceRemove(p)
    BY <2>3 DEF ForceRemove, Posted, Critical, Holds
  <2>4. CASE ForceUnlink(p)
    BY <2>4 DEF ForceUnlink, Labels, Posted
  <2>5. CASE Exit(p)
    BY <2>5 DEF Exit, Made, Posted, Critical, Holds
  <2>6. CASE ExitUnlink(p)
    BY <2>6 DEF ExitUnlink, Made, Posted, Critical, Holds
  <2>7. CASE End(p)
    BY <2>7 DEF End, Made, Posted, Critical, Holds
  <2> QED BY <1>5, <2>1, <2>2, <2>3, <2>4, <2>5, <2>6, <2>7 DEF Ends
<1> QED BY <1>1, <1>2, <1>3, <1>4, <1>5 DEF StepOf
-----------------------------------------------------------------------------
(* The theorems *)

\* It holds when no process has started.
LEMMA InitInv == Init => IInv
<1> SUFFICES ASSUME Init PROVE IInv
  OBVIOUS
<1>1. TypeOK
  BY DEF Init, TypeOK, Blank
<1>2. Labels /\ Made /\ Author /\ Orderly
  BY <1>1 DEF Init, Labels, Made, Author, Orderly, Blank, Critical
<1>3. Named /\ OneHolder
  BY <1>1 DEF Init, Named, OneHolder, Alive, Holds, Critical
<1>4. Calm /\ Signalled /\ Posted
  BY <1>1 DEF Init, Calm, Signalled, Posted, Blank, Informed
<1> QED BY <1>1, <1>2, <1>3, <1>4 DEF IInv

\* Every step keeps it.
LEMMA InvStep == IInv /\ [Next]_vars => IInv'
<1> SUFFICES ASSUME IInv, [Next]_vars PROVE IInv'
  OBVIOUS
<1>1. CASE Next
  <2>1. PICK p \in Procs : StepOf(p)
    BY <1>1, StepIsOfGroup
  <2>2. TypeOK' /\ Labels' /\ Made' /\ Author' /\ Orderly'
    BY <2>1, TypeOKStays, LabelsStays, MadeStays, AuthorStays, OrderlyStays DEF IInv
  <2>3. Named' /\ OneHolder' /\ Calm'
    BY <2>1, NamedStays, OneHolderStays, CalmStays DEF IInv
  <2>4. Signalled' /\ Posted'
    BY <2>1, SignalledStays, PostedStays DEF IInv
  <2> QED BY <2>2, <2>3, <2>4 DEF IInv
<1>2. CASE UNCHANGED vars
  <2>1. TypeOK' /\ Labels' /\ Made' /\ Author' /\ Orderly'
    BY <1>2 DEF vars, IInv, TypeOK, Labels, Made, Author, Orderly, Critical
  <2>2. Named' /\ OneHolder' /\ Calm'
    BY <1>2 DEF vars, IInv, Named, OneHolder, Calm, Alive, Holds, Critical, Informed, Data
  <2>3. Signalled' /\ Posted'
    BY <1>2 DEF vars, IInv, Signalled, Posted, Holds, Critical, Informed
  <2> QED BY <2>1, <2>2, <2>3 DEF IInv
<1> QED BY <1>1, <1>2

\* The invariant behind the theorems below.
THEOREM Invariance == Spec => []IInv
BY InitInv, InvStep, PTL DEF Spec

\* Handles, names, labels and the shared configuration have their types.
THEOREM TypeCorrect == Spec => []TypeOK
<1>1. IInv => TypeOK
  BY DEF IInv
<1> QED BY <1>1, Invariance, PTL

\* However many processes start, end and are killed, while none starts inside the
\* constructor or the destructor of another, one at a time is in
\* initFromUserInput for the segment that SHM_KEY finds: who uses it has the
\* semaphore SEM_NAME finds, and that is a lock.
THEOREM InitIsLocked == Spec => []LockedInit
<1>1. IInv => LockedInit
  <2> SUFFICES ASSUME IInv, env \subseteq {"kill", "end"}, key # None,
                      NEW p \in Procs, NEW q \in Procs,
                      Critical(p), Critical(q), at[p] = key, at[q] = key
               PROVE  p = q
    BY DEF LockedInit, MutualExclusion
  <2>1. sem[p] \in Procs /\ sem[q] \in Procs
    BY DEF IInv, TypeOK, Labels, Critical
  <2>2. sem[p] = sem[q]
    BY <2>1 DEF IInv, Named
  <2> QED BY <2>1, <2>2 DEF IInv, OneHolder, Holds
<1> QED BY <1>1, Invariance, PTL

\* Under these conditions and without kills, processes that have read the format
\* have read what the user of the live initializer chose.
THEOREM FormatsAgree == Spec => []Agreement
<1>1. IInv => Agreement
  <2> SUFFICES ASSUME IInv, env \subseteq {"end"}, NEW p \in Procs, pc[p] = "serving"
               PROVE  /\ Data(p).initialized /\ Alive(Data(p).pid)
                      /\ result[p] = option[Data(p).pid]
    BY DEF Agreement
  <2>1. /\ at[p] \in Procs /\ Data(p).initialized /\ result[p] = Data(p).format
    BY DEF IInv, TypeOK, Labels, Calm, Informed
  <2>2. /\ Data(p).pid \in Procs /\ Data(p).format = option[Data(p).pid]
    BY <2>1 DEF IInv, TypeOK, Calm, Data
  <2>3. pc[Data(p).pid] \notin Ended
    BY <2>1, <2>2 DEF IInv, TypeOK, Calm, Author, Data, BeforeWrite
  <2> QED BY <2>1, <2>2, <2>3 DEF Alive
<1> QED BY <1>1, Invariance, PTL

\* When processes end by a signal, by invalid input or by themselves, the
\* configuration that the next one finds is a live process's, and the semaphore
\* is free or used.
THEOREM NothingStale == Spec => []NothingStaleIsNamed
<1>1. IInv => NothingStaleIsNamed
  <2> SUFFICES ASSUME IInv, env \subseteq {"interrupt", "invalid", "end", "gap"}
               PROVE  /\ key # None /\ segment[key].initialized => Alive(segment[key].pid)
                      /\ name # None => \/ value[name] > 0
                                        \/ \E p \in Procs : Alive(p) /\ sem[p] = name
    BY DEF NothingStaleIsNamed
  <2>1. key # None /\ segment[key].initialized => Alive(segment[key].pid)
    BY DEF IInv, Signalled, Alive
  <2>2. ASSUME name # None, value[name] = 0 PROVE \E p \in Procs : Alive(p) /\ sem[p] = name
    <3>1. name \in Procs /\ sem[name] = name
      BY <2>2 DEF IInv, Made, TypeOK
    <3>2. PICK q \in Procs : sem[q] = name /\ (Holds(q) \/ pc[q] \in InHandler)
      BY <2>2, <3>1 DEF IInv, Posted
    <3> QED BY <3>1, <3>2 DEF Alive, Holds, Critical
  <2>3. name # None => value[name] \in Nat
    BY DEF IInv, TypeOK
  <2> QED BY <2>1, <2>2, <2>3
<1> QED BY <1>1, Invariance, PTL

\* Without signals, however processes start and end, a semaphore at 0 is held by
\* a process that will post it: every return and every exception of initFromUserInput has posted.
THEOREM TakenSemaphoresAreHeld == Spec => []TakenIsHeld
<1>1. IInv => TakenIsHeld
  <2> SUFFICES ASSUME IInv, env \subseteq {"invalid", "end", "gap", "together"},
                      NEW p \in Procs, sem[p] # None, value[sem[p]] = 0
               PROVE  \E q \in Procs : sem[q] = sem[p] /\ (Critical(q) \/ pc[q] = "print")
    BY DEF TakenIsHeld
  <2>1. sem[p] \in Procs /\ sem[sem[p]] = sem[p]
    BY DEF IInv, Made, TypeOK
  <2>2. \E q \in Procs : sem[q] = sem[p] /\ (Holds(q) \/ pc[q] \in InHandler)
    BY <2>1 DEF IInv, Posted
  <2>3. \A q \in Procs : pc[q] \notin InHandler
    BY DEF IInv, Labels
  <2> QED BY <2>2, <2>3 DEF Holds
<1> QED BY <1>1, Invariance, PTL
=============================================================================

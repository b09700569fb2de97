------------------------- MODULE SavePrompt_proofs -------------------------
(***************************************************************************)
(* Proofs about SavePrompt for every value of its constants: the types,    *)
(* then what locks leave behind, which submissions are kept, which logins  *)
(* a save may change, and which submission the banner is about.            *)
(***************************************************************************)
EXTENDS SavePrompt, FiniteSetTheorems, TLAPS

(***************************************************************************)
(* Shapes of the records                                                   *)
(***************************************************************************)
Maybe(S) == S \cup {None}
Got == Maybe(PendRecord \cup Name \cup Sub)
CheckPC == {"queued", "pend", "user", "list", "decide", "recheck", "clearUser", "clearPend"}
SavePC == {"queued", "list", "pend", "user", "decide", "write", "clearUser", "clearPend"}
Verdict == [act : {"update", "unchanged", "missing", "ambiguous", "create"},
            entry : Maybe(Name), foreign : BOOLEAN]
TaskRecord ==
    [kind : {"idle", "check", "save"}, pc : {"idle"} \cup CheckPC \cup SavePC, waits : BOOLEAN,
     got : Got, behind : Nat, heard : BOOLEAN, url : Maybe(Url), manual : BOOLEAN,
     sub : Maybe(Sub), attempt : 0 .. 2, pending : Maybe(PendRecord), name : Maybe(Name),
     entry : Maybe(Name), existing : SUBSET Name, verdict : Maybe(Verdict)]
MsgRecord ==
    [kind : {"creds", "mark", "clear", "user", "clearUser"}, gen : Session, sub : Maybe(Sub),
     name : Maybe(Name), heard : BOOLEAN, pc : {"new", "name", "store"}, waits : BOOLEAN,
     got : Got]
PageRecord ==
    [url : Url, latest : Maybe(Sub), storing : BOOLEAN, armed : Maybe(Sub), timer : Maybe(Sub),
     listening : Maybe(Task), retry : Maybe(Retry), banner : Maybe(Banner),
     status : Maybe(Status)]
Writing == [pend : Maybe(PendRecord), user : Maybe(UserRecord), got : Got]

\* What a task has at each of its labels.
TaskOK(k) ==
    /\ k.kind = "idle" <=> k.pc = "idle"
    /\ k.kind = "check" => k.pc \in CheckPC
    /\ k.kind = "save" => k.pc \in SavePC /\ k.sub \in Sub
    /\ k.waits => k.pc \in {"pend", "recheck", "user", "clearUser", "clearPend"}
    /\ ~k.waits /\ k.pc \in {"pend", "recheck"} => k.got \in Maybe(PendRecord)
    /\ ~k.waits /\ k.pc = "user" => k.got \in Maybe(Name)
    /\ k.kind = "check" /\ k.pc \in {"user", "list", "decide", "recheck"} => k.pending \in PendRecord
    /\ k.pc \in {"clearUser", "clearPend"} => k.sub \in Sub
    /\ k.pc = "recheck" => k.verdict \in Verdict
    /\ k.pc = "recheck" /\ k.verdict.act = "update" => k.verdict.entry \in Name
    /\ k.pc = "write" => k.verdict \in Verdict /\ k.verdict.act \in {"update", "create"}
    /\ k.pc = "write" /\ k.verdict.act = "update" => k.verdict.entry \in Name
    /\ k.pc = "write" /\ k.verdict.act = "create" => k.name \in Name

\* What a message has before and while it is handled.
MsgOK(m) ==
    /\ m.kind \in {"creds", "mark", "clear"} => m.sub \in Sub
    /\ m.kind = "user" => m.name \in Name
    /\ m.pc = "name" => m.kind = "creds"
    /\ m.pc = "name" /\ ~m.waits => m.got \in Maybe(Name)
    /\ m.waits => m.pc # "new"

\* What an operation stores, and what it was asked for.
OpOK(op) ==
    /\ op.kind \in {"setPend", "mark", "clearPend"} => op.sub \in Sub
    /\ op.kind = "setUser" => op.name \in Name
    /\ op.by \in {"lock", "late"} => op.kind = "clearAll"

\* The operation that a label awaits.
Awaits(pc) ==
    CASE pc \in {"pend", "recheck"} -> "getPend" [] pc = "user" -> "getUser"
      [] pc = "clearUser" -> "clearUser" [] OTHER -> "clearPend"
AwaitsMsg(m) ==
    CASE m.pc = "name" -> "getUser"
      [] m.pc # "name" /\ m.kind = "creds" -> "setPend"
      [] m.pc # "name" /\ m.kind = "mark" -> "mark"
      [] m.pc # "name" /\ m.kind = "clear" -> "clearPend"
      [] m.pc # "name" /\ m.kind = "user" -> "setUser"
      [] OTHER -> "clearUser"

(***************************************************************************)
(* The types, strengthened until they are inductive                        *)
(***************************************************************************)
SessionShape ==
    /\ generation \in Session /\ removing \in BOOLEAN /\ late \in BOOLEAN
    /\ removing => Locked /\ generation # 0
    /\ scene \in Scene /\ acts \in 0 .. scene.acts

RecordShape ==
    /\ pend \in Maybe(PendRecord) /\ user \in Maybe(UserRecord)
    /\ writing \in Maybe(Writing)
    /\ sub \in [Sub -> Maybe(Content)]
    /\ settled \subseteq Sub /\ captured \subseteq Sub /\ consent \subseteq Maybe(Sub) \X Name

QueueShape == stateQueue \in Seq(Op) /\ \A i \in DOMAIN stateQueue : OpOK(stateQueue[i])

\* Only the message at the head has begun.
MsgShape ==
    /\ msgs \in Seq(MsgRecord)
    /\ \A i \in DOMAIN msgs : MsgOK(msgs[i]) /\ (i > 1 => msgs[i].pc = "new")

TaskShape ==
    /\ task \in [Task -> TaskRecord]
    /\ \A t \in Task : TaskOK(task[t]) /\ task[t].behind \in 0 .. Len(msgs)

PageShape ==
    /\ page \in PageRecord
    /\ page.listening # None => task[page.listening].kind = "check"

Shaped == SessionShape /\ RecordShape /\ QueueShape /\ MsgShape /\ TaskShape /\ PageShape

\* Who has an operation in stateQueue awaits it, at the label that asked for
\* it, and has only that one.
Asked ==
    /\ \A i \in DOMAIN stateQueue :
          LET op == stateQueue[i] IN
          /\ op.by \in Task => /\ task[op.by].waits /\ op.kind = Awaits(task[op.by].pc)
                               /\ op.sub = task[op.by].sub
          /\ op.by = "msg" => /\ msgs # <<>> /\ msgs[1].waits /\ op.kind = AwaitsMsg(msgs[1])
                              /\ op.sub = msgs[1].sub /\ op.gen = msgs[1].gen
    /\ \A i, j \in DOMAIN stateQueue :
          stateQueue[i].by = stateQueue[j].by /\ stateQueue[i].by \in Task \cup {"msg"} => i = j

\* What is being written is the result of the operation at the head.
Written ==
    writing # None =>
        /\ stateQueue # <<>>
        /\ Head(stateQueue).kind = "getPend" => writing.got \in Maybe(PendRecord)
        /\ Head(stateQueue).kind = "getUser" => writing.got \in Maybe(Name)

Typed == Shaped /\ Asked /\ Written

LEMMA Parity ==
    ASSUME NEW n \in Nat
    PROVE  /\ n % 2 = 1 <=> ~(n % 2 = 0)
           /\ (n + 1) % 2 = 0 <=> n % 2 = 1
  OBVIOUS

(***************************************************************************)
(* The operators on pages and tasks                                        *)
(***************************************************************************)
LEMMA IdleTyped == IdleTask \in TaskRecord /\ TaskOK(IdleTask) /\ IdleTask.kind = "idle" /\ ~IdleTask.waits
                     /\ IdleTask.behind = 0 /\ IdleTask.pc = "idle"
  BY DEF IdleTask, TaskRecord, TaskOK, Maybe, Got

\* A check that begins, and a save.
NewCheck(u, m, s, a, b) ==
    [IdleTask EXCEPT !.kind = "check", !.pc = "queued", !.heard = TRUE, !.url = u, !.manual = m,
                     !.sub = s, !.attempt = a, !.behind = b]
NewSave(u, s, n, e, b) ==
    [IdleTask EXCEPT !.kind = "save", !.pc = "queued", !.heard = TRUE, !.url = u, !.sub = s,
                     !.name = n, !.entry = e, !.behind = b]

LEMMA CheckTyped ==
    ASSUME NEW u \in Url, NEW m \in BOOLEAN, NEW s \in Maybe(Sub), NEW a \in 0 .. 2, NEW b \in Nat
    PROVE  LET k == NewCheck(u, m, s, a, b) IN
           /\ k \in TaskRecord /\ TaskOK(k)
           /\ k.kind = "check" /\ k.pc = "queued" /\ ~k.waits /\ k.behind = b /\ k.sub = s /\ k.pending = None
<1> DEFINE k == NewCheck(u, m, s, a, b)
<1>1. "queued" \in {"idle"} \cup CheckPC \cup SavePC /\ u \in Maybe(Url)
  BY DEF CheckPC, Maybe
<1>2. k \in TaskRecord
  BY <1>1, IdleTyped DEF TaskRecord, NewCheck
<1>3. /\ k.kind = "check" /\ k.pc = "queued" /\ ~k.waits /\ k.behind = b /\ k.sub = s /\ k.pending = None
  BY DEF IdleTask, NewCheck
<1> HIDE DEF k
<1>4. TaskOK(k)
  BY <1>2, <1>3 DEF TaskOK, CheckPC
<1> QED
  BY <1>2, <1>3, <1>4 DEF k

LEMMA SaveTyped ==
    ASSUME NEW u \in Url, NEW s \in Sub, NEW n \in Maybe(Name), NEW e \in Maybe(Name), NEW b \in Nat
    PROVE  LET k == NewSave(u, s, n, e, b) IN
           /\ k \in TaskRecord /\ TaskOK(k)
           /\ k.kind = "save" /\ k.pc = "queued" /\ ~k.waits /\ k.behind = b /\ k.sub = s
           /\ k.name = n /\ k.entry = e
<1> DEFINE k == NewSave(u, s, n, e, b)
<1>1. "queued" \in {"idle"} \cup CheckPC \cup SavePC /\ u \in Maybe(Url) /\ s \in Maybe(Sub)
  BY DEF CheckPC, Maybe
<1>2. k \in TaskRecord
  BY <1>1, IdleTyped DEF TaskRecord, NewSave
<1>3. /\ k.kind = "save" /\ k.pc = "queued" /\ ~k.waits /\ k.behind = b /\ k.sub = s
      /\ k.name = n /\ k.entry = e
  BY DEF IdleTask, NewSave
<1> HIDE DEF k
<1>4. TaskOK(k)
  BY <1>2, <1>3 DEF TaskOK, SavePC
<1> QED
  BY <1>2, <1>3, <1>4 DEF k

\* The page goes on, with the same submission and the same check awaited.
SamePage(pg, q) ==
    q \in PageRecord /\ q.latest = pg.latest /\ q.listening = pg.listening

LEMMA PageTyped ==
    ASSUME NEW pg \in PageRecord
    PROVE  /\ \A s \in Maybe(Sub), a \in {"none", "review", "retry"}, m \in BOOLEAN :
                SamePage(pg, ShowStatus(pg, s, a, m)) /\ ShowStatus(pg, s, a, m).banner = pg.banner
           /\ \A b \in Banner : SamePage(pg, ShowBanner(pg, b)) /\ ShowBanner(pg, b).banner = b
           /\ \A b \in Maybe(Banner) : SamePage(pg, [pg EXCEPT !.banner = b])
           /\ SamePage(pg, [pg EXCEPT !.status = None]) /\ [pg EXCEPT !.status = None].banner = pg.banner
           /\ SamePage(pg, CaptureFailed(pg)) /\ CaptureFailed(pg).banner = pg.banner
           /\ \A tk \in TaskRecord : SamePage(pg, CheckFailed(pg, tk)) /\ CheckFailed(pg, tk).banner = pg.banner
<1>1. ASSUME NEW s \in Maybe(Sub), NEW a \in {"none", "review", "retry"}, NEW m \in BOOLEAN
      PROVE  SamePage(pg, ShowStatus(pg, s, a, m)) /\ ShowStatus(pg, s, a, m).banner = pg.banner
  <2>1. [sub |-> s, action |-> a, manual |-> m] \in Maybe(Status)
    BY DEF Status, Maybe
  <2> QED
    BY <2>1 DEF SamePage, ShowStatus, PageRecord
<1>2. ASSUME NEW b \in Banner
      PROVE  SamePage(pg, ShowBanner(pg, b)) /\ ShowBanner(pg, b).banner = b
  <2>1. None \in Maybe(Status) /\ b \in Maybe(Banner)
    BY DEF Maybe
  <2> QED
    BY <2>1 DEF SamePage, ShowBanner, PageRecord
<1>3. ASSUME NEW b \in Maybe(Banner)
      PROVE  SamePage(pg, [pg EXCEPT !.banner = b])
  BY DEF SamePage, PageRecord
<1>4. SamePage(pg, [pg EXCEPT !.status = None]) /\ [pg EXCEPT !.status = None].banner = pg.banner
  <2>1. None \in Maybe(Status)
    BY DEF Maybe
  <2> QED
    BY <2>1 DEF SamePage, PageRecord
<1>5. SamePage(pg, CaptureFailed(pg)) /\ CaptureFailed(pg).banner = pg.banner
  <2> DEFINE q == ShowStatus(pg, None, "none", FALSE)
  <2>1. SamePage(pg, q) /\ q.banner = pg.banner
    BY <1>1 DEF Maybe
  <2>2. CaptureFailed(pg) = [q EXCEPT !.armed = None, !.storing = FALSE]
    BY DEF CaptureFailed
  <2>3. None \in Maybe(Sub)
    BY DEF Maybe
  <2> HIDE DEF q
  <2> QED
    BY <2>1, <2>2, <2>3 DEF SamePage, PageRecord
<1>6. ASSUME NEW tk \in TaskRecord
      PROVE  SamePage(pg, CheckFailed(pg, tk)) /\ CheckFailed(pg, tk).banner = pg.banner
  <2>1. tk.manual \in BOOLEAN /\ tk.sub \in Maybe(Sub) /\ tk.attempt \in 0 .. 2
    BY DEF TaskRecord
  <2>2. CASE tk.attempt < 2
    <3> DEFINE r == [manual |-> tk.manual, sub |-> tk.sub, attempt |-> tk.attempt + 1]
    <3>1. r \in Maybe(Retry)
      BY <2>1, <2>2 DEF Retry, Maybe
    <3>2. CheckFailed(pg, tk) = [pg EXCEPT !.retry = r]
      BY <2>2 DEF CheckFailed
    <3> HIDE DEF r
    <3> QED
      BY <3>1, <3>2 DEF SamePage, PageRecord
  <2>3. CASE ~(tk.attempt < 2)
    BY <1>1, <2>1, <2>3 DEF CheckFailed
  <2> QED
    BY <2>2, <2>3
<1> QED
  BY <1>1, <1>2, <1>3, <1>4, <1>5, <1>6

(***************************************************************************)
(* Asking                                                                  *)
(***************************************************************************)
KeepsWaiting(t) ==
    task[t].waits => task'[t].waits /\ task'[t].pc = task[t].pc /\ task'[t].sub = task[t].sub
MsgKeepsWaiting ==
    msgs # <<>> /\ msgs[1].waits =>
        /\ msgs' # <<>> /\ msgs'[1].waits /\ msgs'[1].kind = msgs[1].kind /\ msgs'[1].pc = msgs[1].pc
        /\ msgs'[1].sub = msgs[1].sub /\ msgs'[1].gen = msgs[1].gen

LEMMA AskedSame ==
    ASSUME Asked, UNCHANGED stateQueue, MsgKeepsWaiting, \A t \in Task : KeepsWaiting(t)
    PROVE  Asked'
<1>1. ASSUME NEW i \in DOMAIN stateQueue, stateQueue[i].by = "msg"
      PROVE  /\ msgs' # <<>> /\ msgs'[1].waits /\ stateQueue[i].kind = AwaitsMsg(msgs'[1])
             /\ stateQueue[i].sub = msgs'[1].sub /\ stateQueue[i].gen = msgs'[1].gen
  BY <1>1 DEF Asked, MsgKeepsWaiting, AwaitsMsg
<1>2. ASSUME NEW i \in DOMAIN stateQueue, stateQueue[i].by \in Task
      PROVE  /\ task'[stateQueue[i].by].waits /\ stateQueue[i].kind = Awaits(task'[stateQueue[i].by].pc)
             /\ stateQueue[i].sub = task'[stateQueue[i].by].sub
  BY <1>2 DEF Asked, KeepsWaiting
<1> QED
  BY <1>1, <1>2 DEF Asked

LEMMA AskedAppend ==
    ASSUME Asked, stateQueue \in Seq(Op), NEW op \in Op, stateQueue' = Append(stateQueue, op),
           MsgKeepsWaiting, \A t \in Task : KeepsWaiting(t),
           op.by \in Task => /\ ~task[op.by].waits /\ task'[op.by].waits
                             /\ op.kind = Awaits(task'[op.by].pc) /\ op.sub = task'[op.by].sub,
           op.by = "msg" => /\ msgs' # <<>> /\ ~msgs[1].waits /\ msgs'[1].waits
                            /\ op.kind = AwaitsMsg(msgs'[1])
                            /\ op.sub = msgs'[1].sub /\ op.gen = msgs'[1].gen
    PROVE  Asked'
<1>0. /\ DOMAIN stateQueue' = 1 .. Len(stateQueue) + 1
      /\ stateQueue'[Len(stateQueue) + 1] = op
      /\ \A i \in 1 .. Len(stateQueue) : i \in DOMAIN stateQueue /\ stateQueue'[i] = stateQueue[i]
      /\ Len(stateQueue) \in Nat
  OBVIOUS
<1>1. ASSUME NEW i \in 1 .. Len(stateQueue), stateQueue[i].by = "msg"
      PROVE  /\ msgs' # <<>> /\ msgs'[1].waits /\ stateQueue[i].kind = AwaitsMsg(msgs'[1])
             /\ stateQueue[i].sub = msgs'[1].sub /\ stateQueue[i].gen = msgs'[1].gen
  BY <1>0, <1>1 DEF Asked, MsgKeepsWaiting, AwaitsMsg
<1>2. ASSUME NEW i \in 1 .. Len(stateQueue), stateQueue[i].by \in Task
      PROVE  /\ task'[stateQueue[i].by].waits /\ stateQueue[i].kind = Awaits(task'[stateQueue[i].by].pc)
             /\ stateQueue[i].sub = task'[stateQueue[i].by].sub
  BY <1>0, <1>2 DEF Asked, KeepsWaiting
<1>3. \A i \in 1 .. Len(stateQueue) : op.by \in Task \cup {"msg"} => stateQueue[i].by # op.by
  BY <1>0 DEF Asked
<1>4. ASSUME NEW i \in DOMAIN stateQueue'
      PROVE  LET p == stateQueue'[i] IN
             /\ p.by \in Task => /\ task'[p.by].waits /\ p.kind = Awaits(task'[p.by].pc)
                                 /\ p.sub = task'[p.by].sub
             /\ p.by = "msg" => /\ msgs' # <<>> /\ msgs'[1].waits /\ p.kind = AwaitsMsg(msgs'[1])
                                /\ p.sub = msgs'[1].sub /\ p.gen = msgs'[1].gen
  BY <1>0, <1>1, <1>2, <1>4
<1>5. ASSUME NEW i \in DOMAIN stateQueue', NEW j \in DOMAIN stateQueue',
             stateQueue'[i].by = stateQueue'[j].by, stateQueue'[i].by \in Task \cup {"msg"}
      PROVE  i = j
  BY <1>0, <1>3, <1>5 DEF Asked
<1> QED
  BY <1>4, <1>5 DEF Asked

LEMMA AskedTail ==
    ASSUME Asked, stateQueue \in Seq(Op), stateQueue # <<>>, stateQueue' = Tail(stateQueue),
           Head(stateQueue).by # "msg" => MsgKeepsWaiting,
           \A t \in Task : t # Head(stateQueue).by => KeepsWaiting(t)
    PROVE  Asked'
<1>0. /\ DOMAIN stateQueue' = 1 .. Len(stateQueue) - 1
      /\ Head(stateQueue) = stateQueue[1] /\ 1 \in DOMAIN stateQueue
      /\ \A i \in 1 .. Len(stateQueue) - 1 :
            i + 1 \in DOMAIN stateQueue /\ i + 1 # 1 /\ stateQueue'[i] = stateQueue[i + 1]
      /\ Len(stateQueue) \in Nat
  OBVIOUS
<1>1. ASSUME NEW i \in 1 .. Len(stateQueue) - 1, stateQueue'[i].by = "msg"
      PROVE  /\ msgs' # <<>> /\ msgs'[1].waits /\ stateQueue'[i].kind = AwaitsMsg(msgs'[1])
             /\ stateQueue'[i].sub = msgs'[1].sub /\ stateQueue'[i].gen = msgs'[1].gen
  BY <1>0, <1>1 DEF Asked, MsgKeepsWaiting, AwaitsMsg
<1>2. ASSUME NEW i \in 1 .. Len(stateQueue) - 1, stateQueue'[i].by \in Task
      PROVE  /\ task'[stateQueue'[i].by].waits /\ stateQueue'[i].kind = Awaits(task'[stateQueue'[i].by].pc)
             /\ stateQueue'[i].sub = task'[stateQueue'[i].by].sub
  BY <1>0, <1>2 DEF Asked, KeepsWaiting
<1>3. ASSUME NEW i \in DOMAIN stateQueue', NEW j \in DOMAIN stateQueue',
             stateQueue'[i].by = stateQueue'[j].by, stateQueue'[i].by \in Task \cup {"msg"}
      PROVE  i = j
  <2>1. i + 1 = j + 1
    BY <1>0, <1>3 DEF Asked
  <2> QED
    BY <1>0, <2>1
<1> QED
  BY <1>0, <1>1, <1>2, <1>3 DEF Asked

(***************************************************************************)
(* Decisions                                                               *)
(***************************************************************************)
LEMMA One ==
    ASSUME NEW S, Cardinality(S) = 1
    PROVE  S # {} /\ (CHOOSE e \in S : TRUE) \in S
<1>1. Cardinality({}) = 0
  BY FS_EmptySet
<1> QED
  BY <1>1

\* A login to compare with is in the vault; without the foreign mark it has the
\* name that was given, but for its case.
LEMMA DecisionTyped ==
    ASSUME NEW existing \in SUBSET Name, NEW n \in Maybe(Name), NEW change
    PROVE  LET d == Decision(existing, n, change) IN
           /\ d = [act |-> d.act, entry |-> d.entry, foreign |-> d.foreign]
           /\ d.act \in {"compare", "missing", "ambiguous", "create"}
           /\ d.entry \in Maybe(Name) /\ d.foreign \in BOOLEAN
           /\ d.act = "compare" => d.entry \in Name
           /\ d.act = "create" => n \in Name
           /\ d.act = "compare" /\ ~d.foreign /\ n # None => Folded[d.entry] = Folded[n]
<1> DEFINE d == Decision(existing, n, change)
           found == IF n = None THEN existing ELSE Matching(existing, n)
           one == CHOOSE e \in found : TRUE
           only == CHOOSE e \in existing : TRUE
<1>0. found \subseteq Name /\ (n # None => \A e \in found : Folded[e] = Folded[n])
  BY DEF Matching
<1>1. \/ /\ Cardinality(found) = 1
         /\ d = [act |-> "compare", entry |-> one, foreign |-> FALSE]
      \/ /\ Cardinality(existing) = 1
         /\ d = [act |-> "compare", entry |-> only, foreign |-> TRUE]
      \/ d = [act |-> "missing", entry |-> None, foreign |-> FALSE]
      \/ d = [act |-> "ambiguous", entry |-> None, foreign |-> FALSE]
      \/ n # None /\ d = [act |-> "create", entry |-> None, foreign |-> FALSE]
  <2>1. CASE Cardinality(found) = 1
    <3>1. found # {}
      BY <2>1, One
    <3>2. CASE n = None
      BY <2>1, <3>1, <3>2 DEF Decision
    <3>3. CASE n # None
      <4>1. ~(Cardinality(found) > 1)
        BY <2>1
      <4> QED
        BY <2>1, <3>1, <3>3, <4>1 DEF Decision
    <3> QED
      BY <3>2, <3>3
  <2>2. CASE Cardinality(found) # 1 /\ n = None
    BY <2>2 DEF Decision
  <2>3. CASE Cardinality(found) # 1 /\ n # None
    <3>1. CASE Cardinality(found) > 1
      <4>1. found # {}
        BY <3>1, FS_EmptySet
      <4> QED
        BY <2>3, <3>1, <4>1 DEF Decision
    <3>2. CASE ~(Cardinality(found) > 1) /\ found = {} /\ change /\ Cardinality(existing) = 1
      <4>1. existing # {}
        BY <3>2, One
      <4> QED
        BY <2>3, <3>2, <4>1 DEF Decision
    <3>3. CASE ~(Cardinality(found) > 1) /\ ~(found = {} /\ change /\ Cardinality(existing) = 1)
      BY <2>3, <3>3 DEF Decision
    <3> QED
      BY <3>1, <3>2, <3>3
  <2> QED
    BY <2>1, <2>2, <2>3
<1>2. Cardinality(found) = 1 => one \in found
  BY One
<1>3. Cardinality(existing) = 1 => only \in existing
  BY One
<1> HIDE DEF d, found, one, only
<1>4. /\ d = [act |-> d.act, entry |-> d.entry, foreign |-> d.foreign]
      /\ d.act \in {"compare", "missing", "ambiguous", "create"}
      /\ d.entry \in Maybe(Name) /\ d.foreign \in BOOLEAN
      /\ d.act = "compare" => d.entry \in Name
      /\ d.act = "create" => n \in Name
      /\ d.act = "compare" /\ ~d.foreign /\ n # None => Folded[d.entry] = Folded[n]
  <2>1. CASE Cardinality(found) = 1 /\ d = [act |-> "compare", entry |-> one, foreign |-> FALSE]
    BY <1>0, <1>2, <2>1 DEF Maybe
  <2>2. CASE Cardinality(existing) = 1 /\ d = [act |-> "compare", entry |-> only, foreign |-> TRUE]
    BY <1>3, <2>2 DEF Maybe
  <2>3. CASE d = [act |-> "missing", entry |-> None, foreign |-> FALSE]
    BY <2>3 DEF Maybe
  <2>4. CASE d = [act |-> "ambiguous", entry |-> None, foreign |-> FALSE]
    BY <2>4 DEF Maybe
  <2>5. CASE n # None /\ d = [act |-> "create", entry |-> None, foreign |-> FALSE]
    BY <2>5 DEF Maybe
  <2> QED
    BY <1>1, <2>1, <2>2, <2>3, <2>4, <2>5
<1> QED
  BY <1>4 DEF d

LEMMA ComparedTyped ==
    ASSUME NEW act \in {"compare", "missing", "ambiguous", "create"}, NEW e \in Maybe(Name),
           NEW f \in BOOLEAN, act = "compare" => e \in Name, NEW secret,
           NEW d, d = [act |-> act, entry |-> e, foreign |-> f]
    PROVE  LET v == Compared(d, secret) IN
           /\ v \in Verdict /\ v.entry = e /\ v.foreign = f
           /\ v.act \in {"update", "unchanged"} <=> act = "compare"
           /\ v.act \notin {"update", "unchanged"} => v.act = act
           /\ v.act = "update" => v.entry \in Name
<1>1. CASE act # "compare"
  BY <1>1 DEF Compared, Verdict
<1>2. CASE act = "compare"
  <2>1. Compared(d, secret) = [act |-> IF vault[e] = secret THEN "unchanged" ELSE "update",
                               entry |-> e, foreign |-> f]
    BY <1>2 DEF Compared
  <2> QED
    BY <1>2, <2>1 DEF Verdict
<1> QED
  BY <1>1, <1>2

(***************************************************************************)
(* The steps of a task                                                     *)
(***************************************************************************)
\* Task t ends, and its answer reaches the page.
Answers(t) ==
    /\ task' = [task EXCEPT ![t] = IdleTask]
    /\ UNCHANGED stateQueue
    /\ page' \in PageRecord /\ page'.latest = page.latest
    /\ page'.listening = IF page.listening = t THEN None ELSE page.listening

\* Task t goes on as k, which may await an operation.
GoesOn(t, k) ==
    /\ task' = [task EXCEPT ![t] = k]
    /\ k \in TaskRecord /\ TaskOK(k) /\ k.kind = task[t].kind /\ k.behind = task[t].behind
    /\ k.pc # "queued"
    /\ UNCHANGED page
    /\ IF k.waits
       THEN stateQueue' = Append(stateQueue, [by |-> t, kind |-> Awaits(k.pc), gen |-> generation,
                                              sub |-> k.sub, name |-> None])
       ELSE UNCHANGED stateQueue

LEMMA AnswerEffect ==
    ASSUME Shaped, NEW t \in Task, NEW pg, SamePage(page, pg), Answer(t, pg), UNCHANGED stateQueue
    PROVE  Answers(t)
<1>1. page \in PageRecord /\ pg \in PageRecord /\ pg.latest = page.latest /\ pg.listening = page.listening
  BY DEF Shaped, PageShape, SamePage
<1>2. None \notin Task
  BY ConstantAssumption
<1>3. page.listening = t => task[t].kind = "check"
  BY <1>2 DEF Shaped, PageShape
<1>4. None \in Maybe(Task)
  BY DEF Maybe
<1>5. CASE task[t].kind = "check" /\ page.listening = t
  <2>1. page' = [pg EXCEPT !.listening = None]
    BY <1>5 DEF Answer
  <2> QED
    BY <1>1, <1>4, <1>5, <2>1 DEF Answer, Answers, PageRecord
<1>6. CASE ~(task[t].kind = "check" /\ page.listening = t)
  <2>1. page' \in {page, pg} /\ page.listening # t
    BY <1>3, <1>6 DEF Answer
  <2> QED
    BY <1>1, <1>4, <1>6, <2>1 DEF Answer, Answers
<1> QED
  BY <1>5, <1>6

\* A task that awaits an operation at its next label, and one that does not.
Awaiting(tk, label) == [tk EXCEPT !.pc = label, !.waits = TRUE]
Arrived(tk, label) == [tk EXCEPT !.pc = label]

LEMMA AskTyped ==
    ASSUME NEW tk \in TaskRecord, NEW label \in {"pend", "recheck", "user", "clearUser", "clearPend"},
           tk.kind \in {"check", "save"},
           tk.kind = "save" => label \in SavePC /\ tk.sub \in Sub,
           tk.kind = "check" /\ label \in {"user", "recheck"} => tk.pending \in PendRecord,
           label \in {"clearUser", "clearPend"} => tk.sub \in Sub,
           label = "recheck" => tk.verdict \in Verdict /\ (tk.verdict.act = "update" => tk.verdict.entry \in Name)
    PROVE  LET k == Awaiting(tk, label) IN
           /\ k \in TaskRecord /\ TaskOK(k) /\ k.kind = tk.kind /\ k.behind = tk.behind /\ k.waits
           /\ k.pc = label /\ k.sub = tk.sub /\ k.pc # "queued" /\ k.pending = tk.pending
           /\ k.name = tk.name /\ k.entry = tk.entry /\ k.verdict = tk.verdict
<1> DEFINE k == Awaiting(tk, label)
<1>1. label \in {"idle"} \cup CheckPC \cup SavePC
  BY DEF CheckPC, SavePC
<1>2. /\ k \in TaskRecord /\ k.kind = tk.kind /\ k.behind = tk.behind /\ k.waits
      /\ k.pc = label /\ k.sub = tk.sub /\ k.pc # "queued" /\ k.pending = tk.pending
      /\ k.name = tk.name /\ k.entry = tk.entry /\ k.verdict = tk.verdict
  BY <1>1 DEF TaskRecord, Awaiting
<1> HIDE DEF k
<1>3. TaskOK(k)
  BY <1>2 DEF TaskOK, CheckPC
<1> QED
  BY <1>2, <1>3 DEF k

LEMMA AskEffect ==
    ASSUME NEW t \in Task, NEW tk, NEW label \in {"pend", "recheck", "user", "clearUser", "clearPend"}, NEW kind,
           kind = Awaits(label), AskFor(t, tk, label, kind), UNCHANGED page,
           NEW k, k = Awaiting(tk, label), k \in TaskRecord, TaskOK(k), k.kind = task[t].kind, k.behind = task[t].behind, k.waits,
           k.pc = label, k.sub = tk.sub
    PROVE  GoesOn(t, k)
  BY DEF AskFor, Ask, GoesOn, Awaiting

LEMMA StepTyped ==
    ASSUME NEW tk \in TaskRecord, NEW label \in {"list", "decide", "write"}, ~tk.waits,
           tk.kind \in {"check", "save"},
           tk.kind = "save" => tk.sub \in Sub,
           tk.kind = "check" => label # "write" /\ tk.pending \in PendRecord,
           label = "write" => /\ tk.verdict \in Verdict /\ tk.verdict.act \in {"update", "create"}
                              /\ tk.verdict.act = "update" => tk.verdict.entry \in Name
                              /\ tk.verdict.act = "create" => tk.name \in Name
    PROVE  LET k == Arrived(tk, label) IN
           /\ k \in TaskRecord /\ TaskOK(k) /\ k.kind = tk.kind /\ k.behind = tk.behind /\ ~k.waits
           /\ k.pc = label /\ k.sub = tk.sub /\ k.pc # "queued" /\ k.pending = tk.pending
           /\ k.name = tk.name /\ k.entry = tk.entry /\ k.verdict = tk.verdict
<1> DEFINE k == Arrived(tk, label)
<1>1. label \in {"idle"} \cup CheckPC \cup SavePC
  BY DEF CheckPC, SavePC
<1>2. /\ k \in TaskRecord /\ k.kind = tk.kind /\ k.behind = tk.behind /\ ~k.waits
      /\ k.pc = label /\ k.sub = tk.sub /\ k.pc # "queued" /\ k.pending = tk.pending
      /\ k.name = tk.name /\ k.entry = tk.entry /\ k.verdict = tk.verdict
  BY <1>1 DEF TaskRecord, Arrived
<1> HIDE DEF k
<1>3. TaskOK(k)
  BY <1>2 DEF TaskOK, CheckPC, SavePC
<1> QED
  BY <1>2, <1>3 DEF k

LEMMA StepEffect ==
    ASSUME NEW t \in Task, NEW tk, NEW label, Step(t, tk, label), UNCHANGED <<page, stateQueue>>,
           NEW k, k = Arrived(tk, label), k \in TaskRecord, TaskOK(k), k.kind = task[t].kind, k.behind = task[t].behind, ~k.waits,
           k.pc # "queued"
    PROVE  GoesOn(t, k)
  BY DEF Step, GoesOn, Arrived

\* The steps of task t that answer a check or a save, or bring it forward.
Check(t) ==
    \/ CheckBegin(t) \/ CheckPend(t) \/ CheckUser(t) \/ CheckDecide(t) \/ CheckAgain(t)
    \/ CheckUnchanged(t)
Save(t) ==
    \/ SaveBegin(t) \/ SavePend(t) \/ SaveUser(t) \/ SaveDecide(t) \/ SaveWrite(t)
    \/ SaveAnswerLost(t) \/ SaveEnd(t)
Worker(t) == Check(t) \/ Save(t) \/ List(t) \/ RequestFails(t) \/ ClearPend(t)

\* The decision a save makes: a login that was chosen is taken; otherwise it is
\* decided again.
SavedDecision(o) ==
    IF o.entry # None THEN [act |-> "compare", entry |-> o.entry, foreign |-> FALSE]
    ELSE Decision(o.existing, o.name, sub[o.sub].change)
SaveDecision(t) == SavedDecision(task[t])

\* How a task goes on: what it keeps, and what it has learnt.
Waiting == {"pend", "recheck", "user", "clearUser", "clearPend"}
SameData(o, k) == k.pending = o.pending /\ k.name = o.name /\ k.sub = o.sub

Moves(o, k) ==
    /\ k.entry = o.entry /\ k.kind = o.kind
    /\ k.waits <=> k.pc \in Waiting
    /\ \/ o.pc = "queued" /\ k.pc = (IF o.kind = "check" THEN "pend" ELSE "list") /\ SameData(o, k)
       \/ /\ o.kind = "check" /\ o.pc = "pend" /\ o.got # None
          /\ k.pending = o.got /\ k.name = o.got.name /\ k.sub = o.sub
          /\ k.pc = IF o.got.name = None THEN "user" ELSE "list"
       \/ /\ o.kind = "save" /\ o.pc = "pend" /\ o.got # None /\ k.pc = "user"
          /\ k.pending = o.got /\ k.name = o.name /\ k.sub = o.sub /\ o.got.sub = o.sub
       \/ /\ o.kind = "check" /\ o.pc = "user" /\ k.pc = "list"
          /\ k.pending = o.pending /\ k.name = o.got /\ k.sub = o.sub
       \/ /\ o.kind = "save" /\ o.pc = "user" /\ k.pc = "decide"
          /\ k.pending = o.pending /\ k.name = (IF o.name = None THEN o.got ELSE o.name) /\ k.sub = o.sub
       \/ o.pc = "list" /\ k.pc = (IF o.kind = "check" THEN "decide" ELSE "pend") /\ SameData(o, k)
       \/ o.kind = "check" /\ o.pc = "decide" /\ k.pc = "recheck" /\ SameData(o, k)
       \/ o.pc = "recheck" /\ k.pc = "clearUser" /\ k.sub = o.pending.sub /\ k.pending = o.pending
       \/ /\ o.kind = "save" /\ o.pc = "decide" /\ SameData(o, k)
          /\ \/ k.pc = "clearUser"
             \/ k.pc = "write" /\ k.verdict = Compared(SavedDecision(o), sub[o.sub].secret)
                /\ (o.entry = None => ~NeedsConfirmation(o, k.verdict))
       \/ o.pc = "write" /\ k.pc = "clearUser" /\ SameData(o, k)
       \/ o.pc = "clearUser" /\ k.pc = "clearPend" /\ SameData(o, k) /\ k.sub \in settled'

Effect(t) == Answers(t) \/ \E k \in TaskRecord : GoesOn(t, k) /\ Moves(task[t], k)

LEMMA AnswerPages ==
    ASSUME Shaped, NEW t \in Task, UNCHANGED stateQueue
    PROVE  /\ NothingPending(t) => Answers(t)
           /\ Failed(t) => Answers(t)
           /\ Refused(t) => Answers(t)
           /\ \A s \in Sub : Available(t, s) => Answers(t)
           /\ \A e \in Name : AskToConfirm(t, e) => Answers(t)
<1>0. page \in PageRecord /\ task[t] \in TaskRecord
  BY DEF Shaped, PageShape, TaskShape
<1>1. SamePage(page, page) /\ None \in Maybe(Sub) /\ page.banner \in Maybe(Banner)
  BY <1>0 DEF SamePage, Maybe, PageRecord
<1>2. NothingPending(t) => Answers(t)
  <2>1. SamePage(page, IF task[t].manual THEN ShowStatus(page, None, "none", FALSE)
                       ELSE [page EXCEPT !.status = None])
    BY <1>0, <1>1, PageTyped
  <2> QED
    BY <2>1, AnswerEffect DEF NothingPending
<1>3. ASSUME NEW e \in Maybe(Name), NEW b, b = page.banner, b # None,
             NEW c, c = [b EXCEPT !.saving = None, !.entry = e] \/ c = [b EXCEPT !.saving = None]
      PROVE  c \in Maybe(Banner)
  BY <1>1, <1>3 DEF Maybe, Banner
<1>4. ASSUME NEW pg, pg = [page EXCEPT !.banner =
                        IF @ # None /\ @.saving = t THEN [@ EXCEPT !.saving = None] ELSE @]
      PROVE  SamePage(page, pg)
  <2> DEFINE c == IF page.banner # None /\ page.banner.saving = t
                  THEN [page.banner EXCEPT !.saving = None] ELSE page.banner
  <2>1. c \in Maybe(Banner)
    BY <1>1, <1>3 DEF Maybe
  <2>2. pg = [page EXCEPT !.banner = c]
    BY <1>4
  <2> HIDE DEF c
  <2> QED
    BY <1>0, <2>1, <2>2, PageTyped
<1>5. Failed(t) => Answers(t)
  <2>1. SamePage(page, CheckFailed(page, task[t]))
    BY <1>0, PageTyped
  <2> QED
    BY <1>4, <2>1, AnswerEffect DEF Failed
<1>6. Refused(t) => Answers(t)
  BY <1>4, AnswerEffect DEF Refused
<1>7. ASSUME NEW s \in Sub, Available(t, s)
      PROVE  Answers(t)
  <2>1. SamePage(page, IF page.banner = None THEN ShowStatus(page, s, "review", TRUE) ELSE page)
    BY <1>0, <1>1, PageTyped DEF Maybe
  <2> QED
    BY <1>7, <2>1, AnswerEffect DEF Available
<1>8. ASSUME NEW e \in Name, AskToConfirm(t, e)
      PROVE  Answers(t)
  <2> DEFINE c == IF page.banner # None /\ page.banner.saving = t
                  THEN [page.banner EXCEPT !.saving = None, !.entry = e] ELSE page.banner
  <2>1. c \in Maybe(Banner)
    BY <1>1, <1>3 DEF Maybe
  <2>2. Answer(t, [page EXCEPT !.banner = c])
    BY <1>8 DEF AskToConfirm
  <2> HIDE DEF c
  <2> QED
    BY <1>0, <2>1, <2>2, PageTyped, AnswerEffect
<1> QED
  BY <1>2, <1>5, <1>6, <1>7, <1>8

LEMMA CheckEffect ==
    ASSUME Shaped, NEW t \in Task, Check(t)
    PROVE  Effect(t)
<1> USE DEF Effect, SameData, Waiting
<1>0. /\ task[t] \in TaskRecord /\ TaskOK(task[t]) /\ page \in PageRecord
      /\ task[t].kind = "check" /\ ~task[t].waits
  BY DEF Shaped, TaskShape, PageShape, Check, CheckBegin, CheckPend, CheckUser, CheckDecide, CheckAgain,
     CheckUnchanged, At
<1>1. CASE CheckBegin(t)
  <2>1. CASE Locked
    BY <1>1, <2>1, AnswerPages DEF CheckBegin
  <2>2. CASE ~Locked
    <3> DEFINE k == Awaiting(task[t], "pend")
    <3>1. AskFor(t, task[t], "pend", "getPend") /\ UNCHANGED page
      BY <1>1, <2>2 DEF CheckBegin
    <3>2. /\ k \in TaskRecord /\ TaskOK(k) /\ k.kind = task[t].kind /\ k.behind = task[t].behind /\ k.waits
          /\ k.pc = "pend" /\ k.sub = task[t].sub
          /\ k.pending = task[t].pending /\ k.name = task[t].name /\ k.entry = task[t].entry
      BY <1>0, AskTyped
    <3> HIDE DEF k
    <3>3. GoesOn(t, k)
      BY <3>1, <3>2, AskEffect DEF k, Awaits
    <3>4. Moves(task[t], k)
      BY <1>0, <1>1, <3>2 DEF Moves, CheckBegin, At
    <3> QED
      BY <3>2, <3>3, <3>4
  <2> QED
    BY <2>1, <2>2
<1>2. CASE CheckPend(t)
  <2> DEFINE r == task[t].got
             tk == [task[t] EXCEPT !.pending = r, !.name = r.name]
  <2>0. task[t].pc = "pend" /\ r \in Maybe(PendRecord)
    BY <1>0, <1>2 DEF CheckPend, At, TaskOK
  <2>1. CASE r = None \/ (r # None /\ task[t].sub \notin {None, r.sub})
    BY <1>2, <2>1, AnswerPages DEF CheckPend
  <2>2. CASE r # None
    <3>1. r \in PendRecord /\ r.sub \in Sub /\ r.name \in Maybe(Name)
      BY <2>0, <2>2 DEF Maybe, PendRecord
    <3>2. /\ tk \in TaskRecord /\ tk.kind = "check" /\ tk.pending = r /\ ~tk.waits
          /\ tk.behind = task[t].behind /\ tk.sub = task[t].sub
          /\ tk.name = r.name /\ tk.entry = task[t].entry
      BY <1>0, <3>1 DEF TaskRecord, Maybe
    <3>3. \/ NothingPending(t) /\ UNCHANGED stateQueue
          \/ Available(t, r.sub) /\ UNCHANGED stateQueue
          \/ r.name = None /\ AskFor(t, tk, "user", "getUser") /\ UNCHANGED page
          \/ r.name # None /\ Step(t, tk, "list") /\ UNCHANGED <<page, stateQueue>>
      BY <1>2 DEF CheckPend
    <3> HIDE DEF tk
    <3>4. CASE NothingPending(t) /\ UNCHANGED stateQueue
      BY <3>4, AnswerPages
    <3>5. CASE Available(t, r.sub) /\ UNCHANGED stateQueue
      BY <3>1, <3>5, AnswerPages
    <3>6. CASE r.name = None /\ AskFor(t, tk, "user", "getUser") /\ UNCHANGED page
      <4> DEFINE k == Awaiting(tk, "user")
      <4>1. /\ k \in TaskRecord /\ TaskOK(k) /\ k.kind = task[t].kind /\ k.behind = task[t].behind /\ k.waits
            /\ k.pc = "user" /\ k.sub = tk.sub /\ k.pending = tk.pending /\ k.name = tk.name /\ k.entry = tk.entry
        BY <1>0, <3>1, <3>2, AskTyped
      <4> HIDE DEF k
      <4>2. GoesOn(t, k)
        BY <3>6, <4>1, AskEffect DEF k, Awaits
      <4>3. Moves(task[t], k)
        BY <1>0, <2>0, <2>2, <3>2, <3>6, <4>1 DEF Moves
      <4> QED
        BY <4>1, <4>2, <4>3
    <3>7. CASE r.name # None /\ Step(t, tk, "list") /\ UNCHANGED <<page, stateQueue>>
      <4> DEFINE k == Arrived(tk, "list")
      <4>1. /\ k \in TaskRecord /\ TaskOK(k) /\ k.kind = task[t].kind /\ k.behind = task[t].behind /\ ~k.waits
            /\ k.pc # "queued" /\ k.pc = "list" /\ k.sub = tk.sub /\ k.pending = tk.pending /\ k.name = tk.name /\ k.entry = tk.entry
        BY <1>0, <3>1, <3>2, StepTyped
      <4> HIDE DEF k
      <4>2. GoesOn(t, k)
        BY <3>7, <4>1, StepEffect DEF k
      <4>3. Moves(task[t], k)
        BY <1>0, <2>0, <2>2, <3>2, <3>7, <4>1 DEF Moves
      <4> QED
        BY <4>1, <4>2, <4>3
    <3> QED
      BY <3>3, <3>4, <3>5, <3>6, <3>7
  <2> QED
    BY <2>1, <2>2
<1>3. CASE CheckUser(t)
  <2> DEFINE tk == [task[t] EXCEPT !.name = task[t].got]
             k == Arrived(tk, "list")
  <2>1. task[t].pc = "user" /\ task[t].got \in Maybe(Name) /\ task[t].pending \in PendRecord
    BY <1>0, <1>3 DEF CheckUser, At, TaskOK
  <2>2. /\ tk \in TaskRecord /\ tk.kind = "check" /\ tk.pending = task[t].pending /\ ~tk.waits
        /\ tk.behind = task[t].behind /\ tk.sub = task[t].sub /\ tk.name = task[t].got
        /\ tk.entry = task[t].entry
    BY <1>0, <2>1 DEF TaskRecord
  <2>3. Step(t, tk, "list") /\ UNCHANGED <<page, stateQueue>>
    BY <1>3 DEF CheckUser
  <2> HIDE DEF tk
  <2>4. /\ k \in TaskRecord /\ TaskOK(k) /\ k.kind = task[t].kind /\ k.behind = task[t].behind /\ ~k.waits
        /\ k.pc # "queued" /\ k.pc = "list" /\ k.sub = tk.sub /\ k.pending = tk.pending /\ k.name = tk.name /\ k.entry = tk.entry
    BY <1>0, <2>1, <2>2, StepTyped
  <2> HIDE DEF k
  <2>5. GoesOn(t, k)
    BY <2>3, <2>4, StepEffect DEF k
  <2>6. Moves(task[t], k)
    BY <1>0, <2>1, <2>2, <2>4 DEF Moves
  <2> QED
    BY <2>4, <2>5, <2>6
<1>4. CASE CheckDecide(t)
  <2> DEFINE form == sub[task[t].pending.sub]
             d == Decision(task[t].existing, task[t].name, form.change)
             v == Compared(d, form.secret)
             tk == [task[t] EXCEPT !.verdict = v]
             k == Awaiting(tk, "recheck")
  <2>0. task[t].pc = "decide" /\ task[t].pending \in PendRecord
    BY <1>0, <1>4 DEF CheckDecide, At, TaskOK
  <2>1. \/ Failed(t) /\ UNCHANGED stateQueue
        \/ AskFor(t, tk, "recheck", "getPend") /\ UNCHANGED page
    BY <1>4 DEF CheckDecide
  <2>2. task[t].existing \in SUBSET Name /\ task[t].name \in Maybe(Name)
    BY <1>0 DEF TaskRecord
  <2>3. v \in Verdict /\ (v.act = "update" => v.entry \in Name)
    <3>1. /\ d = [act |-> d.act, entry |-> d.entry, foreign |-> d.foreign]
          /\ d.act \in {"compare", "missing", "ambiguous", "create"}
          /\ d.entry \in Maybe(Name) /\ d.foreign \in BOOLEAN
          /\ d.act = "compare" => d.entry \in Name
      BY <2>2, DecisionTyped
    <3> HIDE DEF d
    <3> QED
      BY <3>1, ComparedTyped
  <2> HIDE DEF v
  <2>4. /\ tk \in TaskRecord /\ tk.kind = "check" /\ tk.verdict = v /\ tk.pending = task[t].pending
        /\ tk.behind = task[t].behind /\ tk.sub = task[t].sub /\ tk.name = task[t].name
        /\ tk.entry = task[t].entry
    BY <1>0, <2>3 DEF TaskRecord, Maybe
  <2> HIDE DEF tk
  <2>5. /\ k \in TaskRecord /\ TaskOK(k) /\ k.kind = task[t].kind /\ k.behind = task[t].behind /\ k.waits
        /\ k.pc = "recheck" /\ k.sub = tk.sub /\ k.pending = tk.pending /\ k.name = tk.name /\ k.entry = tk.entry
    BY <1>0, <2>0, <2>3, <2>4, AskTyped
  <2> HIDE DEF k
  <2>6. AskFor(t, tk, "recheck", "getPend") /\ UNCHANGED page => GoesOn(t, k)
    BY <2>5, AskEffect DEF k, Awaits
  <2>7. Moves(task[t], k)
    BY <1>0, <2>0, <2>4, <2>5 DEF Moves
  <2> QED
    BY <2>1, <2>5, <2>6, <2>7, AnswerPages
<1>5. CASE CheckAgain(t)
  <2> DEFINE s == task[t].pending.sub
             v == task[t].verdict
             tk == [task[t] EXCEPT !.sub = s]
             k == Awaiting(tk, "clearUser")
             b == [sub |-> s, name |-> task[t].name, saving |-> None,
                   entry |-> IF v.act = "update" THEN v.entry ELSE None,
                   accounts |-> IF v.act \in {"missing", "ambiguous"} THEN task[t].existing ELSE {},
                   choose |-> v.act \in {"missing", "ambiguous"}]
             pg == IF page.banner # None /\ page.banner.sub = s THEN page ELSE ShowBanner(page, b)
  <2>0. /\ task[t].pc = "recheck" /\ task[t].pending \in PendRecord /\ s \in Sub
        /\ v \in Verdict /\ (v.act = "update" => v.entry \in Name)
    BY <1>0, <1>5 DEF CheckAgain, At, TaskOK, PendRecord
  <2>1. \/ NothingPending(t) /\ UNCHANGED stateQueue
        \/ AskFor(t, tk, "clearUser", "clearUser") /\ UNCHANGED page
        \/ Answer(t, pg) /\ UNCHANGED stateQueue
    BY <1>5 DEF CheckAgain
  <2>2. /\ tk \in TaskRecord /\ tk.kind = "check" /\ tk.behind = task[t].behind /\ tk.sub = s
        /\ tk.entry = task[t].entry /\ tk.pending = task[t].pending
    BY <1>0, <2>0 DEF TaskRecord, Maybe
  <2>3. b \in Banner
    BY <1>0, <2>0 DEF Banner, TaskRecord, Maybe
  <2>4. SamePage(page, pg)
    <3> HIDE DEF b
    <3>1. SamePage(page, ShowBanner(page, b)) /\ SamePage(page, page)
      BY <1>0, <2>3, PageTyped DEF SamePage
    <3> QED
      BY <3>1
  <2> HIDE DEF tk, pg
  <2>5. /\ k \in TaskRecord /\ TaskOK(k) /\ k.kind = task[t].kind /\ k.behind = task[t].behind /\ k.waits
        /\ k.pc = "clearUser" /\ k.sub = tk.sub /\ k.entry = tk.entry /\ k.pending = tk.pending
    BY <1>0, <2>0, <2>2, AskTyped
  <2> HIDE DEF k
  <2>6. AskFor(t, tk, "clearUser", "clearUser") /\ UNCHANGED page => GoesOn(t, k)
    BY <2>5, AskEffect DEF k, Awaits
  <2>7. Moves(task[t], k)
    BY <1>0, <2>0, <2>2, <2>5 DEF Moves
  <2> QED
    BY <2>1, <2>4, <2>5, <2>6, <2>7, AnswerPages, AnswerEffect
<1>6. CASE CheckUnchanged(t)
  BY <1>6, AnswerPages DEF CheckUnchanged
<1> QED
  BY <1>1, <1>2, <1>3, <1>4, <1>5, <1>6 DEF Check

LEMMA SaveDecisionTyped ==
    ASSUME NEW t \in Task, task[t] \in TaskRecord
    PROVE  LET v == Compared(SaveDecision(t), sub[task[t].sub].secret) IN
           /\ v \in Verdict /\ v.entry = SaveDecision(t).entry /\ v.foreign = SaveDecision(t).foreign
           /\ v.act = "update" => v.entry \in Name /\ SaveDecision(t).act = "compare"
           /\ v.act = "create" => task[t].name \in Name
<1> DEFINE d == SaveDecision(t)
           v == Compared(d, sub[task[t].sub].secret)
<1>1. task[t].existing \in SUBSET Name /\ task[t].name \in Maybe(Name) /\ task[t].entry \in Maybe(Name)
  BY DEF TaskRecord
<1>2. /\ d = [act |-> d.act, entry |-> d.entry, foreign |-> d.foreign]
      /\ d.act \in {"compare", "missing", "ambiguous", "create"}
      /\ d.entry \in Maybe(Name) /\ d.foreign \in BOOLEAN
      /\ d.act = "compare" => d.entry \in Name
      /\ d.act = "create" => task[t].name \in Name
  <2>1. CASE task[t].entry # None
    BY <1>1, <2>1 DEF SaveDecision, SavedDecision, Maybe
  <2>2. CASE task[t].entry = None
    BY <1>1, <2>2, DecisionTyped DEF SaveDecision, SavedDecision
  <2> QED
    BY <2>1, <2>2
<1> HIDE DEF d
<1>3. /\ v \in Verdict /\ v.entry = d.entry /\ v.foreign = d.foreign
      /\ v.act \in {"update", "unchanged"} <=> d.act = "compare"
      /\ v.act \notin {"update", "unchanged"} => v.act = d.act
      /\ v.act = "update" => v.entry \in Name
  BY <1>2, ComparedTyped
<1> HIDE DEF v
<1> QED
  BY <1>2, <1>3 DEF d, v

LEMMA SaveEffect ==
    ASSUME Shaped, NEW t \in Task, Save(t)
    PROVE  Effect(t)
<1> USE DEF Effect, SameData, Waiting
<1>0. /\ task[t] \in TaskRecord /\ TaskOK(task[t]) /\ page \in PageRecord
      /\ task[t].kind = "save" /\ ~task[t].waits /\ task[t].sub \in Sub
  <2>1. task[t] \in TaskRecord /\ TaskOK(task[t]) /\ page \in PageRecord
    BY DEF Shaped, TaskShape, PageShape
  <2>2. ~task[t].waits /\ (task[t].kind = "save" \/ task[t].pc = "write")
    BY DEF Save, SaveBegin, SavePend, SaveUser, SaveDecide, SaveWrite, SaveAnswerLost, SaveEnd, At
  <2>3. task[t].kind \in {"idle", "check", "save"}
    BY <2>1 DEF TaskRecord
  <2> QED
    BY <2>1, <2>2, <2>3 DEF TaskOK, CheckPC
<1>1. CASE SaveBegin(t)
  <2>1. CASE Locked
    BY <1>1, <2>1, AnswerPages DEF SaveBegin
  <2>2. CASE ~Locked
    <3> DEFINE k == Arrived(task[t], "list")
    <3>1. Step(t, task[t], "list") /\ UNCHANGED <<page, stateQueue>>
      BY <1>1, <2>2 DEF SaveBegin
    <3>2. /\ k \in TaskRecord /\ TaskOK(k) /\ k.kind = task[t].kind /\ k.behind = task[t].behind /\ ~k.waits
          /\ k.pc = "list" /\ k.sub = task[t].sub
          /\ k.pending = task[t].pending /\ k.name = task[t].name /\ k.entry = task[t].entry
      BY <1>0, StepTyped
    <3> HIDE DEF k
    <3>3. GoesOn(t, k)
      BY <3>1, <3>2, StepEffect DEF k
    <3>4. Moves(task[t], k)
      BY <1>0, <1>1, <3>2 DEF Moves, SaveBegin, At
    <3> QED
      BY <3>2, <3>3, <3>4
  <2> QED
    BY <2>1, <2>2
<1>2. CASE SavePend(t)
  <2> DEFINE r == task[t].got
             tk == [task[t] EXCEPT !.pending = r]
             k == Awaiting(tk, "user")
  <2>0. r \in Maybe(PendRecord) /\ task[t].pc = "pend"
    BY <1>0, <1>2 DEF SavePend, At, TaskOK
  <2>1. \/ Refused(t) /\ UNCHANGED stateQueue
        \/ /\ r # None /\ r.sub = task[t].sub
           /\ AskFor(t, tk, "user", "getUser") /\ UNCHANGED page
    BY <1>2 DEF SavePend
  <2>2. /\ tk \in TaskRecord /\ tk.kind = "save" /\ tk.behind = task[t].behind /\ tk.sub = task[t].sub
        /\ tk.pending = r /\ tk.name = task[t].name /\ tk.entry = task[t].entry
    BY <1>0, <2>0 DEF TaskRecord
  <2> HIDE DEF tk
  <2>3. /\ k \in TaskRecord /\ TaskOK(k) /\ k.kind = task[t].kind /\ k.behind = task[t].behind /\ k.waits
        /\ k.pc = "user" /\ k.sub = tk.sub
        /\ k.pending = tk.pending /\ k.name = tk.name /\ k.entry = tk.entry
    BY <1>0, <2>2, AskTyped DEF SavePC
  <2> HIDE DEF k
  <2>4. AskFor(t, tk, "user", "getUser") /\ UNCHANGED page => GoesOn(t, k)
    BY <2>3, AskEffect DEF k, Awaits
  <2>5. r # None /\ r.sub = task[t].sub => Moves(task[t], k)
    BY <1>0, <2>0, <2>2, <2>3 DEF Moves
  <2> QED
    BY <2>1, <2>3, <2>4, <2>5, AnswerPages
<1>3. CASE SaveUser(t)
  <2> DEFINE n == IF task[t].name = None THEN task[t].got ELSE task[t].name
             tk == [task[t] EXCEPT !.name = n]
             k == Arrived(tk, "decide")
  <2>1. n \in Maybe(Name) /\ task[t].pc = "user"
    BY <1>0, <1>3 DEF SaveUser, At, TaskOK, TaskRecord
  <2>2. Step(t, tk, "decide") /\ UNCHANGED <<page, stateQueue>>
    BY <1>3 DEF SaveUser
  <2> HIDE DEF n
  <2>3. /\ tk \in TaskRecord /\ tk.kind = "save" /\ ~tk.waits /\ tk.behind = task[t].behind /\ tk.sub = task[t].sub
        /\ tk.pending = task[t].pending /\ tk.name = n /\ tk.entry = task[t].entry
    BY <1>0, <2>1 DEF TaskRecord
  <2> HIDE DEF tk
  <2>4. /\ k \in TaskRecord /\ TaskOK(k) /\ k.kind = task[t].kind /\ k.behind = task[t].behind /\ ~k.waits
        /\ k.pc = "decide" /\ k.sub = tk.sub
        /\ k.pending = tk.pending /\ k.name = tk.name /\ k.entry = tk.entry /\ k.pc # "queued"
    BY <1>0, <2>3, StepTyped
  <2> HIDE DEF k
  <2>5. GoesOn(t, k)
    BY <2>2, <2>4, StepEffect DEF k
  <2>6. Moves(task[t], k)
    BY <1>0, <2>1, <2>3, <2>4 DEF Moves, n
  <2> QED
    BY <2>4, <2>5, <2>6
<1>4. CASE SaveDecide(t)
  <2> DEFINE v == Compared(SaveDecision(t), sub[task[t].sub].secret)
             tk == [task[t] EXCEPT !.verdict = v]
             a == Awaiting(task[t], "clearUser")
             k == Arrived(tk, "write")
  <2>1. \/ Refused(t) /\ UNCHANGED stateQueue
        \/ Failed(t) /\ UNCHANGED stateQueue
        \/ AskFor(t, task[t], "clearUser", "clearUser") /\ UNCHANGED page
        \/ v.act = "update" /\ AskToConfirm(t, v.entry) /\ UNCHANGED stateQueue
        \/ /\ v.act \notin {"unchanged", "ambiguous", "missing"}
           /\ task[t].entry = None => ~NeedsConfirmation(task[t], v)
           /\ Step(t, tk, "write") /\ UNCHANGED <<page, stateQueue>>
    BY <1>4 DEF SaveDecide, SaveDecision, SavedDecision, NeedsConfirmation
  <2>0. task[t].pc = "decide"
    BY <1>4 DEF SaveDecide, At
  <2>2. /\ v \in Verdict /\ (v.act = "update" => v.entry \in Name)
        /\ v.act = "create" => task[t].name \in Name
    BY <1>0, SaveDecisionTyped
  <2>3. /\ a \in TaskRecord /\ TaskOK(a) /\ a.kind = task[t].kind /\ a.behind = task[t].behind /\ a.waits
        /\ a.pc = "clearUser" /\ a.sub = task[t].sub
        /\ a.pending = task[t].pending /\ a.name = task[t].name /\ a.entry = task[t].entry
    BY <1>0, AskTyped DEF SavePC
  <2>7. v = Compared(SavedDecision(task[t]), sub[task[t].sub].secret)
    BY DEF SaveDecision
  <2> HIDE DEF v, a
  <2>4. AskFor(t, task[t], "clearUser", "clearUser") /\ UNCHANGED page => GoesOn(t, a)
    BY <2>3, AskEffect DEF a, Awaits
  <2>6. Moves(task[t], a)
    BY <1>0, <2>0, <2>3 DEF Moves
  <2>5. CASE /\ v.act \notin {"unchanged", "ambiguous", "missing"}
             /\ task[t].entry = None => ~NeedsConfirmation(task[t], v)
             /\ Step(t, tk, "write") /\ UNCHANGED <<page, stateQueue>>
    <3>1. /\ tk \in TaskRecord /\ tk.kind = "save" /\ ~tk.waits /\ tk.behind = task[t].behind
          /\ tk.sub = task[t].sub /\ tk.verdict = v /\ tk.name = task[t].name
          /\ tk.pending = task[t].pending /\ tk.entry = task[t].entry
      BY <1>0, <2>2 DEF TaskRecord, Maybe
    <3>2. v.act \in {"update", "create"}
      BY <2>2, <2>5 DEF Verdict
    <3> HIDE DEF tk
    <3>3. /\ k \in TaskRecord /\ TaskOK(k) /\ k.kind = task[t].kind /\ k.behind = task[t].behind /\ ~k.waits
          /\ k.pc = "write" /\ k.sub = tk.sub /\ k.verdict = tk.verdict /\ k.pc # "queued"
          /\ k.pending = tk.pending /\ k.name = tk.name /\ k.entry = tk.entry
      BY <1>0, <2>2, <3>1, <3>2, StepTyped
    <3> HIDE DEF k
    <3>4. GoesOn(t, k)
      BY <2>5, <3>3, StepEffect DEF k
    <3>5. Moves(task[t], k)
      BY <1>0, <2>0, <2>5, <2>7, <3>1, <3>3 DEF Moves
    <3> QED
      BY <3>3, <3>4, <3>5
  <2> QED
    BY <2>1, <2>2, <2>3, <2>4, <2>5, <2>6, AnswerPages
<1>5. CASE SaveWrite(t)
  <2> DEFINE a == Awaiting(task[t], "clearUser")
  <2>1. \/ Failed(t) /\ UNCHANGED stateQueue
        \/ AskFor(t, task[t], "clearUser", "clearUser") /\ UNCHANGED page
    BY <1>5 DEF SaveWrite
  <2>2. /\ a \in TaskRecord /\ TaskOK(a) /\ a.kind = task[t].kind /\ a.behind = task[t].behind /\ a.waits
        /\ a.pc = "clearUser" /\ a.sub = task[t].sub
        /\ a.pending = task[t].pending /\ a.name = task[t].name /\ a.entry = task[t].entry
    BY <1>0, AskTyped DEF SavePC
  <2> HIDE DEF a
  <2>3. AskFor(t, task[t], "clearUser", "clearUser") /\ UNCHANGED page => GoesOn(t, a)
    BY <2>2, AskEffect DEF a, Awaits
  <2>4. Moves(task[t], a)
    BY <1>0, <1>5, <2>2 DEF Moves, SaveWrite, At
  <2> QED
    BY <2>1, <2>2, <2>3, <2>4, AnswerPages
<1>6. CASE SaveAnswerLost(t)
  BY <1>6, AnswerPages DEF SaveAnswerLost
<1>7. CASE SaveEnd(t)
  <2> DEFINE b == IF page.banner # None /\ page.banner.saving = t THEN None ELSE page.banner
  <2>1. b \in Maybe(Banner)
    BY <1>0 DEF PageRecord, Maybe
  <2>2. Answer(t, [page EXCEPT !.banner = b]) /\ UNCHANGED stateQueue
    BY <1>7 DEF SaveEnd
  <2> HIDE DEF b
  <2> QED
    BY <1>0, <2>1, <2>2, PageTyped, AnswerEffect
<1> QED
  BY <1>1, <1>2, <1>3, <1>4, <1>5, <1>6, <1>7 DEF Save

LEMMA WorkerEffect ==
    ASSUME Shaped, NEW t \in Task, Worker(t)
    PROVE  Effect(t) /\ ~task[t].waits /\ task[t].kind # "idle" /\ (task[t].pc = "queued" => task[t].behind = 0)
<1> USE DEF Effect, SameData, Waiting
<1>0. /\ task[t] \in TaskRecord /\ TaskOK(task[t])
  BY DEF Shaped, TaskShape
<1>1. /\ ~task[t].waits /\ task[t].pc # "idle" /\ (task[t].pc = "queued" => task[t].behind = 0)
  BY <1>0 DEF Worker, Check, CheckBegin, CheckPend, CheckUser, CheckDecide, CheckAgain, CheckUnchanged, Save,
     SaveBegin, SavePend, SaveUser, SaveDecide, SaveWrite, SaveAnswerLost, SaveEnd, List, RequestFails,
     ClearPend, At
<1>2. task[t].kind \in {"check", "save"}
  BY <1>0, <1>1 DEF TaskOK, TaskRecord
<1>3. CASE List(t)
  <2> DEFINE tk == [task[t] EXCEPT !.existing = {n \in Name : vault[n] # None}]
             k == Arrived(tk, "decide")
             a == Awaiting(tk, "pend")
  <2>1. \/ task[t].kind = "check" /\ Step(t, tk, "decide") /\ UNCHANGED <<page, stateQueue>>
        \/ task[t].kind # "check" /\ AskFor(t, tk, "pend", "getPend") /\ UNCHANGED page
    BY <1>3 DEF List
  <2>2. /\ tk \in TaskRecord /\ tk.kind = task[t].kind /\ ~tk.waits /\ tk.behind = task[t].behind
        /\ tk.sub = task[t].sub /\ tk.pending = task[t].pending
        /\ tk.name = task[t].name /\ tk.entry = task[t].entry
    BY <1>0, <1>1 DEF TaskRecord
  <2>3. /\ task[t].kind = "check" => task[t].pending \in PendRecord
        /\ task[t].kind = "save" => task[t].sub \in Sub
        /\ task[t].pc = "list"
    BY <1>0, <1>3 DEF List, At, TaskOK
  <2> HIDE DEF tk
  <2>4. CASE task[t].kind = "check" /\ Step(t, tk, "decide") /\ UNCHANGED <<page, stateQueue>>
    <3>1. /\ k \in TaskRecord /\ TaskOK(k) /\ k.kind = task[t].kind /\ k.behind = task[t].behind /\ ~k.waits
          /\ k.pc = "decide" /\ k.sub = tk.sub /\ k.pc # "queued"
          /\ k.pending = tk.pending /\ k.name = tk.name /\ k.entry = tk.entry
      BY <1>2, <2>2, <2>3, <2>4, StepTyped
    <3> HIDE DEF k
    <3>2. GoesOn(t, k)
      BY <2>4, <3>1, StepEffect DEF k
    <3>3. Moves(task[t], k)
      BY <2>2, <2>3, <2>4, <3>1 DEF Moves
    <3> QED
      BY <1>1, <1>2, <3>1, <3>2, <3>3
  <2>5. CASE task[t].kind # "check" /\ AskFor(t, tk, "pend", "getPend") /\ UNCHANGED page
    <3>1. /\ a \in TaskRecord /\ TaskOK(a) /\ a.kind = task[t].kind /\ a.behind = task[t].behind /\ a.waits
          /\ a.pc = "pend" /\ a.sub = tk.sub
          /\ a.pending = tk.pending /\ a.name = tk.name /\ a.entry = tk.entry
      BY <1>2, <2>2, <2>3, <2>5, AskTyped DEF SavePC
    <3> HIDE DEF a
    <3>2. GoesOn(t, a)
      BY <2>5, <3>1, AskEffect DEF a, Awaits
    <3>3. Moves(task[t], a)
      BY <2>2, <2>3, <2>5, <3>1 DEF Moves
    <3> QED
      BY <1>1, <1>2, <3>1, <3>2, <3>3
  <2> QED
    BY <2>1, <2>4, <2>5
<1>4. CASE RequestFails(t)
  BY <1>1, <1>2, <1>4, AnswerPages DEF RequestFails
<1>5. CASE ClearPend(t)
  <2> DEFINE a == Awaiting(task[t], "clearPend")
  <2>1. AskFor(t, task[t], "clearPend", "clearPend") /\ UNCHANGED page
    BY <1>5 DEF ClearPend
  <2>2. task[t].sub \in Sub
    BY <1>0, <1>5 DEF ClearPend, At, TaskOK
  <2>3. /\ a \in TaskRecord /\ TaskOK(a) /\ a.kind = task[t].kind /\ a.behind = task[t].behind /\ a.waits
        /\ a.pc = "clearPend" /\ a.sub = task[t].sub
        /\ a.pending = task[t].pending /\ a.name = task[t].name /\ a.entry = task[t].entry
    BY <1>0, <1>2, <2>2, AskTyped DEF SavePC
  <2> HIDE DEF a
  <2>4. GoesOn(t, a)
    BY <2>1, <2>3, AskEffect DEF a, Awaits
  <2>5. Moves(task[t], a)
    BY <1>0, <1>5, <2>3 DEF Moves, ClearPend, At
  <2> QED
    BY <1>1, <1>2, <2>3, <2>4, <2>5
<1> QED
  BY <1>1, <1>2, <1>3, <1>4, <1>5, CheckEffect, SaveEffect DEF Worker

(***************************************************************************)
(* The types are inductive: the steps of tasks                             *)
(***************************************************************************)
\* Messages are added that have not begun.
Added(ms) ==
    /\ msgs' = msgs \o ms
    /\ ms \in Seq(MsgRecord)
    /\ \A i \in DOMAIN ms : MsgOK(ms[i]) /\ ms[i].pc = "new"

\* What a message that is sent in a step is about.
Sent(m) ==
    /\ m.pc = "new" /\ ~m.waits
    /\ m.kind = "clear" => \/ m.sub \in settled'
                           \/ \E t \in Task : task[t].pc = "clearPend" /\ task[t].sub = m.sub
    /\ m.kind = "user" => <<None, m.name>> \in consent'
    /\ m.kind = "creds" => /\ sub[m.sub] = None /\ sub'[m.sub] \in Content /\ sub'[m.sub].name = m.name
                           /\ m.name # None => <<m.sub, m.name>> \in consent'
                           /\ page'.latest = m.sub /\ page'.banner = None /\ page'.listening = None

Sends(ms) == Added(ms) /\ \A i \in DOMAIN ms : Sent(ms[i])

LEMMA AddedTyped ==
    ASSUME MsgShape, NEW ms, Added(ms)
    PROVE  MsgShape' /\ MsgKeepsWaiting /\ Len(msgs') = Len(msgs) + Len(ms) /\ Len(ms) \in Nat /\ Len(msgs) \in Nat
<1>1. /\ msgs \in Seq(MsgRecord) /\ ms \in Seq(MsgRecord) /\ msgs' = msgs \o ms
      /\ \A i \in DOMAIN msgs : MsgOK(msgs[i]) /\ (i > 1 => msgs[i].pc = "new")
      /\ \A i \in DOMAIN ms : MsgOK(ms[i]) /\ ms[i].pc = "new"
  BY DEF MsgShape, Added
<1>2. msgs' \in Seq(MsgRecord) /\ Len(msgs') = Len(msgs) + Len(ms) /\ Len(msgs) \in Nat /\ Len(ms) \in Nat
  BY <1>1
<1>3. \A i \in 1 .. Len(msgs) : i \in DOMAIN msgs /\ msgs'[i] = msgs[i]
  BY <1>1
<1>4. \A i \in Len(msgs) + 1 .. Len(msgs) + Len(ms) :
          i - Len(msgs) \in DOMAIN ms /\ msgs'[i] = ms[i - Len(msgs)]
  BY <1>1
<1>5. ASSUME NEW i \in DOMAIN msgs'
      PROVE  MsgOK(msgs'[i]) /\ (i > 1 => msgs'[i].pc = "new")
  <2>1. CASE i \in 1 .. Len(msgs)
    BY <1>1, <1>3, <2>1
  <2>2. CASE i \in Len(msgs) + 1 .. Len(msgs) + Len(ms)
    BY <1>1, <1>4, <2>2
  <2> QED
    BY <1>2, <2>1, <2>2
<1>6. MsgKeepsWaiting
  <2>1. CASE msgs # <<>>
    <3>1. 1 \in 1 .. Len(msgs) /\ msgs' # <<>>
      BY <1>1, <1>2, <2>1
    <3> QED
      BY <1>3, <3>1 DEF MsgKeepsWaiting
  <2> QED
    BY <2>1 DEF MsgKeepsWaiting
<1> QED
  BY <1>2, <1>5, <1>6 DEF MsgShape

LEMMA NoneAdded == MsgShape /\ UNCHANGED msgs => MsgShape' /\ MsgKeepsWaiting
  BY DEF MsgShape, MsgKeepsWaiting

\* A message that was just sent.
Fresh(m, kind, s, n) ==
    /\ m \in MsgRecord /\ MsgOK(m) /\ m.pc = "new" /\ ~m.waits
    /\ m.kind = kind /\ m.sub = s /\ m.name = n /\ m.gen = generation

LEMMA MessageTyped ==
    ASSUME SessionShape, NEW kind \in {"creds", "mark", "clear", "user", "clearUser"}, NEW s \in Maybe(Sub),
           NEW n \in Maybe(Name),
           kind \in {"creds", "mark", "clear"} => s \in Sub, kind = "user" => n \in Name
    PROVE  Fresh(Message(kind, s, n, TRUE), kind, s, n) /\ Fresh(Message(kind, s, n, FALSE), kind, s, n)
  BY DEF Fresh, SessionShape, Message, MsgRecord, MsgOK, Maybe, Got

LEMMA WrittenKept ==
    ASSUME Written, UNCHANGED writing, stateQueue \in Seq(Op),
           stateQueue' = stateQueue \/ \E op \in Op : stateQueue' = Append(stateQueue, op)
    PROVE  Written'
<1>1. stateQueue # <<>> => stateQueue' # <<>> /\ Head(stateQueue') = Head(stateQueue)
  OBVIOUS
<1> QED
  BY <1>1 DEF Written

LEMMA AskOpTyped ==
    ASSUME SessionShape, NEW t \in Task, NEW k \in TaskRecord, TaskOK(k), k.waits,
           NEW op, op = [by |-> t, kind |-> Awaits(k.pc), gen |-> generation, sub |-> k.sub, name |-> None]
    PROVE  /\ op \in Op /\ OpOK(op) /\ op.by = t /\ op.kind = Awaits(k.pc) /\ op.sub = k.sub
           /\ op.gen = generation /\ op.kind \in {"getPend", "getUser", "clearUser", "clearPend"}
<1>1. /\ op.by = t /\ op.kind = Awaits(k.pc) /\ op.sub = k.sub /\ op.gen = generation
      /\ op.kind \in {"getPend", "getUser", "clearUser", "clearPend"}
      /\ op.kind = "clearPend" => k.sub \in Sub
  BY DEF Awaits, TaskOK
<1>2. op \in Op
  BY <1>1 DEF SessionShape, Op, Kinds, TaskRecord, Maybe
<1> QED
  BY <1>1, <1>2, ConstantAssumption DEF OpOK

\* Whatever the messages do meanwhile.
LEMMA EffectTyped ==
    ASSUME Typed, NEW t \in Task, Effect(t), ~task[t].waits, task[t].kind # "idle",
           UNCHANGED <<generation, writing>>, MsgShape', MsgKeepsWaiting, Len(msgs') >= Len(msgs)
    PROVE  TaskShape' /\ PageShape' /\ QueueShape' /\ Asked' /\ Written'
<1>0. /\ SessionShape /\ QueueShape /\ MsgShape /\ TaskShape /\ PageShape /\ Asked /\ Written
      /\ None \notin Task /\ Len(msgs) \in Nat /\ Len(msgs') \in Nat
  BY ConstantAssumption DEF Typed, Shaped, MsgShape
<1>1. /\ task \in [Task -> TaskRecord] /\ page \in PageRecord /\ page.listening \in Maybe(Task)
      /\ page.listening # None => task[page.listening].kind = "check"
      /\ \A u \in Task : TaskOK(task[u]) /\ task[u].behind \in 0 .. Len(msgs)
      /\ stateQueue \in Seq(Op)
  BY <1>0 DEF TaskShape, PageShape, PageRecord, QueueShape
<1>2. CASE Answers(t)
  <2>1. task' = [task EXCEPT ![t] = IdleTask] /\ UNCHANGED stateQueue
    BY <1>2 DEF Answers
  <2>2. TaskShape'
    BY <1>0, <1>1, <2>1, IdleTyped DEF TaskShape
  <2>3. PageShape'
    <3>1. page'.listening = IF page.listening = t THEN None ELSE page.listening
      BY <1>2 DEF Answers
    <3>2. page' \in PageRecord
      BY <1>2 DEF Answers
    <3>3. page'.listening # None => task'[page'.listening].kind = "check"
      BY <1>0, <1>1, <2>1, <3>1 DEF Maybe
    <3> QED
      BY <3>2, <3>3 DEF PageShape
  <2>4. \A u \in Task : KeepsWaiting(u)
    BY <1>1, <2>1 DEF KeepsWaiting
  <2>5. Asked'
    BY <1>0, <2>1, <2>4, AskedSame
  <2>6. QueueShape' /\ Written'
    BY <1>0, <2>1, WrittenKept DEF QueueShape
  <2> QED
    BY <2>2, <2>3, <2>5, <2>6
<1>3. ASSUME NEW k \in TaskRecord, GoesOn(t, k)
      PROVE  TaskShape' /\ PageShape' /\ QueueShape' /\ Asked' /\ Written'
  <2>1. /\ task' = [task EXCEPT ![t] = k] /\ TaskOK(k) /\ k.kind = task[t].kind /\ k.behind = task[t].behind
        /\ UNCHANGED page
    BY <1>3 DEF GoesOn
  <2>2. TaskShape'
    BY <1>0, <1>1, <2>1 DEF TaskShape
  <2>3. PageShape'
    BY <1>0, <1>1, <2>1 DEF PageShape, Maybe
  <2>4. \A u \in Task : KeepsWaiting(u)
    BY <1>1, <2>1 DEF KeepsWaiting
  <2>5. CASE ~k.waits
    <3>1. UNCHANGED stateQueue
      BY <1>3, <2>5 DEF GoesOn
    <3>2. Asked'
      BY <1>0, <2>4, <3>1, AskedSame
    <3>3. QueueShape' /\ Written'
      BY <1>0, <3>1, WrittenKept DEF QueueShape
    <3> QED
      BY <2>2, <2>3, <3>2, <3>3
  <2>6. CASE k.waits
    <3> DEFINE op == [by |-> t, kind |-> Awaits(k.pc), gen |-> generation, sub |-> k.sub, name |-> None]
    <3>1. stateQueue' = Append(stateQueue, op)
      BY <1>3, <2>6 DEF GoesOn
    <3>2. op \in Op /\ OpOK(op) /\ op.by = t /\ op.kind = Awaits(k.pc) /\ op.sub = k.sub
      BY <1>0, <2>1, <2>6, AskOpTyped
    <3> HIDE DEF op
    <3>3. t # "msg" /\ task'[t] = k
      BY <1>1, <2>1, ConstantAssumption
    <3>4. Asked'
      BY <1>0, <1>1, <2>4, <2>6, <3>1, <3>2, <3>3, AskedAppend
    <3>5. QueueShape'
      BY <1>0, <1>1, <3>1, <3>2 DEF QueueShape
    <3>6. Written'
      BY <1>0, <1>1, <3>1, <3>2, WrittenKept
    <3> QED
      BY <2>2, <2>3, <3>4, <3>5, <3>6
  <2> QED
    BY <2>5, <2>6
<1> QED
  BY <1>2, <1>3 DEF Effect

LEMMA ActTyped ==
    ASSUME SessionShape, NEW a, Act(a)
    PROVE  acts' \in 0 .. scene.acts /\ UNCHANGED scene /\ Calm
<1>1. scene.acts \in Nat
  BY ConstantAssumption DEF SessionShape
<1> QED
  BY <1>1 DEF SessionShape, Act

\* The messages a worker's step adds: those that dismissBanner sends.
LEMMA WorkerMessages ==
    ASSUME Shaped, NEW t \in Task, Worker(t)
    PROVE  \/ UNCHANGED msgs
           \/ /\ SaveEnd(t) /\ task[t].sub \in Sub
              /\ Added(<<Message("clear", task[t].sub, None, FALSE), Message("clearUser", None, None, FALSE)>>)
<1>1. CASE SaveEnd(t) /\ task[t].heard
  <2> DEFINE a == Message("clear", task[t].sub, None, FALSE)
             b == Message("clearUser", None, None, FALSE)
  <2>1. task[t].sub \in Sub
    BY <1>1 DEF SaveEnd, At, Shaped, TaskShape, TaskOK
  <2>2. /\ a \in MsgRecord /\ MsgOK(a) /\ a.pc = "new"
        /\ b \in MsgRecord /\ MsgOK(b) /\ b.pc = "new"
    <3>1. SessionShape /\ None \in Maybe(Sub) /\ None \in Maybe(Name) /\ task[t].sub \in Maybe(Sub)
      BY <2>1 DEF Shaped, Maybe
    <3>2. Fresh(a, "clear", task[t].sub, None)
      BY <2>1, <3>1, MessageTyped
    <3>3. Fresh(b, "clearUser", None, None)
      BY <3>1, MessageTyped
    <3> HIDE DEF a, b
    <3> QED
      BY <3>2, <3>3 DEF Fresh
  <2>3. msgs' = msgs \o <<a, b>>
    BY <1>1 DEF SaveEnd
  <2> HIDE DEF a, b
  <2>4. Added(<<a, b>>)
    <3>1. <<a, b>> \in Seq(MsgRecord) /\ DOMAIN <<a, b>> = 1 .. 2
      BY <2>2
    <3>2. ASSUME NEW i \in 1 .. 2
          PROVE  MsgOK(<<a, b>>[i]) /\ <<a, b>>[i].pc = "new"
      <4>1. i = 1 \/ i = 2
        OBVIOUS
      <4> QED
        BY <2>2, <4>1
    <3> QED
      BY <2>3, <3>1, <3>2 DEF Added
  <2> QED
    BY <1>1, <2>1, <2>4 DEF a, b
<1>2. CASE ~(SaveEnd(t) /\ task[t].heard)
  BY <1>2 DEF Worker, Check, CheckBegin, CheckPend, CheckUser, CheckDecide, CheckAgain, CheckUnchanged, Save,
     SaveBegin, SavePend, SaveUser, SaveDecide, SaveWrite, SaveAnswerLost, SaveEnd, List, RequestFails,
     ClearPend
<1> QED
  BY <1>1, <1>2

\* What no step of a task changes, and the logins that a step names.
LEMMA WorkerKeeps ==
    ASSUME Shaped, NEW t \in Task, Worker(t)
    PROVE  /\ UNCHANGED <<sessionVars, recordVars, sub, captured, scene>>
           /\ acts' \in 0 .. scene.acts
           /\ settled' \subseteq Sub /\ settled \subseteq settled'
           /\ consent' \subseteq Maybe(Sub) \X Name /\ consent \subseteq consent'
<1>0. /\ task[t] \in TaskRecord /\ TaskOK(task[t]) /\ acts \in 0 .. scene.acts
      /\ settled \subseteq Sub /\ consent \subseteq Maybe(Sub) \X Name /\ SessionShape
  BY DEF Shaped, TaskShape, SessionShape, RecordShape
<1>1. CASE RequestFails(t) \/ SaveAnswerLost(t)
  <2>1. acts' \in 0 .. scene.acts /\ UNCHANGED scene
    BY <1>0, <1>1, ActTyped DEF RequestFails, SaveAnswerLost, bounds
  <2> QED
    BY <1>0, <1>1, <2>1 DEF RequestFails, SaveAnswerLost, sessionVars, recordVars, history
<1>2. CASE ClearPend(t)
  <2>1. task[t].sub \in Sub
    BY <1>0, <1>2 DEF ClearPend, At, TaskOK
  <2> QED
    BY <1>0, <1>2, <2>1 DEF ClearPend, sessionVars, recordVars, bounds
<1>3. CASE CheckAgain(t)
  <2>1. task[t].pending.sub \in Maybe(Sub) /\ (task[t].verdict.act = "update" => task[t].verdict.entry \in Name)
    BY <1>0, <1>3 DEF CheckAgain, At, TaskOK, PendRecord, Maybe
  <2>2. consent' \in {consent, consent \cup {<<task[t].pending.sub, task[t].verdict.entry>>}}
        /\ (consent' # consent => task[t].verdict.act = "update")
    BY <1>3 DEF CheckAgain
  <2> QED
    BY <1>0, <1>3, <2>1, <2>2 DEF CheckAgain, sessionVars, recordVars, bounds
<1>4. CASE SaveDecide(t)
  <2> DEFINE v == Compared(SaveDecision(t), sub[task[t].sub].secret)
  <2>1. UNCHANGED consent \/ (v.act = "update" /\ AskToConfirm(t, v.entry))
    BY <1>4 DEF SaveDecide, SaveDecision, SavedDecision, NeedsConfirmation
  <2>2. v.act = "update" => v.entry \in Name
    BY <1>0, SaveDecisionTyped
  <2> HIDE DEF v
  <2>3. consent' \in {consent, consent \cup {<<task[t].sub, v.entry>>}} /\ (consent' # consent => v.act = "update")
    BY <2>1 DEF AskToConfirm
  <2>4. task[t].sub \in Maybe(Sub)
    BY <1>0 DEF TaskRecord
  <2> QED
    BY <1>0, <1>4, <2>2, <2>3, <2>4 DEF SaveDecide, sessionVars, recordVars, bounds
<1>5. CASE \/ CheckBegin(t) \/ CheckPend(t) \/ CheckUser(t) \/ CheckDecide(t) \/ CheckUnchanged(t)
           \/ SaveBegin(t) \/ SavePend(t) \/ SaveUser(t) \/ SaveWrite(t) \/ SaveEnd(t) \/ List(t)
  BY <1>0, <1>5 DEF CheckBegin, CheckPend, CheckUser, CheckDecide, CheckUnchanged, SaveBegin, SavePend,
     SaveUser, SaveWrite, SaveEnd, List, sessionVars, recordVars, history, bounds
<1> QED
  BY <1>1, <1>2, <1>3, <1>4, <1>5 DEF Worker, Check, Save

LEMMA WorkerTyped ==
    ASSUME Typed, NEW t \in Task, Worker(t)
    PROVE  Typed'
<1>0. Shaped
  BY DEF Typed
<1>1. MsgShape' /\ MsgKeepsWaiting /\ Len(msgs') >= Len(msgs)
  <2>1. MsgShape /\ Len(msgs) \in Nat
    BY <1>0 DEF Shaped, MsgShape
  <2>2. CASE UNCHANGED msgs
    BY <2>1, <2>2, NoneAdded
  <2>3. ASSUME NEW ms, Added(ms)
        PROVE  MsgShape' /\ MsgKeepsWaiting /\ Len(msgs') >= Len(msgs)
    BY <2>1, <2>3, AddedTyped
  <2> QED
    BY <1>0, <2>2, <2>3, WorkerMessages
<1>2. /\ UNCHANGED <<sessionVars, recordVars, sub, captured, scene>>
      /\ acts' \in 0 .. scene.acts
      /\ settled' \subseteq Sub /\ consent' \subseteq Maybe(Sub) \X Name
  BY <1>0, WorkerKeeps
<1>3. SessionShape' /\ RecordShape'
  BY <1>0, <1>2 DEF Shaped, SessionShape, RecordShape, sessionVars, recordVars, Locked
<1>4. TaskShape' /\ PageShape' /\ QueueShape' /\ Asked' /\ Written'
  BY <1>0, <1>1, <1>2, WorkerEffect, EffectTyped DEF sessionVars, recordVars
<1> QED
  BY <1>1, <1>3, <1>4 DEF Typed, Shaped

(***************************************************************************)
(* The types are inductive: the page and the user                          *)
(***************************************************************************)
\* The same task, but for the messages before it and whether it is heard.
SameTask(k, l) ==
    /\ l \in TaskRecord
    /\ l.kind = k.kind /\ l.pc = k.pc /\ l.waits = k.waits /\ l.got = k.got /\ l.sub = k.sub
    /\ l.pending = k.pending /\ l.name = k.name /\ l.entry = k.entry /\ l.existing = k.existing
    /\ l.verdict = k.verdict

LEMMA SameTaskOK ==
    ASSUME NEW k, NEW l, SameTask(k, l), TaskOK(k)
    PROVE  TaskOK(l)
  BY DEF SameTask, TaskOK

LEMMA DocumentTyped ==
    ASSUME NEW u \in Url
    PROVE  /\ Document(u) \in PageRecord /\ Document(u).listening = None /\ Document(u).banner = None
           /\ Document(u).latest = None /\ Document(u).url = u
  BY DEF Document, PageRecord, Maybe

\* A check begins, in a page pg, when the tasks are those of ts.
LEMMA BeginTyped ==
    ASSUME NEW t \in Task, NEW pg \in PageRecord, NEW ts \in [Task -> TaskRecord],
           NEW m \in BOOLEAN, NEW s \in Maybe(Sub), NEW a \in 0 .. 2, NEW e \in Nat,
           BeginCheck(pg, ts, t, m, s, a, e)
    PROVE  /\ ts[t].pc = "idle"
           /\ \E k \in TaskRecord :
                /\ task' = [ts EXCEPT ![t] = k] /\ TaskOK(k) /\ k.kind = "check" /\ k.pc = "queued"
                /\ ~k.waits /\ k.behind = e /\ k.pending = None /\ k.sub = s
           /\ page' \in PageRecord /\ page'.listening = t /\ page'.latest = pg.latest
           /\ page'.banner = pg.banner
<1> DEFINE k == NewCheck(pg.url, m, s, a, e)
<1>1. task' = [ts EXCEPT ![t] = k] /\ ts[t].pc = "idle"
  BY DEF BeginCheck, Behind, NewCheck
<1>2. /\ k \in TaskRecord /\ TaskOK(k) /\ k.kind = "check" /\ k.pc = "queued"
      /\ ~k.waits /\ k.behind = e /\ k.pending = None /\ k.sub = s
  <2>1. pg.url \in Url
    BY DEF PageRecord
  <2> QED
    BY <2>1, CheckTyped
<1> HIDE DEF k
<1>3. /\ page' \in PageRecord /\ page'.listening = t /\ page'.latest = pg.latest
      /\ page'.banner = pg.banner
  <2>1. t \in Maybe(Task) /\ None \in Maybe(Retry)
    BY DEF Maybe
  <2> QED
    BY <2>1 DEF BeginCheck, PageRecord
<1> QED
  BY <1>1, <1>2, <1>3

LEMMA OneAdded ==
    ASSUME MsgShape, NEW m \in MsgRecord, MsgOK(m), m.pc = "new", msgs' = Append(msgs, m)
    PROVE  Added(<<m>>)
<1>1. msgs \in Seq(MsgRecord)
  BY DEF MsgShape
<1>2. msgs' = msgs \o <<m>>
  BY <1>1
<1>3. <<m>> \in Seq(MsgRecord) /\ DOMAIN <<m>> = {1} /\ <<m>>[1] = m
  OBVIOUS
<1> QED
  BY <1>2, <1>3 DEF Added

LEMMA TwoAdded ==
    ASSUME NEW a \in MsgRecord, MsgOK(a), a.pc = "new", NEW b \in MsgRecord, MsgOK(b), b.pc = "new",
           msgs' = msgs \o <<a, b>>
    PROVE  Added(<<a, b>>)
<1>1. <<a, b>> \in Seq(MsgRecord) /\ DOMAIN <<a, b>> = 1 .. 2
  OBVIOUS
<1>2. ASSUME NEW i \in 1 .. 2
      PROVE  MsgOK(<<a, b>>[i]) /\ <<a, b>>[i].pc = "new"
  <2>1. i = 1 \/ i = 2
    OBVIOUS
  <2> QED
    BY <2>1
<1> QED
  BY <1>1, <1>2 DEF Added

\* The tasks are the same, and the page awaits no other check than before.
LEMMA SameTasksTyped ==
    ASSUME Typed, UNCHANGED <<writing, stateQueue>>, MsgShape', MsgKeepsWaiting,
           task' \in [Task -> TaskRecord],
           \A u \in Task : SameTask(task[u], task'[u]) /\ task'[u].behind \in 0 .. Len(msgs'),
           page' \in PageRecord, page'.listening \in {None, page.listening}
    PROVE  TaskShape' /\ PageShape' /\ QueueShape' /\ Asked' /\ Written'
<1>0. /\ QueueShape /\ TaskShape /\ PageShape /\ Asked /\ Written /\ stateQueue \in Seq(Op)
      /\ page.listening \in Maybe(Task)
  BY DEF Typed, Shaped, QueueShape, PageShape, PageRecord
<1>1. TaskShape'
  BY <1>0, SameTaskOK DEF TaskShape
<1>2. PageShape'
  <2>1. page'.listening # None => page'.listening \in Task /\ task[page'.listening].kind = "check"
    BY <1>0 DEF PageShape, Maybe
  <2> QED
    BY <2>1 DEF PageShape, SameTask
<1>3. \A u \in Task : KeepsWaiting(u)
  BY DEF KeepsWaiting, SameTask
<1>4. Asked'
  BY <1>0, <1>3, AskedSame
<1>5. QueueShape' /\ Written'
  BY <1>0, WrittenKept DEF QueueShape
<1> QED
  BY <1>1, <1>2, <1>4, <1>5

\* A check has begun, and the other tasks are the same.
LEMMA BeganTyped ==
    ASSUME Typed, UNCHANGED <<writing, stateQueue>>, MsgShape', MsgKeepsWaiting,
           NEW t \in Task, NEW ts \in [Task -> TaskRecord],
           \A u \in Task : SameTask(task[u], ts[u]) /\ ts[u].behind \in 0 .. Len(msgs'),
           ts[t].pc = "idle", NEW k \in TaskRecord, task' = [ts EXCEPT ![t] = k], TaskOK(k),
           k.kind = "check", k.behind \in 0 .. Len(msgs'), page' \in PageRecord, page'.listening = t
    PROVE  TaskShape' /\ PageShape' /\ QueueShape' /\ Asked' /\ Written'
<1>0. /\ QueueShape /\ TaskShape /\ PageShape /\ Asked /\ Written /\ stateQueue \in Seq(Op)
  BY DEF Typed, Shaped, QueueShape
<1>1. TaskShape'
  BY <1>0, SameTaskOK DEF TaskShape
<1>2. PageShape'
  BY DEF PageShape
<1>3. ASSUME NEW u \in Task
      PROVE  KeepsWaiting(u)
  <2>1. CASE u = t
    <3>1. task[u].pc = "idle" /\ TaskOK(task[u])
      BY <1>0, <2>1 DEF SameTask, TaskShape
    <3> QED
      BY <3>1 DEF KeepsWaiting, TaskOK
  <2>2. CASE u # t
    BY <2>2 DEF KeepsWaiting, SameTask
  <2> QED
    BY <2>1, <2>2
<1>4. Asked'
  BY <1>0, <1>3, AskedSame
<1>5. QueueShape' /\ Written'
  BY <1>0, WrittenKept DEF QueueShape
<1> QED
  BY <1>1, <1>2, <1>4, <1>5

\* The same with the action that begins the check.
LEMMA BeginsTyped ==
    ASSUME Typed, UNCHANGED <<writing, stateQueue>>, MsgShape', MsgKeepsWaiting,
           NEW t \in Task, NEW ts \in [Task -> TaskRecord],
           \A u \in Task : SameTask(task[u], ts[u]) /\ ts[u].behind \in 0 .. Len(msgs'),
           NEW pg \in PageRecord, NEW m \in BOOLEAN, NEW s \in Maybe(Sub), NEW a \in 0 .. 2,
           NEW e \in 0 .. Len(msgs'), Len(msgs') \in Nat, BeginCheck(pg, ts, t, m, s, a, e)
    PROVE  TaskShape' /\ PageShape' /\ QueueShape' /\ Asked' /\ Written'
<1>1. e \in Nat
  OBVIOUS
<1>2. /\ ts[t].pc = "idle"
      /\ \E k \in TaskRecord :
           /\ task' = [ts EXCEPT ![t] = k] /\ TaskOK(k) /\ k.kind = "check" /\ k.behind = e
      /\ page' \in PageRecord /\ page'.listening = t
  BY <1>1, BeginTyped
<1>3. PICK k \in TaskRecord : task' = [ts EXCEPT ![t] = k] /\ TaskOK(k) /\ k.kind = "check" /\ k.behind = e
  BY <1>2
<1> QED
  BY <1>2, <1>3, BeganTyped

LEMMA TasksAsTheyAre ==
    ASSUME TaskShape, NEW n \in Nat, n >= Len(msgs), Len(msgs) \in Nat
    PROVE  /\ task \in [Task -> TaskRecord]
           /\ \A u \in Task : SameTask(task[u], task[u]) /\ task[u].behind \in 0 .. n
  BY DEF TaskShape, SameTask

LEMMA OneSent ==
    ASSUME MsgShape, NEW m, Sent(m), NEW kind, NEW s, NEW n, Fresh(m, kind, s, n), msgs' = Append(msgs, m)
    PROVE  Sends(<<m>>)
<1>1. Added(<<m>>)
  BY OneAdded DEF Fresh
<1>2. \A i \in DOMAIN <<m>> : <<m>>[i] = m
  OBVIOUS
<1> QED
  BY <1>1, <1>2 DEF Sends

LEMMA TwoSent ==
    ASSUME NEW a, NEW b, Added(<<a, b>>), Sent(a), Sent(b)
    PROVE  Sends(<<a, b>>)
<1>1. \A i \in DOMAIN <<a, b>> : <<a, b>>[i] = a \/ <<a, b>>[i] = b
  OBVIOUS
<1> QED
  BY <1>1 DEF Sends

\* The actions of the page and the user that begin no check or save.
PageAct ==
    \/ \E s \in Sub, f \in Form : Submit(s, f)
    \/ \E n \in Name : TypeName(n)
    \/ Transition \/ TimersEnd \/ StatusDismiss \/ StatusExpires \/ BannerDismiss

LEMMA SubmitKeeps ==
    ASSUME Shaped, NEW s \in Sub, NEW f \in Form, Submit(s, f)
    PROVE  /\ page' \in PageRecord /\ page'.listening = None /\ page'.banner = None /\ page'.latest = s
           /\ Fresh(Message("creds", s, f.name, TRUE), "creds", s, f.name)
           /\ Added(<<Message("creds", s, f.name, TRUE)>>)
           /\ sub[s] = None
           /\ sub' = [sub EXCEPT ![s] = [name |-> f.name, secret |-> f.secret, change |-> f.change, url |-> page.url]]
           /\ sub'[s] \in Content /\ sub'[s].name = f.name
           /\ f.name \in Maybe(Name)
<1>0. /\ f.name \in Maybe(Name) /\ f.secret \in Secret /\ f.change \in BOOLEAN /\ page.url \in Url
      /\ SessionShape /\ MsgShape /\ sub \in [Sub -> Maybe(Content)] /\ s \in Maybe(Sub)
  BY ConstantAssumption DEF Shaped, PageShape, PageRecord, RecordShape, Maybe
<1>1. /\ page' \in PageRecord /\ page'.listening = None /\ page'.banner = None /\ page'.latest = s
  <2>1. /\ Document(page.url) \in PageRecord /\ Document(page.url).listening = None
        /\ Document(page.url).banner = None
    BY <1>0, DocumentTyped
  <2>2. page' = [Document(page.url) EXCEPT !.latest = s, !.storing = TRUE, !.armed = s]
    BY DEF Submit
  <2> QED
    BY <1>0, <2>1, <2>2 DEF PageRecord
<1>2. Fresh(Message("creds", s, f.name, TRUE), "creds", s, f.name)
  BY <1>0, MessageTyped
<1>3. Added(<<Message("creds", s, f.name, TRUE)>>)
  <2>1. msgs' = Append(msgs, Message("creds", s, f.name, TRUE))
    BY DEF Submit
  <2> QED
    BY <1>0, <1>2, <2>1, OneAdded DEF Fresh
<1>4. sub[s] = None
  BY DEF Submit
<1>5. sub' = [sub EXCEPT ![s] = [name |-> f.name, secret |-> f.secret, change |-> f.change, url |-> page.url]]
  BY DEF Submit
<1>6. sub'[s] \in Content /\ sub'[s].name = f.name
  BY <1>0, <1>5 DEF Content, Maybe
<1> QED
  BY <1>0, <1>1, <1>2, <1>3, <1>4, <1>5, <1>6

LEMMA PageActKeeps ==
    ASSUME Shaped, PageAct
    PROVE  /\ UNCHANGED <<sessionVars, recordVars, stateQueue, task, captured, scene>>
           /\ acts' \in 0 .. scene.acts
           /\ sub' \in [Sub -> Maybe(Content)] /\ \A s \in Sub : sub[s] # None => sub'[s] = sub[s]
           /\ settled' \subseteq Sub /\ settled \subseteq settled'
           /\ consent' \subseteq Maybe(Sub) \X Name /\ consent \subseteq consent'
           /\ page' \in PageRecord /\ page'.listening \in {None, page.listening}
           /\ UNCHANGED msgs \/ \E ms : Sends(ms)
<1>0. /\ SessionShape /\ MsgShape /\ sub \in [Sub -> Maybe(Content)] /\ page \in PageRecord
      /\ acts \in 0 .. scene.acts /\ settled \subseteq Sub /\ consent \subseteq Maybe(Sub) \X Name
      /\ None \in Maybe(Sub) /\ None \in Maybe(Name) /\ None \in Maybe(Task) /\ None \in Maybe(Retry)
      /\ None \in Maybe(Status) /\ None \in Maybe(Banner)
      /\ page.timer \in Maybe(Sub) /\ page.status \in Maybe(Status) /\ page.banner \in Maybe(Banner)
  BY DEF Shaped, SessionShape, RecordShape, PageShape, PageRecord, Maybe
<1>1. ASSUME NEW s \in Sub, NEW f \in Form, Submit(s, f)
      PROVE  /\ UNCHANGED <<sessionVars, recordVars, stateQueue, task, captured, scene, acts, settled>>
             /\ sub' \in [Sub -> Maybe(Content)] /\ \A r \in Sub : sub[r] # None => sub'[r] = sub[r]
             /\ consent' \subseteq Maybe(Sub) \X Name /\ consent \subseteq consent'
             /\ page' \in PageRecord /\ page'.listening \in {None, page.listening}
             /\ \E ms : Sends(ms)
  <2>1. /\ page' \in PageRecord /\ page'.listening = None
        /\ Fresh(Message("creds", s, f.name, TRUE), "creds", s, f.name)
        /\ page'.latest = s /\ page'.banner = None /\ sub[s] = None /\ sub'[s].name = f.name
        /\ Added(<<Message("creds", s, f.name, TRUE)>>)
        /\ sub' = [sub EXCEPT ![s] = [name |-> f.name, secret |-> f.secret, change |-> f.change, url |-> page.url]]
        /\ sub'[s] \in Content
        /\ f.name \in Maybe(Name)
    BY <1>1, SubmitKeeps
  <2>2. sub' \in [Sub -> Maybe(Content)] /\ \A r \in Sub : sub[r] # None => sub'[r] = sub[r]
    BY <1>0, <2>1 DEF Maybe
  <2>3. /\ consent' \subseteq Maybe(Sub) \X Name /\ consent \subseteq consent'
        /\ f.name # None => <<s, f.name>> \in consent'
    BY <1>0, <1>1, <2>1 DEF Submit, Maybe
  <2> DEFINE m == Message("creds", s, f.name, TRUE)
  <2>4. msgs' = Append(msgs, m)
    BY <1>1 DEF Submit
  <2>5. Sent(m)
    <3>1. Fresh(m, "creds", s, f.name)
      BY <2>1
    <3> HIDE DEF m
    <3> QED
      BY <2>1, <2>3, <3>1 DEF Sent, Fresh
  <2>6. Sends(<<m>>)
    <3>1. Fresh(m, "creds", s, f.name)
      BY <2>1
    <3> HIDE DEF m
    <3> QED
      BY <1>0, <2>4, <2>5, <3>1, OneSent
  <2> HIDE DEF m
  <2> QED
    BY <1>1, <2>1, <2>2, <2>3, <2>6 DEF Submit, bounds
<1>2. ASSUME NEW n \in Name, TypeName(n)
      PROVE  /\ UNCHANGED <<sessionVars, recordVars, stateQueue, task, captured, scene, sub, page, settled>>
             /\ acts' \in 0 .. scene.acts
             /\ consent' \subseteq Maybe(Sub) \X Name /\ consent \subseteq consent'
             /\ \E ms : Sends(ms)
  <2> DEFINE m == Message("user", None, n, FALSE)
  <2>1. Fresh(m, "user", None, n)
    BY <1>0, MessageTyped DEF Maybe
  <2>2. msgs' = Append(msgs, m)
    BY <1>2 DEF TypeName
  <2> HIDE DEF m
  <2>3. Sends(<<m>>)
    <3>1. <<None, n>> \in consent'
      BY <1>2 DEF TypeName
    <3>2. Sent(m)
      BY <2>1, <3>1 DEF Sent, Fresh
    <3> QED
      BY <1>0, <2>1, <2>2, <3>2, OneSent
  <2>4. acts' \in 0 .. scene.acts /\ UNCHANGED scene
    BY <1>0, <1>2, ActTyped DEF TypeName
  <2> QED
    BY <1>0, <1>2, <2>3, <2>4 DEF TypeName
<1>3. ASSUME Transition
      PROVE  /\ UNCHANGED <<sessionVars, recordVars, stateQueue, task, captured, scene, acts, sub, settled, consent>>
             /\ page' \in PageRecord /\ page'.listening = page.listening
             /\ \E ms : Sends(ms)
  <2> DEFINE m == Message("mark", page.timer, None, TRUE)
  <2>1. Fresh(m, "mark", page.timer, None)
    BY <1>0, <1>3, MessageTyped DEF Maybe, Transition
  <2>2. msgs' = Append(msgs, m)
    BY <1>3 DEF Transition
  <2> HIDE DEF m
  <2>3. Sends(<<m>>)
    <3>1. Sent(m)
      BY <2>1 DEF Sent, Fresh
    <3> QED
      BY <1>0, <2>1, <2>2, <3>1, OneSent
  <2>4. page' \in PageRecord /\ page'.listening = page.listening
    BY <1>0, <1>3 DEF Transition, PageRecord
  <2> QED
    BY <1>3, <2>3, <2>4 DEF Transition, history, bounds
<1>4. ASSUME TimersEnd
      PROVE  /\ UNCHANGED <<sessionVars, recordVars, stateQueue, task, captured, scene, sub, settled, consent, msgs>>
             /\ acts' \in 0 .. scene.acts
             /\ page' \in PageRecord /\ page'.listening = page.listening
  <2>1. acts' \in 0 .. scene.acts /\ UNCHANGED scene
    BY <1>0, <1>4, ActTyped DEF TimersEnd
  <2>2. page' = [page EXCEPT !.timer = None] \/ page' = [page EXCEPT !.armed = None]
    BY <1>4 DEF TimersEnd
  <2>3. page' \in PageRecord /\ page'.listening = page.listening
    BY <1>0, <2>2 DEF PageRecord
  <2> QED
    BY <1>4, <2>1, <2>3 DEF TimersEnd, history
<1>5. ASSUME StatusDismiss
      PROVE  /\ UNCHANGED <<sessionVars, recordVars, stateQueue, task, captured, scene, sub, consent>>
             /\ acts' \in 0 .. scene.acts
             /\ settled' \subseteq Sub /\ settled \subseteq settled'
             /\ page' \in PageRecord /\ page'.listening = None
             /\ UNCHANGED msgs \/ \E ms : Sends(ms)
  <2> DEFINE s == page.status.sub
             m == Message("clear", s, None, FALSE)
             quiet == [page EXCEPT !.status = None, !.listening = None, !.retry = None]
  <2>1. acts' \in 0 .. scene.acts /\ UNCHANGED scene
    BY <1>0, <1>5, ActTyped DEF StatusDismiss
  <2>2. s \in Maybe(Sub)
    BY <1>0, <1>5 DEF StatusDismiss, Status, Maybe
  <2>3. quiet \in PageRecord /\ quiet.listening = None
    BY <1>0 DEF PageRecord
  <2>4. \/ s = None /\ page' = quiet /\ UNCHANGED <<msgs, settled>>
        \/ /\ s # None /\ page' = [quiet EXCEPT !.timer = None, !.armed = None]
           /\ msgs' = Append(msgs, m) /\ settled' = settled \cup {s}
    BY <1>5 DEF StatusDismiss
  <2>5. s # None => Fresh(m, "clear", s, None)
    BY <1>0, <2>2, MessageTyped DEF Maybe
  <2> HIDE DEF m, quiet, s
  <2>6. page' \in PageRecord /\ page'.listening = None
    BY <1>0, <2>3, <2>4 DEF PageRecord
  <2>7. UNCHANGED msgs \/ \E ms : Sends(ms)
    <3>1. CASE s # None /\ msgs' = Append(msgs, m)
      <4>1. s \in settled'
        BY <2>4, <3>1
      <4>2. Sent(m)
        BY <2>5, <3>1, <4>1 DEF Sent, Fresh
      <4>3. Sends(<<m>>)
        BY <1>0, <2>5, <3>1, <4>2, OneSent
      <4> QED
        BY <4>3
    <3> QED
      BY <2>4, <3>1
  <2>8. settled' \subseteq Sub /\ settled \subseteq settled'
    BY <1>0, <2>2, <2>4 DEF Maybe
  <2> QED
    BY <1>5, <2>1, <2>6, <2>7, <2>8 DEF StatusDismiss
<1>6. ASSUME StatusExpires
      PROVE  /\ UNCHANGED <<sessionVars, recordVars, stateQueue, task, captured, scene, sub, settled, consent, msgs>>
             /\ acts' \in 0 .. scene.acts
             /\ page' \in PageRecord /\ page'.listening = page.listening
  <2>1. acts' \in 0 .. scene.acts /\ UNCHANGED scene
    BY <1>0, <1>6, ActTyped DEF StatusExpires
  <2>2. page' \in PageRecord /\ page'.listening = page.listening
    BY <1>0, <1>6 DEF PageRecord, StatusExpires
  <2> QED
    BY <1>6, <2>1, <2>2 DEF StatusExpires, history
<1>7. ASSUME BannerDismiss
      PROVE  /\ UNCHANGED <<sessionVars, recordVars, stateQueue, task, captured, scene, sub, consent>>
             /\ acts' \in 0 .. scene.acts
             /\ settled' \subseteq Sub /\ settled \subseteq settled'
             /\ page' \in PageRecord /\ page'.listening = page.listening
             /\ \E ms : Sends(ms)
  <2> DEFINE a == Message("clear", page.banner.sub, None, FALSE)
             b == Message("clearUser", None, None, FALSE)
  <2>1. acts' \in 0 .. scene.acts /\ UNCHANGED scene
    BY <1>0, <1>7, ActTyped DEF BannerDismiss
  <2>2. page.banner.sub \in Sub
    BY <1>0, <1>7 DEF BannerDismiss, Banner, Maybe
  <2>3. Fresh(a, "clear", page.banner.sub, None) /\ Fresh(b, "clearUser", None, None)
    BY <1>0, <2>2, MessageTyped DEF Maybe
  <2>4. msgs' = msgs \o <<a, b>>
    BY <1>7 DEF BannerDismiss
  <2> HIDE DEF a, b
  <2>5. Sends(<<a, b>>)
    <3>1. page.banner.sub \in settled'
      BY <1>7 DEF BannerDismiss
    <3>2. Sent(a) /\ Sent(b)
      BY <2>3, <3>1 DEF Sent, Fresh
    <3>3. Added(<<a, b>>)
      BY <2>3, <2>4, TwoAdded DEF Fresh
    <3> QED
      BY <3>2, <3>3, TwoSent
  <2>6. page' \in PageRecord /\ page'.listening = page.listening
    BY <1>0, <1>7 DEF BannerDismiss, PageRecord
  <2> QED
    BY <1>0, <1>7, <2>1, <2>2, <2>5, <2>6 DEF BannerDismiss
<1> QED
  BY <1>0, <1>1, <1>2, <1>3, <1>4, <1>5, <1>6, <1>7 DEF PageAct

LEMMA PageActTyped ==
    ASSUME Typed, PageAct
    PROVE  Typed'
<1>0. Shaped
  BY DEF Typed
<1>1. /\ UNCHANGED <<sessionVars, recordVars, stateQueue, task, captured, scene>>
      /\ acts' \in 0 .. scene.acts
      /\ sub' \in [Sub -> Maybe(Content)]
      /\ settled' \subseteq Sub /\ consent' \subseteq Maybe(Sub) \X Name
      /\ page' \in PageRecord /\ page'.listening \in {None, page.listening}
      /\ UNCHANGED msgs \/ \E ms : Sends(ms)
  BY <1>0, PageActKeeps
<1>2. MsgShape' /\ MsgKeepsWaiting /\ Len(msgs') >= Len(msgs) /\ Len(msgs') \in Nat /\ Len(msgs) \in Nat
  <2>1. MsgShape /\ Len(msgs) \in Nat
    BY <1>0 DEF Shaped, MsgShape
  <2>2. CASE UNCHANGED msgs
    BY <2>1, <2>2, NoneAdded
  <2>3. ASSUME NEW ms, Sends(ms)
        PROVE  MsgShape' /\ MsgKeepsWaiting /\ Len(msgs') >= Len(msgs) /\ Len(msgs') \in Nat
    <3>1. /\ MsgShape' /\ MsgKeepsWaiting /\ Len(msgs') = Len(msgs) + Len(ms)
          /\ Len(ms) \in Nat /\ Len(msgs) \in Nat
      BY <2>1, <2>3, AddedTyped DEF Sends
    <3> QED
      BY <3>1
  <2> QED
    BY <1>1, <2>1, <2>2, <2>3
<1>3. SessionShape' /\ RecordShape'
  BY <1>0, <1>1 DEF Shaped, SessionShape, RecordShape, sessionVars, recordVars, Locked
<1>4. /\ task \in [Task -> TaskRecord]
      /\ \A u \in Task : SameTask(task[u], task[u]) /\ task[u].behind \in 0 .. Len(msgs')
  BY <1>0, <1>2, TasksAsTheyAre DEF Shaped
<1>5. TaskShape' /\ PageShape' /\ QueueShape' /\ Asked' /\ Written'
  <2>1. UNCHANGED <<writing, stateQueue, task>>
    BY <1>1 DEF recordVars
  <2> QED
    BY <1>1, <1>2, <1>4, <2>1, SameTasksTyped
<1> QED
  BY <1>2, <1>3, <1>5 DEF Typed, Shaped

\* The messages are those there were, but for who hears of their answer, and
\* the marker that pagehide sends.
LEMMA UnheardTyped ==
    ASSUME MsgShape
    PROVE  /\ Unheard(msgs) \in Seq(MsgRecord) /\ Len(Unheard(msgs)) = Len(msgs) /\ Len(msgs) \in Nat
           /\ \A i \in 1 .. Len(msgs) : LET m == Unheard(msgs)[i] IN
                /\ MsgOK(m) /\ (i > 1 => m.pc = "new") /\ m.kind = msgs[i].kind /\ m.pc = msgs[i].pc
                /\ m.waits = msgs[i].waits /\ m.sub = msgs[i].sub /\ m.gen = msgs[i].gen
                /\ m.name = msgs[i].name /\ m.got = msgs[i].got
<1>1. /\ msgs \in Seq(MsgRecord) /\ DOMAIN msgs = 1 .. Len(msgs) /\ Len(msgs) \in Nat
      /\ \A i \in 1 .. Len(msgs) : msgs[i] \in MsgRecord /\ MsgOK(msgs[i]) /\ (i > 1 => msgs[i].pc = "new")
  BY DEF MsgShape
<1>2. Unheard(msgs) = [i \in 1 .. Len(msgs) |-> [msgs[i] EXCEPT !.heard = FALSE]]
  BY <1>1 DEF Unheard
<1>3. ASSUME NEW i \in 1 .. Len(msgs), NEW m, m = [msgs[i] EXCEPT !.heard = FALSE]
      PROVE  /\ m \in MsgRecord
             /\ MsgOK(m) /\ (i > 1 => m.pc = "new") /\ m.kind = msgs[i].kind /\ m.pc = msgs[i].pc
             /\ m.waits = msgs[i].waits /\ m.sub = msgs[i].sub /\ m.gen = msgs[i].gen
             /\ m.name = msgs[i].name /\ m.got = msgs[i].got
  <2>1. msgs[i] \in MsgRecord /\ MsgOK(msgs[i]) /\ (i > 1 => msgs[i].pc = "new")
    BY <1>1
  <2>2. /\ m \in MsgRecord
        /\ m.kind = msgs[i].kind /\ m.pc = msgs[i].pc
        /\ m.waits = msgs[i].waits /\ m.sub = msgs[i].sub /\ m.gen = msgs[i].gen
        /\ m.name = msgs[i].name /\ m.got = msgs[i].got
    BY <1>3, <2>1 DEF MsgRecord
  <2> QED
    BY <2>1, <2>2 DEF MsgOK
<1>4. \A i \in 1 .. Len(msgs) : [msgs[i] EXCEPT !.heard = FALSE] \in MsgRecord
  BY <1>3
<1>5. Unheard(msgs) \in Seq(MsgRecord) /\ Len(Unheard(msgs)) = Len(msgs)
  BY <1>1, <1>2, <1>4
<1> QED
  BY <1>1, <1>2, <1>3, <1>5

LEMMA NavigateMessages ==
    ASSUME Shaped, NEW u \in Url, Navigate(u)
    PROVE  /\ MsgShape' /\ MsgKeepsWaiting
           /\ Len(msgs) \in Nat
           /\ Len(msgs') = Len(msgs) + Len(IF page.armed = None THEN <<>>
                                           ELSE <<Message("mark", page.armed, None, FALSE)>>)
           /\ Len(msgs') \in {Len(msgs), Len(msgs) + 1}
           /\ \A i \in 1 .. Len(msgs) :
                /\ msgs'[i].kind = msgs[i].kind /\ msgs'[i].pc = msgs[i].pc
                /\ msgs'[i].waits = msgs[i].waits /\ msgs'[i].sub = msgs[i].sub /\ msgs'[i].gen = msgs[i].gen
                /\ msgs'[i].name = msgs[i].name /\ msgs'[i].got = msgs[i].got
           /\ \A i \in DOMAIN msgs' : i > Len(msgs) => Fresh(msgs'[i], "mark", page.armed, None)
<1> DEFINE m == Message("mark", page.armed, None, FALSE)
           marks == IF page.armed = None THEN <<>> ELSE <<m>>
           old == Unheard(msgs)
<1>1. msgs' = old \o marks
  BY DEF Navigate
<1>2. /\ old \in Seq(MsgRecord) /\ Len(old) = Len(msgs) /\ Len(msgs) \in Nat
      /\ \A i \in 1 .. Len(msgs) :
           /\ MsgOK(old[i]) /\ (i > 1 => old[i].pc = "new") /\ old[i].kind = msgs[i].kind /\ old[i].pc = msgs[i].pc
           /\ old[i].waits = msgs[i].waits /\ old[i].sub = msgs[i].sub /\ old[i].gen = msgs[i].gen
           /\ old[i].name = msgs[i].name /\ old[i].got = msgs[i].got
  BY UnheardTyped DEF Shaped
<1>3. page.armed # None => Fresh(m, "mark", page.armed, None)
  BY MessageTyped DEF Shaped, PageShape, PageRecord, Maybe
<1> HIDE DEF m, old
<1>4. /\ marks \in Seq(MsgRecord) /\ Len(marks) \in {0, 1}
      /\ \A i \in 1 .. Len(marks) : Fresh(marks[i], "mark", page.armed, None)
  <2>1. CASE page.armed = None
    BY <2>1
  <2>2. CASE page.armed # None
    <3>1. m \in MsgRecord
      BY <1>3, <2>2 DEF Fresh
    <3> QED
      BY <1>3, <2>2, <3>1
  <2> QED
    BY <2>1, <2>2
<1> HIDE DEF marks
<1>5. /\ msgs' \in Seq(MsgRecord) /\ Len(msgs') = Len(msgs) + Len(marks)
      /\ \A i \in 1 .. Len(msgs) : msgs'[i] = old[i]
      /\ \A i \in Len(msgs) + 1 .. Len(msgs) + Len(marks) :
            i - Len(msgs) \in 1 .. Len(marks) /\ msgs'[i] = marks[i - Len(msgs)]
  BY <1>1, <1>2, <1>4
<1>6. \A i \in DOMAIN msgs' : i > Len(msgs) => Fresh(msgs'[i], "mark", page.armed, None)
  <2>1. DOMAIN msgs' = 1 .. Len(msgs) + Len(marks)
    BY <1>5
  <2> QED
    BY <1>2, <1>4, <1>5, <2>1
<1>7. MsgShape'
  <2>1. ASSUME NEW i \in DOMAIN msgs'
        PROVE  MsgOK(msgs'[i]) /\ (i > 1 => msgs'[i].pc = "new")
    <3>1. CASE i \in 1 .. Len(msgs)
      BY <1>2, <1>5, <3>1
    <3>2. CASE i > Len(msgs)
      BY <1>6, <2>1, <3>2 DEF Fresh
    <3> QED
      BY <1>2, <1>4, <1>5, <3>1, <3>2
  <2> QED
    BY <1>5, <2>1 DEF MsgShape
<1>8. MsgKeepsWaiting
  <2>1. CASE msgs # <<>>
    <3>1. msgs \in Seq(MsgRecord)
      BY DEF Shaped, MsgShape
    <3>2. 1 \in 1 .. Len(msgs) /\ msgs' # <<>>
      BY <1>4, <1>5, <2>1, <3>1
    <3> QED
      BY <1>2, <1>5, <3>2 DEF MsgKeepsWaiting
  <2> QED
    BY <2>1 DEF MsgKeepsWaiting
<1> QED
  BY <1>2, <1>4, <1>5, <1>6, <1>7, <1>8 DEF m, marks

LEMMA UnheardTasksTyped ==
    ASSUME TaskShape
    PROVE  /\ UnheardTasks \in [Task -> TaskRecord]
           /\ \A t \in Task : SameTask(task[t], UnheardTasks[t]) /\ UnheardTasks[t].behind = task[t].behind
<1>1. ASSUME NEW t \in Task
      PROVE  SameTask(task[t], [task[t] EXCEPT !.heard = FALSE])
             /\ [task[t] EXCEPT !.heard = FALSE].behind = task[t].behind
  <2>1. task[t] \in TaskRecord
    BY DEF TaskShape
  <2>2. [task[t] EXCEPT !.heard = FALSE] \in TaskRecord
    BY <2>1 DEF TaskRecord
  <2> QED
    BY <2>1, <2>2 DEF SameTask, TaskRecord
<1> QED
  BY <1>1 DEF UnheardTasks, SameTask

\* The actions that begin a check.
StartsCheck == (\E u \in Url : Navigate(u)) \/ BecomesVisible \/ RetryTimer \/ StatusAction

\* The messages are those there were, and markers.
MarksAdded ==
    /\ Len(msgs) \in Nat /\ Len(msgs') \in Nat /\ Len(msgs') >= Len(msgs)
    /\ \A i \in 1 .. Len(msgs) :
         /\ msgs'[i].kind = msgs[i].kind /\ msgs'[i].pc = msgs[i].pc
         /\ msgs'[i].waits = msgs[i].waits /\ msgs'[i].sub = msgs[i].sub /\ msgs'[i].gen = msgs[i].gen
         /\ msgs'[i].name = msgs[i].name /\ msgs'[i].got = msgs[i].got
    /\ \A i \in DOMAIN msgs' : i > Len(msgs) => msgs'[i].kind = "mark" /\ msgs'[i].pc = "new"

\* Task t is a check that waits for every message there is; the others go on.
Starts(t) ==
    \E ts \in [Task -> TaskRecord], pg \in PageRecord, m \in BOOLEAN, s \in Maybe(Sub), a \in 0 .. 2 :
        /\ \A u \in Task : SameTask(task[u], ts[u]) /\ ts[u].behind = task[u].behind
        /\ <<pg.latest, pg.banner>> \in {<<None, None>>, <<page.latest, page.banner>>}
        /\ BeginCheck(pg, ts, t, m, s, a, Len(msgs'))

LEMMA StartsKeeps ==
    ASSUME Shaped, StartsCheck
    PROVE  /\ UNCHANGED <<sessionVars, recordVars, stateQueue, sub, vault, history, scene>>
           /\ acts' \in 0 .. scene.acts
           /\ MsgShape' /\ MsgKeepsWaiting /\ MarksAdded
           /\ \E t \in Task : Starts(t)
<1>0. /\ SessionShape /\ MsgShape /\ TaskShape /\ page \in PageRecord /\ acts \in 0 .. scene.acts
      /\ Len(msgs) \in Nat /\ None \in Maybe(Sub) /\ None \in Maybe(Status)
      /\ page.status \in Maybe(Status) /\ page.retry \in Maybe(Retry) /\ page.armed \in Maybe(Sub)
      /\ \A u \in Task : SameTask(task[u], task[u])
      /\ task \in [Task -> TaskRecord]
      /\ FALSE \in BOOLEAN /\ 0 \in 0 .. 2
  BY DEF Shaped, SessionShape, MsgShape, TaskShape, PageShape, PageRecord, Maybe, SameTask
<1>1. ASSUME NEW u \in Url, Navigate(u)
      PROVE  /\ UNCHANGED <<sessionVars, recordVars, stateQueue, sub, vault, history, scene>>
             /\ acts' \in 0 .. scene.acts
             /\ MsgShape' /\ MsgKeepsWaiting /\ MarksAdded
             /\ \E t \in Task : Starts(t)
  <2> DEFINE marks == IF page.armed = None THEN <<>> ELSE <<Message("mark", page.armed, None, FALSE)>>
  <2>1. /\ MsgShape' /\ MsgKeepsWaiting /\ Len(msgs') = Len(msgs) + Len(marks)
        /\ Len(msgs') \in {Len(msgs), Len(msgs) + 1}
        /\ \A i \in 1 .. Len(msgs) :
             /\ msgs'[i].kind = msgs[i].kind /\ msgs'[i].pc = msgs[i].pc
             /\ msgs'[i].waits = msgs[i].waits /\ msgs'[i].sub = msgs[i].sub /\ msgs'[i].gen = msgs[i].gen
             /\ msgs'[i].name = msgs[i].name /\ msgs'[i].got = msgs[i].got
        /\ \A i \in DOMAIN msgs' : i > Len(msgs) => Fresh(msgs'[i], "mark", page.armed, None)
    BY <1>1, NavigateMessages
  <2>2. acts' \in 0 .. scene.acts /\ UNCHANGED scene
    BY <1>0, <1>1, ActTyped DEF Navigate
  <2>3. MarksAdded
    BY <1>0, <2>1 DEF MarksAdded, Fresh
  <2>4. PICK t \in Task : BeginCheck(Document(u), UnheardTasks, t, FALSE, None, 0, Len(msgs) + Len(marks))
    BY <1>1 DEF Navigate
  <2> HIDE DEF marks
  <2>5. BeginCheck(Document(u), UnheardTasks, t, FALSE, None, 0, Len(msgs'))
    BY <2>1, <2>4
  <2>6. /\ UnheardTasks \in [Task -> TaskRecord]
        /\ \A v \in Task : SameTask(task[v], UnheardTasks[v]) /\ UnheardTasks[v].behind = task[v].behind
    BY <1>0, UnheardTasksTyped
  <2>7. Document(u) \in PageRecord /\ Document(u).banner = None /\ Document(u).latest = None
    BY DocumentTyped
  <2>8. Starts(t)
    <3>1. <<Document(u).latest, Document(u).banner>> = <<None, None>>
      BY <2>7
    <3> QED
      BY <1>0, <2>5, <2>6, <2>7, <3>1, Zenon DEF Starts
  <2> QED
    BY <1>1, <2>1, <2>2, <2>3, <2>8 DEF Navigate
<1>2. UNCHANGED msgs => MsgShape' /\ MsgKeepsWaiting /\ MarksAdded
  <2>1. msgs \in Seq(MsgRecord)
    BY <1>0 DEF MsgShape
  <2> QED
    BY <1>0, <2>1, NoneAdded DEF MarksAdded
<1>3. ASSUME UNCHANGED msgs, NEW t \in Task, NEW pg \in PageRecord, NEW m \in BOOLEAN, NEW s \in Maybe(Sub),
             NEW a \in 0 .. 2, pg.latest = page.latest, pg.banner = page.banner,
             BeginCheck(pg, task, t, m, s, a, Len(msgs))
      PROVE  Starts(t)
  <2>1. BeginCheck(pg, task, t, m, s, a, Len(msgs'))
    BY <1>3
  <2> QED
    BY <1>0, <1>3, <2>1 DEF Starts
<1>4. CASE BecomesVisible
  <2>1. acts' \in 0 .. scene.acts /\ UNCHANGED scene
    BY <1>0, <1>4, ActTyped DEF BecomesVisible
  <2>2. PICK t \in Task : BeginCheck(page, task, t, FALSE, None, 0, Len(msgs))
    BY <1>4 DEF BecomesVisible
  <2>3. UNCHANGED msgs
    BY <1>4 DEF BecomesVisible
  <2>4. Starts(t)
    BY <1>0, <1>3, <2>2, <2>3, Zenon
  <2> QED
    BY <1>2, <1>4, <2>1, <2>3, <2>4 DEF BecomesVisible
<1>5. CASE RetryTimer
  <2>1. PICK t \in Task : BeginCheck(page, task, t, page.retry.manual, page.retry.sub,
                                     page.retry.attempt, Len(msgs))
    BY <1>5 DEF RetryTimer
  <2>2. UNCHANGED msgs
    BY <1>5 DEF RetryTimer
  <2>3. page.retry.manual \in BOOLEAN /\ page.retry.sub \in Maybe(Sub) /\ page.retry.attempt \in 0 .. 2
    BY <1>0, <1>5 DEF RetryTimer, Retry, Maybe
  <2>4. Starts(t)
    BY <1>0, <1>3, <2>1, <2>2, <2>3
  <2> QED
    BY <1>0, <1>2, <1>5, <2>2, <2>4 DEF RetryTimer, bounds
<1>6. CASE StatusAction
  <2> DEFINE pg == [page EXCEPT !.status = None]
  <2>1. acts' \in 0 .. scene.acts /\ UNCHANGED scene
    BY <1>0, <1>6, ActTyped DEF StatusAction
  <2>2. PICK t \in Task : BeginCheck(pg, task, t, page.status.manual, page.status.sub, 0, Len(msgs))
    BY <1>6 DEF StatusAction
  <2>3. UNCHANGED msgs
    BY <1>6 DEF StatusAction
  <2>4. page.status.manual \in BOOLEAN /\ page.status.sub \in Maybe(Sub)
    BY <1>0, <1>6 DEF StatusAction, Status, Maybe
  <2>5. pg \in PageRecord /\ pg.latest = page.latest /\ pg.banner = page.banner
    BY <1>0 DEF PageRecord
  <2> HIDE DEF pg
  <2>6. Starts(t)
    BY <1>0, <1>3, <2>2, <2>3, <2>4, <2>5
  <2> QED
    BY <1>2, <1>6, <2>1, <2>3, <2>6 DEF StatusAction
<1> QED
  BY <1>1, <1>4, <1>5, <1>6 DEF StartsCheck

LEMMA StartsTyped ==
    ASSUME Typed, StartsCheck
    PROVE  Typed'
<1>0. Shaped
  BY DEF Typed
<1>1. /\ UNCHANGED <<sessionVars, recordVars, stateQueue, sub, vault, history, scene>>
      /\ acts' \in 0 .. scene.acts
      /\ MsgShape' /\ MsgKeepsWaiting /\ MarksAdded
      /\ \E t \in Task : Starts(t)
  BY <1>0, StartsKeeps
<1>2. SessionShape' /\ RecordShape'
  BY <1>0, <1>1 DEF Shaped, SessionShape, RecordShape, sessionVars, recordVars, history, Locked
<1>3. PICK t \in Task : Starts(t)
  BY <1>1
<1>4. PICK ts \in [Task -> TaskRecord], pg \in PageRecord, m \in BOOLEAN, s \in Maybe(Sub), a \in 0 .. 2 :
        /\ \A u \in Task : SameTask(task[u], ts[u]) /\ ts[u].behind = task[u].behind
        /\ BeginCheck(pg, ts, t, m, s, a, Len(msgs'))
  BY <1>3 DEF Starts
<1>5. Len(msgs) \in Nat /\ Len(msgs') \in Nat /\ Len(msgs') >= Len(msgs)
  BY <1>1 DEF MarksAdded
<1>6. \A u \in Task : ts[u].behind \in 0 .. Len(msgs')
  <2>1. \A u \in Task : task[u].behind \in 0 .. Len(msgs)
    BY <1>0 DEF Shaped, TaskShape
  <2> QED
    BY <1>4, <1>5, <2>1
<1>7. TaskShape' /\ PageShape' /\ QueueShape' /\ Asked' /\ Written'
  <2>1. UNCHANGED <<writing, stateQueue>> /\ Len(msgs') \in 0 .. Len(msgs')
    BY <1>1, <1>5 DEF recordVars
  <2>2. \A u \in Task : SameTask(task[u], ts[u]) /\ ts[u].behind \in 0 .. Len(msgs')
    BY <1>4, <1>6
  <2> QED
    BY <1>1, <1>4, <1>5, <2>1, <2>2, BeginsTyped
<1> QED
  BY <1>1, <1>2, <1>7 DEF Typed, Shaped

\* The task of a click on Save.
Clicked(e, n) == NewSave(page.url, page.banner.sub, n, e, Len(msgs))

LEMMA SaveClickKeeps ==
    ASSUME Shaped, NEW t \in Task, NEW e \in Maybe(Name), NEW n \in Maybe(Name), SaveClick(t, e, n)
    PROVE  /\ UNCHANGED <<sessionVars, recordVars, stateQueue, msgs, sub, vault, settled, captured, bounds>>
           /\ page.banner \in Banner /\ task[t].pc = "idle" /\ Len(msgs) \in Nat
           /\ Clicked(e, n) \in TaskRecord /\ TaskOK(Clicked(e, n))
           /\ Clicked(e, n).kind = "save" /\ Clicked(e, n).pc = "queued" /\ ~Clicked(e, n).waits
           /\ Clicked(e, n).behind = Len(msgs) /\ Clicked(e, n).sub = page.banner.sub
           /\ Clicked(e, n).name = n /\ Clicked(e, n).entry = e
           /\ task' = [task EXCEPT ![t] = Clicked(e, n)]
           /\ page' \in PageRecord /\ page'.listening = page.listening /\ page'.latest = page.latest
           /\ page'.banner.sub = page.banner.sub /\ page'.banner.name = n /\ page'.banner.entry = e
           /\ consent' \subseteq Maybe(Sub) \X Name /\ consent \subseteq consent'
           /\ e = page.banner.entry \/ page.banner.choose
           /\ n = page.banner.name \/ (page.banner.choose /\ n # None)
<1> DEFINE b == page.banner
           k == Clicked(e, n)
           c == [b EXCEPT !.saving = t, !.entry = e, !.name = n]
<1>1. page \in PageRecord /\ b \in Maybe(Banner) /\ b # None /\ page.url \in Url /\ Len(msgs) \in Nat
      /\ task[t].pc = "idle" /\ consent \subseteq Maybe(Sub) \X Name
  BY DEF Shaped, PageShape, PageRecord, SaveClick, Idle, MsgShape, RecordShape
<1>2. b \in Banner /\ b.sub \in Sub
  BY <1>1 DEF Maybe, Banner
<1>3. /\ k \in TaskRecord /\ TaskOK(k) /\ k.kind = "save" /\ k.pc = "queued" /\ ~k.waits
      /\ k.behind = Len(msgs) /\ k.sub = b.sub /\ k.name = n /\ k.entry = e
  BY <1>1, <1>2, SaveTyped DEF Clicked
<1>4. task' = [task EXCEPT ![t] = k]
  BY DEF SaveClick, NewSave, Behind, Clicked
<1>5. c \in Banner /\ c.sub = b.sub /\ c.name = n /\ c.entry = e
  BY <1>2 DEF Banner, Maybe
<1>6. page' = [page EXCEPT !.banner = c]
  BY DEF SaveClick
<1> HIDE DEF c, k
<1>7. /\ page' \in PageRecord /\ page'.listening = page.listening /\ page'.latest = page.latest
      /\ page'.banner = c
  BY <1>1, <1>5, <1>6 DEF PageRecord, Maybe
<1>8. consent' \subseteq Maybe(Sub) \X Name /\ consent \subseteq consent'
  <2>1. consent' = consent \cup (IF b.choose /\ n # None THEN {<<b.sub, n>>} ELSE {})
                            \cup (IF b.choose /\ e # None THEN {<<b.sub, e>>} ELSE {})
    BY DEF SaveClick
  <2> QED
    BY <1>1, <1>2, <2>1 DEF Maybe
<1>9. (e = b.entry \/ b.choose) /\ (n = b.name \/ (b.choose /\ n # None))
  BY DEF SaveClick
<1> QED
  BY <1>1, <1>2, <1>3, <1>4, <1>5, <1>6, <1>7, <1>8, <1>9 DEF SaveClick, c, k

LEMMA SaveClickTyped ==
    ASSUME Typed, NEW t \in Task, NEW e \in Maybe(Name), NEW n \in Maybe(Name), SaveClick(t, e, n)
    PROVE  Typed'
<1> DEFINE k == Clicked(e, n)
<1>0. /\ Shaped /\ SessionShape /\ RecordShape /\ QueueShape /\ MsgShape /\ TaskShape /\ PageShape
      /\ Asked /\ Written
  BY DEF Typed, Shaped
<1>1. /\ UNCHANGED <<sessionVars, recordVars, stateQueue, msgs, sub, vault, settled, captured, bounds>>
      /\ task[t].pc = "idle" /\ Len(msgs) \in Nat
      /\ k \in TaskRecord /\ TaskOK(k) /\ k.kind = "save" /\ k.behind = Len(msgs)
      /\ task' = [task EXCEPT ![t] = k]
      /\ page' \in PageRecord /\ page'.listening = page.listening
      /\ consent' \subseteq Maybe(Sub) \X Name
  BY <1>0, SaveClickKeeps
<1> HIDE DEF k
<1>2. SessionShape' /\ RecordShape' /\ MsgShape' /\ MsgKeepsWaiting
  BY <1>0, <1>1, NoneAdded DEF SessionShape, RecordShape, sessionVars, recordVars, bounds, Locked
<1>3. ASSUME NEW u \in Task
      PROVE  TaskOK(task[u]) /\ (task[u].pc = "idle" => task[u].kind = "idle" /\ ~task[u].waits)
  BY <1>0 DEF TaskShape, TaskOK
<1>4. TaskShape'
  BY <1>0, <1>1 DEF TaskShape
<1>5. PageShape'
  <2>1. page.listening \in Maybe(Task)
    BY <1>0 DEF PageShape, PageRecord
  <2>2. page.listening # None => page.listening # t
    BY <1>0, <1>1, <1>3 DEF PageShape
  <2> QED
    BY <1>0, <1>1, <2>1, <2>2 DEF PageShape, TaskShape, Maybe
<1>6. \A u \in Task : KeepsWaiting(u)
  BY <1>0, <1>1, <1>3 DEF KeepsWaiting, TaskShape
<1>7. UNCHANGED <<writing, stateQueue>>
  BY <1>1 DEF recordVars
<1>8. Asked'
  BY <1>0, <1>2, <1>6, <1>7, AskedSame
<1>9. QueueShape' /\ Written'
  BY <1>0, <1>7, WrittenKept DEF QueueShape
<1> QED
  BY <1>2, <1>4, <1>5, <1>8, <1>9 DEF Typed, Shaped

\* A lock, and the clearing that follows it: one more operation for nobody.
LEMMA ClearAsked ==
    ASSUME Typed, NEW by \in {"lock", "late"}, Ask(by, "clearAll", None, None),
           UNCHANGED <<writing, msgs, task, page>>
    PROVE  QueueShape' /\ MsgShape' /\ TaskShape' /\ PageShape' /\ Asked' /\ Written'
<1> DEFINE op == [by |-> by, kind |-> "clearAll", gen |-> generation, sub |-> None, name |-> None]
<1>0. /\ SessionShape /\ QueueShape /\ MsgShape /\ TaskShape /\ PageShape /\ Asked /\ Written
      /\ stateQueue \in Seq(Op)
  BY DEF Typed, Shaped, QueueShape
<1>1. stateQueue' = Append(stateQueue, op)
  BY DEF Ask
<1>2. op \in Op /\ OpOK(op) /\ op.by \notin Task /\ op.by # "msg"
  BY <1>0, ConstantAssumption DEF SessionShape, Op, OpOK, Kinds
<1> HIDE DEF op
<1>3. \A u \in Task : KeepsWaiting(u)
  BY DEF KeepsWaiting
<1>4. MsgShape' /\ MsgKeepsWaiting
  BY <1>0, NoneAdded
<1>5. Asked'
  BY <1>0, <1>1, <1>2, <1>3, <1>4, AskedAppend
<1>6. QueueShape'
  BY <1>0, <1>1, <1>2 DEF QueueShape
<1>7. Written'
  BY <1>0, <1>1, <1>2, WrittenKept
<1> QED
  BY <1>0, <1>4, <1>5, <1>6, <1>7 DEF TaskShape, PageShape

LEMMA LockTyped ==
    ASSUME Typed, Lock \/ LateClear
    PROVE  Typed'
<1>0. SessionShape /\ RecordShape /\ generation \in Session
  BY DEF Typed, Shaped, SessionShape
<1>1. CASE Lock
  <2>1. acts' \in 0 .. scene.acts /\ UNCHANGED scene
    BY <1>0, <1>1, ActTyped DEF Lock
  <2>2. /\ generation' = generation + 1 /\ generation < MaxGeneration /\ ~Locked
        /\ removing' = TRUE /\ late' = TRUE
        /\ UNCHANGED <<recordVars, msgs, task, page, sub, vault, history>>
        /\ Ask("lock", "clearAll", None, None)
    BY <1>1 DEF Lock
  <2>3. generation' \in Session /\ Locked' /\ generation' # 0
    BY <1>0, <2>2, ConstantAssumption DEF Session, Locked
  <2>4. SessionShape' /\ RecordShape'
    BY <1>0, <2>1, <2>2, <2>3 DEF SessionShape, RecordShape, recordVars, history
  <2>5. QueueShape' /\ MsgShape' /\ TaskShape' /\ PageShape' /\ Asked' /\ Written'
    BY <2>2, ClearAsked DEF recordVars
  <2> QED
    BY <2>4, <2>5 DEF Typed, Shaped
<1>2. CASE LateClear
  <2>1. /\ late' = FALSE /\ Ask("late", "clearAll", None, None)
        /\ UNCHANGED <<generation, removing, recordVars, msgs, task, page, sub, vault, history, bounds>>
    BY <1>2 DEF LateClear
  <2>2. SessionShape' /\ RecordShape'
    BY <1>0, <2>1 DEF SessionShape, RecordShape, recordVars, history, bounds, Locked
  <2>3. QueueShape' /\ MsgShape' /\ TaskShape' /\ PageShape' /\ Asked' /\ Written'
    BY <2>1, ClearAsked DEF recordVars
  <2> QED
    BY <2>2, <2>3 DEF Typed, Shaped
<1> QED
  BY <1>1, <1>2

LEMMA UnchangedTyped ==
    ASSUME Typed, UNCHANGED <<writing, stateQueue, msgs, task, page>>
    PROVE  QueueShape' /\ MsgShape' /\ TaskShape' /\ PageShape' /\ Asked' /\ Written'
  BY DEF Typed, Shaped, QueueShape, MsgShape, TaskShape, PageShape, Asked, Written

LEMMA OthersTyped ==
    ASSUME Typed, Login \/ Expire \/ (\E n \in Name, v \in Secret \cup {None} : OutsideChange(n, v))
    PROVE  Typed'
<1>0. SessionShape /\ RecordShape /\ generation \in Session
  BY DEF Typed, Shaped, SessionShape
<1>1. CASE Login
  <2>1. acts' \in 0 .. scene.acts /\ UNCHANGED scene
    BY <1>0, <1>1, ActTyped DEF Login
  <2>2. /\ generation' = generation + 1 /\ generation < MaxGeneration /\ ~removing
        /\ UNCHANGED <<removing, late, recordVars, stateQueue, msgs, task, page, sub, vault, history>>
    BY <1>1 DEF Login
  <2>3. generation' \in Session
    BY <1>0, <2>2, ConstantAssumption DEF Session
  <2>4. SessionShape' /\ RecordShape'
    BY <1>0, <2>1, <2>2, <2>3 DEF SessionShape, RecordShape, recordVars, history
  <2>5. QueueShape' /\ MsgShape' /\ TaskShape' /\ PageShape' /\ Asked' /\ Written'
    BY <2>2, UnchangedTyped DEF recordVars
  <2> QED
    BY <2>4, <2>5 DEF Typed, Shaped
<1>2. CASE Expire
  <2>1. acts' \in 0 .. scene.acts /\ UNCHANGED scene
    BY <1>0, <1>2, ActTyped DEF Expire
  <2>2. UNCHANGED <<sessionVars, writing, stateQueue, msgs, task, page, sub, vault, captured, consent>>
    BY <1>2 DEF Expire
  <2>3. \/ pend # None /\ pend' = None /\ settled' = settled \cup {pend.sub} /\ UNCHANGED user
        \/ user' = None /\ UNCHANGED <<pend, settled>>
    BY <1>2 DEF Expire
  <2>4. pend # None => pend.sub \in Sub
    BY <1>0 DEF RecordShape, Maybe, PendRecord
  <2>5. SessionShape' /\ RecordShape'
    BY <1>0, <2>1, <2>2, <2>3, <2>4 DEF SessionShape, RecordShape, sessionVars, Maybe, Locked
  <2>6. QueueShape' /\ MsgShape' /\ TaskShape' /\ PageShape' /\ Asked' /\ Written'
    BY <2>2, UnchangedTyped
  <2> QED
    BY <2>5, <2>6 DEF Typed, Shaped
<1>3. ASSUME NEW n \in Name, NEW v \in Secret \cup {None}, OutsideChange(n, v)
      PROVE  Typed'
  <2>1. acts' \in 0 .. scene.acts /\ UNCHANGED scene
    BY <1>0, <1>3, ActTyped DEF OutsideChange
  <2>2. UNCHANGED <<sessionVars, recordVars, stateQueue, msgs, task, page, sub, history>>
    BY <1>3 DEF OutsideChange
  <2>3. SessionShape' /\ RecordShape'
    BY <1>0, <2>1, <2>2 DEF SessionShape, RecordShape, sessionVars, recordVars, history, Locked
  <2>4. QueueShape' /\ MsgShape' /\ TaskShape' /\ PageShape' /\ Asked' /\ Written'
    BY <2>2, UnchangedTyped DEF recordVars
  <2> QED
    BY <2>3, <2>4 DEF Typed, Shaped
<1> QED
  BY <1>1, <1>2, <1>3

(***************************************************************************)
(* The types are inductive: restarts, and the records                      *)
(***************************************************************************)
LEMMA RestartPage ==
    ASSUME Shaped, Restart
    PROVE  /\ page' \in PageRecord /\ page'.listening = None /\ page'.latest = page.latest
           /\ page'.banner \in {page.banner, [page.banner EXCEPT !.saving = None]}
           /\ page.banner = None => page'.banner = None
<1> DEFINE p1 == IF page.storing THEN CaptureFailed(page) ELSE page
           p2 == IF p1.banner # None THEN [p1 EXCEPT !.banner.saving = None] ELSE p1
           b == [page.banner EXCEPT !.saving = None]
<1>0. page \in PageRecord /\ page.banner \in Maybe(Banner) /\ page.listening \in Maybe(Task)
      /\ \A t \in Task : task[t] \in TaskRecord
  BY DEF Shaped, PageShape, PageRecord, TaskShape
<1>1. SamePage(page, p1) /\ p1.banner = page.banner
  BY <1>0, PageTyped DEF SamePage
<1> HIDE DEF p1
<1>2. page.banner # None => b \in Maybe(Banner)
  BY <1>0 DEF Maybe, Banner
<1>3. SamePage(page, p2) /\ p2.banner \in {page.banner, b} /\ (page.banner = None => p2.banner = None)
  <2>1. CASE p1.banner = None
    BY <1>1, <2>1
  <2>2. CASE p1.banner # None
    <3>1. p2 = [p1 EXCEPT !.banner = b]
      BY <1>1, <2>2
    <3> HIDE DEF p2, b
    <3>2. p1 \in PageRecord /\ p1.latest = page.latest /\ p1.listening = page.listening
      BY <1>1 DEF SamePage
    <3>3. p2 \in PageRecord /\ p2.latest = p1.latest /\ p2.listening = p1.listening /\ p2.banner = b
      BY <1>1, <1>2, <2>2, <3>1, <3>2 DEF PageRecord
    <3> QED
      BY <1>1, <2>2, <3>2, <3>3 DEF SamePage
  <2> QED
    BY <2>1, <2>2
<1>4. page' = IF page.listening = None THEN p2
              ELSE [CheckFailed(p2, task[page.listening]) EXCEPT !.listening = None]
  BY DEF Restart, p1
<1> HIDE DEF p2, b
<1>5. CASE page.listening = None
  BY <1>3, <1>4, <1>5 DEF SamePage, b
<1>6. CASE page.listening # None
  <2> DEFINE q == CheckFailed(p2, task[page.listening])
  <2>1. p2 \in PageRecord /\ p2.latest = page.latest /\ task[page.listening] \in TaskRecord
    BY <1>0, <1>3, <1>6 DEF SamePage, Maybe
  <2>2. SamePage(p2, q) /\ q.banner = p2.banner
    BY <2>1, PageTyped
  <2>3. page' = [q EXCEPT !.listening = None]
    BY <1>4, <1>6
  <2> HIDE DEF q
  <2>4. q \in PageRecord /\ q.latest = p2.latest
    BY <2>2 DEF SamePage
  <2>5. page' \in PageRecord /\ page'.listening = None /\ page'.latest = q.latest /\ page'.banner = q.banner
    BY <2>3, <2>4 DEF PageRecord, Maybe
  <2> QED
    BY <1>3, <2>1, <2>2, <2>4, <2>5 DEF b
<1> QED
  BY <1>5, <1>6

LEMMA RestartKeeps ==
    ASSUME Shaped, Restart
    PROVE  /\ UNCHANGED <<sub, vault, settled, consent, scene>> /\ acts' \in 0 .. scene.acts
           /\ generation' = (IF removing THEN generation - 1 ELSE generation) /\ generation' \in Session
           /\ removing' = FALSE /\ late' = FALSE /\ writing' = None /\ msgs' = <<>>
           /\ task' = [t \in Task |-> IdleTask]
           /\ \/ pend' = pend /\ user' = user
              \/ writing # None /\ pend' = writing.pend /\ user' = writing.user
           /\ captured' = captured \cup (IF writing = None \/ pend' = None THEN {} ELSE {pend'.sub})
           /\ pend' \in Maybe(PendRecord) /\ user' \in Maybe(UserRecord) /\ captured' \subseteq Sub
           /\ \/ stateQueue' = <<>> /\ ~Locked'
              \/ /\ Locked'
                 /\ stateQueue' = <<[by |-> "late", kind |-> "clearAll", gen |-> generation',
                                     sub |-> None, name |-> None]>>
<1>0. /\ SessionShape /\ generation \in Session /\ removing \in BOOLEAN /\ (removing => Locked /\ generation # 0)
      /\ writing \in Maybe(Writing) /\ pend \in Maybe(PendRecord) /\ user \in Maybe(UserRecord)
      /\ captured \subseteq Sub
  BY DEF Shaped, SessionShape, RecordShape
<1>1. acts' \in 0 .. scene.acts /\ UNCHANGED scene
  BY <1>0, ActTyped DEF Restart
<1>2. /\ generation' = (IF removing THEN generation - 1 ELSE generation)
      /\ removing' = FALSE /\ late' = FALSE /\ writing' = None /\ msgs' = <<>>
      /\ task' = [t \in Task |-> IdleTask]
      /\ UNCHANGED <<sub, vault, settled, consent>>
      /\ captured' = captured \cup (IF writing = None \/ pend' = None THEN {} ELSE {pend'.sub})
  BY DEF Restart
<1>3. generation' \in Session
  BY <1>0, <1>2, ConstantAssumption DEF Session
<1>4. \/ pend' = pend /\ user' = user
      \/ writing # None /\ pend' = writing.pend /\ user' = writing.user
  BY DEF Restart
<1>5. writing # None => writing.pend \in Maybe(PendRecord) /\ writing.user \in Maybe(UserRecord)
  BY <1>0 DEF Maybe, Writing
<1>6. pend' \in Maybe(PendRecord) /\ user' \in Maybe(UserRecord)
  BY <1>0, <1>4, <1>5
<1>7. captured' \subseteq Sub
  <2>1. pend' # None => pend'.sub \in Sub
    BY <1>6 DEF Maybe, PendRecord
  <2> QED
    BY <1>0, <1>2, <2>1
<1>8. \/ stateQueue' = <<>> /\ ~Locked'
      \/ /\ Locked'
         /\ stateQueue' = <<[by |-> "late", kind |-> "clearAll", gen |-> generation',
                             sub |-> None, name |-> None]>>
  <2>1. stateQueue' = IF generation' % 2 = 1 THEN <<>>
                      ELSE <<[by |-> "late", kind |-> "clearAll", gen |-> generation',
                              sub |-> None, name |-> None]>>
    BY DEF Restart
  <2>2. generation' \in Nat
    BY <1>3, ConstantAssumption DEF Session
  <2>3. generation' % 2 = 1 <=> ~(generation' % 2 = 0)
    BY <2>2, Parity, Zenon
  <2>4. CASE generation' % 2 = 1
    BY <2>1, <2>3, <2>4 DEF Locked
  <2>5. CASE generation' % 2 # 1
    BY <2>1, <2>3, <2>5 DEF Locked
  <2> QED
    BY <2>4, <2>5
<1> QED
  BY <1>1, <1>2, <1>3, <1>4, <1>6, <1>7, <1>8

LEMMA RestartTyped ==
    ASSUME Typed, Restart
    PROVE  Typed'
<1> DEFINE op == [by |-> "late", kind |-> "clearAll", gen |-> generation', sub |-> None, name |-> None]
<1>0. Shaped /\ SessionShape /\ RecordShape
  BY DEF Typed, Shaped
<1>1. /\ UNCHANGED <<sub, vault, settled, consent, scene>> /\ acts' \in 0 .. scene.acts
      /\ generation' \in Session
      /\ removing' = FALSE /\ late' = FALSE /\ writing' = None /\ msgs' = <<>>
      /\ task' = [t \in Task |-> IdleTask]
      /\ pend' \in Maybe(PendRecord) /\ user' \in Maybe(UserRecord) /\ captured' \subseteq Sub
      /\ \/ stateQueue' = <<>>
         \/ stateQueue' = <<op>>
  BY <1>0, RestartKeeps
<1>2. op \in Op /\ OpOK(op) /\ op.by \notin Task /\ op.by # "msg"
  BY <1>1, ConstantAssumption DEF Op, OpOK, Kinds
<1> HIDE DEF op
<1>3. SessionShape' /\ RecordShape'
  BY <1>0, <1>1 DEF SessionShape, RecordShape, Maybe
<1>4. MsgShape'
  BY <1>1 DEF MsgShape
<1>5. TaskShape'
  <2>1. Len(msgs') = 0
    BY <1>1
  <2> QED
    BY <1>1, <2>1, IdleTyped DEF TaskShape
<1>6. PageShape'
  BY <1>0, RestartPage DEF PageShape
<1>7. QueueShape' /\ \A i \in DOMAIN stateQueue' : stateQueue'[i] = op
  <2>1. CASE stateQueue' = <<>>
    <3>1. stateQueue' \in Seq(Op) /\ DOMAIN stateQueue' = {}
      BY <2>1
    <3> QED
      BY <3>1 DEF QueueShape
  <2>2. CASE stateQueue' = <<op>>
    <3>1. stateQueue' \in Seq(Op) /\ DOMAIN stateQueue' = {1} /\ stateQueue'[1] = op
      BY <1>2, <2>2
    <3> QED
      BY <1>2, <3>1 DEF QueueShape
  <2> QED
    BY <1>1, <2>1, <2>2
<1>8. Asked'
  <2>1. stateQueue' = <<>> \/ DOMAIN stateQueue' = {1}
    BY <1>1
  <2> QED
    BY <1>2, <1>7, <2>1 DEF Asked
<1>9. Written'
  BY <1>1 DEF Written
<1> QED
  BY <1>3, <1>4, <1>5, <1>6, <1>7, <1>8, <1>9 DEF Typed, Shaped

\* What an operation stores and returns.
LEMMA UpdateEffect ==
    ASSUME SessionShape, RecordShape, NEW op \in Op, OpOK(op), NEW r, r = Update(op)
    PROVE  /\ r \in Writing
           /\ op.kind = "getPend" => r.pend = OwnPend /\ r.user = user /\ r.got = OwnPend
           /\ op.kind = "setPend" => /\ r.pend = [sub |-> op.sub, ready |-> FALSE, name |-> op.name, gen |-> generation]
                                     /\ r.user = user
           /\ op.kind = "mark" => /\ r.user = user
                                  /\ r.pend = OwnPend \/ (OwnPend # None /\ r.pend = [OwnPend EXCEPT !.ready = TRUE])
           /\ op.kind = "clearPend" => r.pend = Cleared(op.sub) /\ r.user = user
           /\ op.kind = "getUser" => /\ r.pend = pend /\ r.user = OwnUser
                                     /\ r.got = IF OwnUser = None THEN None ELSE OwnUser.name
           /\ op.kind = "setUser" => r.pend = pend /\ r.user = [name |-> op.name, gen |-> generation]
           /\ op.kind = "clearUser" => r.pend = pend /\ r.user = None
           /\ op.kind = "clearAll" => r.pend = None /\ r.user = None
           /\ op.kind \in Kinds
<1>0. /\ op.kind \in Kinds /\ op.sub \in Maybe(Sub) /\ op.name \in Maybe(Name) /\ generation \in Session
      /\ pend \in Maybe(PendRecord) /\ user \in Maybe(UserRecord) /\ None \in Got
      /\ None \in Maybe(PendRecord) /\ None \in Maybe(UserRecord)
      /\ \A p \in Maybe(PendRecord) : p \in Got
      /\ \A x \in Maybe(Sub) : x \in Got
      /\ \A x \in Maybe(Name) : x \in Got
  BY DEF Op, SessionShape, RecordShape, Maybe, Got
<1>1. /\ OwnPend \in Maybe(PendRecord) /\ OwnUser \in Maybe(UserRecord)
      /\ (IF OwnUser = None THEN None ELSE OwnUser.name) \in Maybe(Name)
      /\ \A s : Cleared(s) \in Maybe(PendRecord)
  BY <1>0 DEF OwnPend, OwnUser, Own, Cleared, Maybe, UserRecord
<1>2. \A p, u, g : p \in Maybe(PendRecord) /\ u \in Maybe(UserRecord) /\ g \in Got =>
          /\ Stores(p, u, g) \in Writing
          /\ Stores(p, u, g).pend = p /\ Stores(p, u, g).user = u /\ Stores(p, u, g).got = g
  BY DEF Stores, Writing
<1>3. CASE op.kind = "getPend"
  <2>1. r = Stores(OwnPend, user, OwnPend)
    BY <1>3 DEF Update
  <2> QED
    BY <1>0, <1>1, <1>2, <1>3, <2>1
<1>4. CASE op.kind = "setPend"
  <2> DEFINE p == [sub |-> op.sub, ready |-> FALSE, name |-> op.name, gen |-> generation]
  <2>1. r = Stores(p, user, op.sub)
    BY <1>4 DEF Update
  <2>2. p \in Maybe(PendRecord)
    BY <1>0, <1>4 DEF PendRecord, Maybe, OpOK
  <2> HIDE DEF p
  <2>3. r \in Writing /\ r.pend = p /\ r.user = user
    BY <1>0, <1>2, <2>1, <2>2
  <2> QED
    BY <1>4, <2>3, <1>0 DEF p
<1>5. CASE op.kind = "mark"
  <2> DEFINE p == [OwnPend EXCEPT !.ready = TRUE]
  <2>1. CASE OwnPend # None /\ OwnPend.sub = op.sub
    <3>1. r = Stores(p, user, op.sub)
      BY <1>5, <2>1 DEF Update
    <3>2. p \in Maybe(PendRecord)
      BY <1>1, <2>1 DEF PendRecord, Maybe
    <3> HIDE DEF p
    <3>3. r \in Writing /\ r.pend = p /\ r.user = user
      BY <1>0, <1>2, <3>1, <3>2
    <3> QED
      BY <1>0, <1>5, <2>1, <3>3 DEF p
  <2>2. CASE ~(OwnPend # None /\ OwnPend.sub = op.sub)
    <3>1. r = Stores(OwnPend, user, None)
      BY <1>5, <2>2 DEF Update
    <3> QED
      BY <1>0, <1>1, <1>2, <1>5, <3>1
  <2> QED
    BY <2>1, <2>2
<1>6. CASE op.kind = "clearPend"
  <2>1. r = Stores(Cleared(op.sub), user, None)
    BY <1>6 DEF Update
  <2> QED
    BY <1>0, <1>1, <1>2, <1>6, <2>1
<1>7. CASE op.kind = "getUser"
  <2>1. r = Stores(pend, OwnUser, IF OwnUser = None THEN None ELSE OwnUser.name)
    BY <1>7 DEF Update
  <2> QED
    BY <1>0, <1>1, <1>2, <1>7, <2>1
<1>8. CASE op.kind = "setUser"
  <2> DEFINE u == [name |-> op.name, gen |-> generation]
  <2>1. r = Stores(pend, u, None)
    BY <1>8 DEF Update
  <2>2. u \in Maybe(UserRecord)
    BY <1>0, <1>8 DEF UserRecord, Maybe, OpOK
  <2> HIDE DEF u
  <2>3. r \in Writing /\ r.pend = pend /\ r.user = u
    BY <1>0, <1>2, <2>1, <2>2
  <2> QED
    BY <1>0, <1>8, <2>3 DEF u
<1>9. CASE op.kind = "clearUser"
  <2>1. r = Stores(pend, None, None)
    BY <1>9 DEF Update
  <2> QED
    BY <1>0, <1>1, <1>2, <1>9, <2>1
<1>10. CASE op.kind = "clearAll"
  <2>1. r = Stores(None, None, None)
    BY <1>10 DEF Update
  <2> QED
    BY <1>0, <1>1, <1>2, <1>10, <2>1
<1> QED
  BY <1>0, <1>3, <1>4, <1>5, <1>6, <1>7, <1>8, <1>9, <1>10 DEF Kinds

\* What returns to a task, and to a message, and what stays.
TaskGot(k, l, got) ==
    /\ l \in TaskRecord
    /\ l.kind = k.kind /\ l.pc = k.pc /\ ~l.waits /\ l.got = got /\ l.sub = k.sub /\ l.behind = k.behind
    /\ l.pending = k.pending /\ l.name = k.name /\ l.entry = k.entry /\ l.existing = k.existing
    /\ l.verdict = k.verdict
MsgGot(m, l, got) ==
    /\ l \in MsgRecord
    /\ l.kind = m.kind /\ l.pc = m.pc /\ ~l.waits /\ l.got = got /\ l.sub = m.sub /\ l.name = m.name
    /\ l.gen = m.gen

LEMMA ReturnEffect ==
    ASSUME Typed, stateQueue # <<>>, NEW got \in Got, Return(Head(stateQueue).by, got)
    PROVE  LET by == Head(stateQueue).by IN
           /\ task' \in [Task -> TaskRecord]
           /\ \A u \in Task : u # by => task'[u] = task[u]
           /\ by \in Task => TaskGot(task[by], task'[by], got)
           /\ msgs' \in Seq(MsgRecord) /\ Len(msgs') = Len(msgs) /\ Len(msgs) \in Nat
           /\ \A i \in 1 .. Len(msgs) : i > 1 \/ by # "msg" => msgs'[i] = msgs[i]
           /\ by = "msg" => 1 \in 1 .. Len(msgs) /\ MsgGot(msgs[1], msgs'[1], got)
<1> DEFINE op == Head(stateQueue)
           by == op.by
<1>0. /\ task \in [Task -> TaskRecord] /\ msgs \in Seq(MsgRecord) /\ stateQueue \in Seq(Op) /\ Asked
      /\ 1 \in DOMAIN stateQueue /\ op = stateQueue[1] /\ Len(msgs) \in Nat
  BY DEF Typed, Shaped, TaskShape, MsgShape, QueueShape
<1>1. by = "msg" => msgs # <<>> /\ 1 \in 1 .. Len(msgs)
  BY <1>0 DEF Asked
<1>2. /\ task' = IF by \in Task THEN [task EXCEPT ![by].waits = FALSE, ![by].got = got] ELSE task
      /\ msgs' = IF by = "msg" THEN [msgs EXCEPT ![1].waits = FALSE, ![1].got = got] ELSE msgs
  BY DEF Return
<1> HIDE DEF op, by
<1>3. CASE by \in Task
  <2> DEFINE l == [task[by] EXCEPT !.waits = FALSE, !.got = got]
  <2>1. task' = [task EXCEPT ![by] = l]
    BY <1>0, <1>2, <1>3
  <2>2. TaskGot(task[by], l, got)
    <3>1. task[by] \in TaskRecord
      BY <1>0, <1>3
    <3> QED
      BY <3>1 DEF TaskGot, TaskRecord
  <2> HIDE DEF l
  <2>3. l \in TaskRecord
    BY <2>2 DEF TaskGot
  <2>4. by # "msg"
    BY <1>3, ConstantAssumption
  <2> QED
    BY <1>0, <1>2, <1>3, <2>1, <2>2, <2>3, <2>4 DEF by, op
<1>4. CASE by = "msg"
  <2> DEFINE l == [msgs[1] EXCEPT !.waits = FALSE, !.got = got]
  <2>1. msgs' = [msgs EXCEPT ![1] = l]
    BY <1>0, <1>1, <1>2, <1>4
  <2>2. MsgGot(msgs[1], l, got)
    <3>1. msgs[1] \in MsgRecord
      BY <1>0, <1>1, <1>4
    <3> QED
      BY <3>1 DEF MsgGot, MsgRecord
  <2> HIDE DEF l
  <2>3. l \in MsgRecord
    BY <2>2 DEF MsgGot
  <2>4. by \notin Task
    BY <1>4, ConstantAssumption
  <2>5. /\ msgs' \in Seq(MsgRecord) /\ Len(msgs') = Len(msgs) /\ msgs'[1] = l
        /\ \A i \in 1 .. Len(msgs) : i > 1 => msgs'[i] = msgs[i]
    BY <1>0, <1>1, <1>4, <2>1, <2>3
  <2>6. task' = task
    BY <1>2, <2>4
  <2>7. MsgGot(msgs[1], msgs'[1], got)
    BY <2>2, <2>5
  <2> QED
    BY <1>0, <1>1, <1>4, <2>4, <2>5, <2>6, <2>7 DEF by, op
<1>5. CASE by \notin Task /\ by # "msg"
  BY <1>0, <1>2, <1>5 DEF by, op
<1> QED
  BY <1>3, <1>4, <1>5

LEMMA ReturnTyped ==
    ASSUME Typed, stateQueue # <<>>, NEW got \in Got, Return(Head(stateQueue).by, got),
           Head(stateQueue).kind = "getPend" => got \in Maybe(PendRecord),
           Head(stateQueue).kind = "getUser" => got \in Maybe(Name),
           stateQueue' = Tail(stateQueue), writing' = None, UNCHANGED page
    PROVE  QueueShape' /\ MsgShape' /\ TaskShape' /\ PageShape' /\ Asked' /\ Written'
<1> DEFINE op == Head(stateQueue)
<1>0. /\ QueueShape /\ MsgShape /\ TaskShape /\ PageShape /\ Asked
      /\ stateQueue \in Seq(Op) /\ 1 \in DOMAIN stateQueue /\ op = stateQueue[1]
  BY DEF Typed, Shaped, QueueShape
<1>1. /\ task' \in [Task -> TaskRecord]
      /\ \A u \in Task : u # op.by => task'[u] = task[u]
      /\ op.by \in Task => TaskGot(task[op.by], task'[op.by], got)
      /\ msgs' \in Seq(MsgRecord) /\ Len(msgs') = Len(msgs) /\ Len(msgs) \in Nat
      /\ \A i \in 1 .. Len(msgs) : i > 1 \/ op.by # "msg" => msgs'[i] = msgs[i]
      /\ op.by = "msg" => 1 \in 1 .. Len(msgs) /\ MsgGot(msgs[1], msgs'[1], got)
  BY ReturnEffect
<1> HIDE DEF op
<1>2. /\ op.by \in Task => op.kind = Awaits(task[op.by].pc) /\ task[op.by].waits
      /\ op.by = "msg" => op.kind = AwaitsMsg(msgs[1]) /\ msgs[1].waits
      /\ op.kind = "getPend" => got \in Maybe(PendRecord)
      /\ op.kind = "getUser" => got \in Maybe(Name)
  BY <1>0 DEF Asked, op
<1>3. MsgShape'
  <2>1. ASSUME NEW i \in DOMAIN msgs'
        PROVE  MsgOK(msgs'[i]) /\ (i > 1 => msgs'[i].pc = "new")
    <3>1. i \in 1 .. Len(msgs) /\ i \in DOMAIN msgs /\ MsgOK(msgs[i]) /\ (i > 1 => msgs[i].pc = "new")
      BY <1>0, <1>1 DEF MsgShape
    <3>2. CASE i > 1 \/ op.by # "msg"
      BY <1>1, <3>1, <3>2
    <3>3. CASE i = 1 /\ op.by = "msg"
      <4>1. msgs[1].pc = "name" => got \in Maybe(Name)
        BY <1>2, <3>3 DEF AwaitsMsg
      <4> QED
        BY <1>1, <3>1, <3>3, <4>1 DEF MsgOK, MsgGot
    <3> QED
      BY <3>1, <3>2, <3>3
  <2> QED
    BY <1>1, <2>1 DEF MsgShape
<1>4. TaskShape'
  <2>1. ASSUME NEW u \in Task
        PROVE  TaskOK(task'[u]) /\ task'[u].behind \in 0 .. Len(msgs')
    <3>1. TaskOK(task[u]) /\ task[u].behind \in 0 .. Len(msgs)
      BY <1>0 DEF TaskShape
    <3>2. CASE u # op.by
      BY <1>1, <3>1, <3>2
    <3>3. CASE u = op.by
      <4>1. /\ task[u].pc \in {"pend", "recheck"} => got \in Maybe(PendRecord)
            /\ task[u].pc = "user" => got \in Maybe(Name)
        BY <1>2, <3>3 DEF Awaits
      <4>2. TaskGot(task[u], task'[u], got)
        BY <1>1, <3>3
      <4>3. TaskOK(task'[u])
        BY <3>1, <4>1, <4>2 DEF TaskOK, TaskGot
      <4> QED
        BY <1>1, <3>1, <4>2, <4>3 DEF TaskGot
    <3> QED
      BY <3>2, <3>3
  <2> QED
    BY <1>1, <2>1 DEF TaskShape
<1>5. PageShape'
  <2>1. page.listening \in Maybe(Task)
    BY <1>0 DEF PageShape, PageRecord
  <2> QED
    BY <1>0, <1>1, <2>1 DEF PageShape, TaskGot, Maybe
<1>6. \A u \in Task : u # op.by => KeepsWaiting(u)
  BY <1>1 DEF KeepsWaiting
<1>7. op.by # "msg" => MsgKeepsWaiting
  <2>1. msgs \in Seq(MsgRecord)
    BY <1>0 DEF MsgShape
  <2> QED
    BY <1>1, <2>1 DEF MsgKeepsWaiting
<1>8. Asked'
  BY <1>0, <1>6, <1>7, AskedTail DEF op
<1>9. QueueShape'
  <2>1. ASSUME NEW i \in DOMAIN stateQueue'
        PROVE  OpOK(stateQueue'[i])
    <3>1. i + 1 \in DOMAIN stateQueue /\ stateQueue'[i] = stateQueue[i + 1]
      BY <1>0
    <3> QED
      BY <1>0, <3>1 DEF QueueShape
  <2>2. stateQueue' \in Seq(Op)
    BY <1>0
  <2> QED
    BY <2>1, <2>2 DEF QueueShape
<1>10. Written'
  BY DEF Written
<1> QED
  BY <1>3, <1>4, <1>5, <1>8, <1>9, <1>10

LEMMA BeginOpTyped ==
    ASSUME Typed, BeginOp
    PROVE  Typed'
<1> DEFINE op == Head(stateQueue)
<1>0. /\ SessionShape /\ RecordShape /\ stateQueue # <<>> /\ writing = None
      /\ op \in Op /\ OpOK(op) /\ None \in Got /\ None \in Maybe(PendRecord) /\ None \in Maybe(Name)
      /\ None \in Maybe(Writing)
  BY DEF Typed, Shaped, QueueShape, BeginOp, Maybe, Got
<1>1. UNCHANGED <<sessionVars, pend, user, page, sub, vault, history, bounds>>
  BY DEF BeginOp
<1>2. CASE SameSession(op)
  <2>1. writing' = Update(op) /\ UNCHANGED <<stateQueue, task, msgs>>
    BY <1>2 DEF BeginOp
  <2>2. /\ writing' \in Writing
        /\ op.kind = "getPend" => writing'.got = OwnPend
        /\ op.kind = "getUser" => writing'.got = IF OwnUser = None THEN None ELSE OwnUser.name
    BY <1>0, <2>1, UpdateEffect
  <2>3. OwnPend \in Maybe(PendRecord) /\ (IF OwnUser = None THEN None ELSE OwnUser.name) \in Maybe(Name)
    BY <1>0 DEF RecordShape, OwnPend, OwnUser, Own, Maybe, UserRecord
  <2>4. Written'
    BY <1>0, <2>1, <2>2, <2>3 DEF Written
  <2>5. QueueShape' /\ MsgShape' /\ TaskShape' /\ PageShape' /\ Asked'
    BY <1>1, <2>1 DEF Typed, Shaped, QueueShape, MsgShape, TaskShape, PageShape, Asked
  <2>6. SessionShape' /\ RecordShape'
    BY <1>0, <1>1, <2>2 DEF SessionShape, RecordShape, sessionVars, history, bounds, Maybe, Locked
  <2> QED
    BY <2>4, <2>5, <2>6 DEF Typed, Shaped
<1>3. CASE ~SameSession(op)
  <2>1. stateQueue' = Tail(stateQueue) /\ Return(op.by, None) /\ UNCHANGED writing
    BY <1>3 DEF BeginOp
  <2>2. QueueShape' /\ MsgShape' /\ TaskShape' /\ PageShape' /\ Asked' /\ Written'
    BY <1>0, <1>1, <2>1, ReturnTyped
  <2>3. SessionShape' /\ RecordShape'
    BY <1>0, <1>1, <2>1 DEF SessionShape, RecordShape, sessionVars, history, bounds, Locked
  <2> QED
    BY <2>2, <2>3 DEF Typed, Shaped
<1> QED
  BY <1>2, <1>3

LEMMA EndOpTyped ==
    ASSUME Typed, EndOp
    PROVE  Typed'
<1> DEFINE op == Head(stateQueue)
           got == IF op.gen = generation THEN writing.got ELSE None
<1>0. /\ SessionShape /\ RecordShape /\ Written /\ writing # None /\ stateQueue # <<>>
      /\ op \in Op /\ OpOK(op) /\ writing \in Writing
  BY DEF Typed, Shaped, QueueShape, EndOp, RecordShape, Maybe, Written
<1>1. /\ pend' = writing.pend /\ user' = writing.user /\ Return(op.by, got)
      /\ removing' = (removing /\ op.by # "lock")
      /\ captured' = captured \cup (IF op.kind = "setPend" THEN {op.sub} ELSE {})
      /\ writing' = None /\ stateQueue' = Tail(stateQueue)
      /\ UNCHANGED <<generation, late, page, sub, vault, settled, consent, bounds>>
  BY DEF EndOp
<1>2. /\ got \in Got
      /\ op.kind = "getPend" => got \in Maybe(PendRecord)
      /\ op.kind = "getUser" => got \in Maybe(Name)
  BY <1>0 DEF Written, Writing, Got, Maybe
<1>3. QueueShape' /\ MsgShape' /\ TaskShape' /\ PageShape' /\ Asked' /\ Written'
  BY <1>0, <1>1, <1>2, ReturnTyped
<1>4. SessionShape'
  BY <1>0, <1>1 DEF SessionShape, bounds, Locked
<1>5. RecordShape'
  <2>1. op.kind = "setPend" => op.sub \in Sub
    BY <1>0 DEF OpOK
  <2>2. writing.pend \in Maybe(PendRecord) /\ writing.user \in Maybe(UserRecord)
    BY <1>0 DEF Writing
  <2> QED
    BY <1>0, <1>1, <2>1, <2>2 DEF RecordShape, Maybe
<1> QED
  BY <1>3, <1>4, <1>5 DEF Typed, Shaped

(***************************************************************************)
(* The types are inductive: the messages                                   *)
(***************************************************************************)
\* The message at the head awaits an operation, or it is done.
Runs(pc, kind, n) ==
    /\ msgs' = [msgs EXCEPT ![1].pc = pc, ![1].waits = TRUE]
    /\ Ask("msg", kind, msgs[1].sub, n)
    /\ UNCHANGED <<task, page>>
RunsFor(pc, kind, n) ==
    /\ msgs[1].gen = generation
    /\ \/ /\ pc = "name" /\ kind = "getUser" /\ n = None /\ ~Locked
          /\ msgs[1].kind = "creds" /\ msgs[1].name = None /\ msgs[1].pc = "new"
       \/ /\ pc = "store" /\ kind = "setPend" /\ msgs[1].kind = "creds"
          /\ \/ n = msgs[1].name /\ msgs[1].pc = "new" /\ ~Locked
             \/ n = msgs[1].got /\ msgs[1].pc = "name"
       \/ pc = "store" /\ kind = "mark" /\ n = None /\ msgs[1].kind = "mark"
       \/ pc = "store" /\ kind = "clearPend" /\ n = None /\ msgs[1].kind = "clear"
       \/ pc = "store" /\ kind = "setUser" /\ n = msgs[1].name /\ msgs[1].kind = "user"
       \/ pc = "store" /\ kind = "clearUser" /\ n = None /\ msgs[1].kind = "clearUser"
Leaves(ok) == MessageDone /\ Received(msgs[1], ok) /\ UNCHANGED stateQueue

Handling == MsgBegin \/ MsgName \/ MsgEnd

LEMMA HandlingKeeps ==
    ASSUME Shaped, Handling
    PROVE  /\ UNCHANGED <<sessionVars, recordVars, sub, vault, history, bounds>>
           /\ msgs # <<>> /\ 1 \in DOMAIN msgs /\ ~msgs[1].waits
           /\ \/ \E pc, kind, n : Runs(pc, kind, n) /\ RunsFor(pc, kind, n)
              \/ Leaves(FALSE)
              \/ Leaves(TRUE) /\ msgs[1].pc = "store"
<1>1. msgs # <<>> /\ Writes = msgs[1] /\ 1 \in DOMAIN msgs /\ msgs[1] \in MsgRecord /\ MsgOK(msgs[1])
  <2>1. Writes # None
    BY DEF Handling, MsgBegin, MsgName, MsgEnd
  <2>2. msgs # <<>> /\ Writes = Head(msgs)
    BY <2>1 DEF Writes
  <2>3. msgs \in Seq(MsgRecord) /\ \A i \in DOMAIN msgs : MsgOK(msgs[i])
    BY DEF Shaped, MsgShape
  <2> QED
    BY <2>2, <2>3
<1>2. CASE MsgBegin
  <2>1. msgs[1].pc = "new" /\ ~msgs[1].waits
    BY <1>1, <1>2 DEF MsgBegin, MsgOK
  <2>2. UNCHANGED <<sessionVars, recordVars, sub, vault, history, bounds>>
    BY <1>2 DEF MsgBegin
  <2>3. CASE msgs[1].gen # generation \/ (msgs[1].kind = "creds" /\ Locked)
    BY <1>1, <1>2, <2>1, <2>2, <2>3 DEF MsgBegin, Leaves
  <2>4. CASE ~(msgs[1].gen # generation \/ (msgs[1].kind = "creds" /\ Locked))
    <3>0. msgs[1].kind \in {"creds", "mark", "clear", "user", "clearUser"}
      BY <1>1 DEF MsgRecord
    <3>1. CASE msgs[1].kind = "creds" /\ msgs[1].name = None
      <4>1. Runs("name", "getUser", None)
        BY <1>1, <1>2, <2>4, <3>1 DEF MsgBegin, Runs
      <4> QED
        BY <1>1, <2>1, <2>2, <2>4, <3>1, <4>1 DEF RunsFor
    <3>2. CASE msgs[1].kind = "creds" /\ msgs[1].name # None
      <4>1. Runs("store", "setPend", msgs[1].name)
        BY <1>1, <1>2, <2>4, <3>2 DEF MsgBegin, Runs
      <4> QED
        BY <1>1, <2>1, <2>2, <2>4, <3>2, <4>1 DEF RunsFor
    <3>3. CASE msgs[1].kind = "mark"
      <4>1. Runs("store", "mark", None)
        BY <1>1, <1>2, <2>4, <3>3 DEF MsgBegin, Runs
      <4> QED
        BY <1>1, <2>1, <2>2, <2>4, <3>3, <4>1 DEF RunsFor
    <3>4. CASE msgs[1].kind = "clear"
      <4>1. Runs("store", "clearPend", None)
        BY <1>1, <1>2, <2>4, <3>4 DEF MsgBegin, Runs
      <4> QED
        BY <1>1, <2>1, <2>2, <2>4, <3>4, <4>1 DEF RunsFor
    <3>5. CASE msgs[1].kind = "user"
      <4>1. Runs("store", "setUser", msgs[1].name)
        BY <1>1, <1>2, <2>4, <3>5 DEF MsgBegin, Runs
      <4> QED
        BY <1>1, <2>1, <2>2, <2>4, <3>5, <4>1 DEF RunsFor
    <3>6. CASE msgs[1].kind = "clearUser"
      <4>1. Runs("store", "clearUser", None)
        BY <1>1, <1>2, <2>4, <3>6 DEF MsgBegin, Runs
      <4> QED
        BY <1>1, <2>1, <2>2, <2>4, <3>6, <4>1 DEF RunsFor
    <3> QED
      BY <3>0, <3>1, <3>2, <3>3, <3>4, <3>5, <3>6
  <2> QED
    BY <2>3, <2>4
<1>3. CASE MsgName
  <2>1. msgs[1].pc = "name" /\ ~msgs[1].waits /\ msgs[1].kind = "creds"
        /\ UNCHANGED <<sessionVars, recordVars, sub, vault, history, bounds>>
    BY <1>1, <1>3 DEF MsgName, MsgOK
  <2>2. CASE msgs[1].gen # generation
    BY <1>1, <1>3, <2>1, <2>2 DEF MsgName, Leaves
  <2>3. CASE msgs[1].gen = generation
    <3>1. Runs("store", "setPend", msgs[1].got)
      BY <1>1, <1>3, <2>3 DEF MsgName, Runs
    <3> QED
      BY <1>1, <2>1, <2>3, <3>1 DEF RunsFor
  <2> QED
    BY <2>2, <2>3
<1>4. CASE MsgEnd
  <2>1. /\ msgs[1].pc = "store" /\ ~msgs[1].waits /\ Leaves(msgs[1].got # None)
        /\ UNCHANGED <<sessionVars, recordVars, sub, vault, history, bounds>>
    BY <1>1, <1>4 DEF MsgEnd, Leaves
  <2>2. CASE msgs[1].got = None
    <3>1. (msgs[1].got # None) = FALSE
      BY <2>2
    <3> QED
      BY <1>1, <2>1, <3>1
  <2>3. CASE msgs[1].got # None
    <3>1. (msgs[1].got # None) = TRUE
      BY <2>3
    <3> QED
      BY <1>1, <2>1, <3>1
  <2> QED
    BY <2>2, <2>3
<1> QED
  BY <1>2, <1>3, <1>4 DEF Handling

\* The record of the operation that a message asks for.
RunOp(kind, n) == [by |-> "msg", kind |-> kind, gen |-> generation, sub |-> msgs[1].sub, name |-> n]

LEMMA RunsEffect ==
    ASSUME Shaped, msgs # <<>>, ~msgs[1].waits, NEW pc, NEW kind, NEW n, Runs(pc, kind, n), RunsFor(pc, kind, n)
    PROVE  /\ UNCHANGED <<task, page>>
           /\ stateQueue' = Append(stateQueue, RunOp(kind, n))
           /\ RunOp(kind, n) \in Op /\ OpOK(RunOp(kind, n)) /\ RunOp(kind, n).by = "msg"
           /\ RunOp(kind, n).kind = kind /\ RunOp(kind, n).sub = msgs[1].sub /\ RunOp(kind, n).name = n
           /\ RunOp(kind, n).gen = generation /\ n \in Maybe(Name)
           /\ Len(msgs') = Len(msgs) /\ Len(msgs) \in Nat /\ 1 \in 1 .. Len(msgs)
           /\ \A i \in 1 .. Len(msgs) : i > 1 => msgs'[i] = msgs[i]
           /\ msgs'[1] \in MsgRecord /\ MsgOK(msgs'[1])
           /\ msgs'[1].pc = pc /\ msgs'[1].waits /\ msgs'[1].kind = msgs[1].kind
           /\ msgs'[1].sub = msgs[1].sub /\ msgs'[1].gen = msgs[1].gen /\ msgs'[1].name = msgs[1].name
           /\ msgs'[1].heard = msgs[1].heard
           /\ kind = AwaitsMsg(msgs'[1])
           /\ MsgShape'
<1> DEFINE l == [msgs[1] EXCEPT !.pc = pc, !.waits = TRUE]
           op == RunOp(kind, n)
<1>0. /\ SessionShape /\ msgs \in Seq(MsgRecord) /\ 1 \in 1 .. Len(msgs) /\ Len(msgs) \in Nat
      /\ msgs[1] \in MsgRecord /\ MsgOK(msgs[1])
      /\ \A i \in 1 .. Len(msgs) : MsgOK(msgs[i]) /\ (i > 1 => msgs[i].pc = "new")
  BY DEF Shaped, MsgShape
<1>1. pc \in {"name", "store"}
  BY DEF RunsFor
<1>2. /\ l \in MsgRecord /\ l.pc = pc /\ l.waits /\ l.kind = msgs[1].kind
      /\ l.sub = msgs[1].sub /\ l.gen = msgs[1].gen /\ l.name = msgs[1].name /\ l.heard = msgs[1].heard
  BY <1>0, <1>1 DEF MsgRecord
<1>3. msgs' = [msgs EXCEPT ![1] = l]
  BY <1>0 DEF Runs
<1> HIDE DEF l
<1>4. MsgOK(l)
  BY <1>0, <1>1, <1>2 DEF MsgOK, RunsFor
<1>5. /\ msgs' \in Seq(MsgRecord) /\ Len(msgs') = Len(msgs) /\ msgs'[1] = l
      /\ \A i \in 1 .. Len(msgs) : i > 1 => msgs'[i] = msgs[i]
  BY <1>0, <1>2, <1>3
<1>6. MsgShape'
  <2>1. DOMAIN msgs' = 1 .. Len(msgs)
    BY <1>5
  <2>2. ASSUME NEW i \in 1 .. Len(msgs)
        PROVE  MsgOK(msgs'[i]) /\ (i > 1 => msgs'[i].pc = "new")
    BY <1>0, <1>4, <1>5
  <2> QED
    BY <1>5, <2>1, <2>2 DEF MsgShape
<1>7. kind = AwaitsMsg(l)
  BY <1>2 DEF AwaitsMsg, RunsFor
<1>8. n \in Maybe(Name)
  BY <1>0 DEF RunsFor, MsgRecord, MsgOK, Maybe
<1>9. /\ op.by = "msg" /\ op.kind = kind /\ op.sub = msgs[1].sub /\ op.name = n /\ op.gen = generation
      /\ op = [by |-> "msg", kind |-> kind, gen |-> generation, sub |-> msgs[1].sub, name |-> n]
  BY DEF RunOp
<1>10. op \in Op /\ OpOK(op)
  <2>1. kind \in Kinds /\ msgs[1].sub \in Maybe(Sub) /\ generation \in Session
    BY <1>0 DEF RunsFor, Kinds, MsgRecord, SessionShape
  <2>2. op \in Op
    BY <1>8, <1>9, <2>1 DEF Op, Maybe
  <2>3. /\ kind \in {"setPend", "mark", "clearPend"} => msgs[1].sub \in Sub
        /\ kind = "setUser" => n \in Name
    BY <1>0 DEF RunsFor, MsgOK
  <2> HIDE DEF op
  <2> QED
    BY <1>9, <2>2, <2>3 DEF OpOK
<1>11. stateQueue' = Append(stateQueue, op) /\ UNCHANGED <<task, page>>
  BY DEF Runs, Ask, RunOp
<1> HIDE DEF op
<1> QED
  BY <1>0, <1>2, <1>4, <1>5, <1>6, <1>7, <1>8, <1>9, <1>10, <1>11 DEF op

\* Nobody waits for the message any more.
LEMMA AdvancedTyped ==
    ASSUME Shaped, msgs # <<>>
    PROVE  /\ Advanced(task) \in [Task -> TaskRecord]
           /\ \A u \in Task :
                /\ SameTask(task[u], Advanced(task)[u])
                /\ Advanced(task)[u].behind = IF task[u].behind = 0 THEN 0 ELSE task[u].behind - 1
                /\ Advanced(task)[u].behind \in 0 .. Len(msgs) - 1
           /\ Len(msgs) \in Nat /\ Len(msgs) >= 1
<1>0. task \in [Task -> TaskRecord] /\ Len(msgs) \in Nat /\ Len(msgs) >= 1
      /\ \A u \in Task : task[u].behind \in 0 .. Len(msgs)
  BY DEF Shaped, TaskShape, MsgShape
<1>1. ASSUME NEW u \in Task, NEW l, l = IF task[u].behind = 0 THEN task[u] ELSE [task[u] EXCEPT !.behind = @ - 1]
      PROVE  /\ l \in TaskRecord /\ SameTask(task[u], l)
             /\ l.behind = IF task[u].behind = 0 THEN 0 ELSE task[u].behind - 1
             /\ l.behind \in 0 .. Len(msgs) - 1
  <2>1. task[u] \in TaskRecord /\ task[u].behind \in 0 .. Len(msgs)
    BY <1>0
  <2>2. CASE task[u].behind = 0
    BY <1>0, <1>1, <2>1, <2>2 DEF SameTask
  <2>3. CASE task[u].behind # 0
    <3>1. task[u].behind - 1 \in Nat /\ task[u].behind - 1 \in 0 .. Len(msgs) - 1
      BY <1>0, <2>1, <2>3
    <3>2. l = [task[u] EXCEPT !.behind = task[u].behind - 1]
      BY <1>1, <2>3
    <3> QED
      BY <2>1, <2>3, <3>1, <3>2 DEF SameTask, TaskRecord
  <2> QED
    BY <2>2, <2>3
<1>2. Advanced(task) = [u \in Task |-> IF task[u].behind = 0 THEN task[u] ELSE [task[u] EXCEPT !.behind = @ - 1]]
  BY DEF Advanced
<1> QED
  BY <1>0, <1>1, <1>2

\* A message is done: at most a check begins, which waits for all the others.
LeavesToCheck(t) ==
    \E pg \in PageRecord, s \in Maybe(Sub) :
        /\ pg.latest = page.latest /\ pg.banner = page.banner
        /\ BeginCheck(pg, Advanced(task), t, FALSE, s, 0, Len(msgs'))

LEMMA LeavesEffect ==
    ASSUME Shaped, msgs # <<>>, ~msgs[1].waits, NEW ok \in BOOLEAN, Leaves(ok)
    PROVE  /\ UNCHANGED stateQueue
           /\ Len(msgs) \in Nat /\ Len(msgs') = Len(msgs) - 1 /\ Len(msgs) >= 1
           /\ \A i \in 1 .. Len(msgs') : i + 1 \in 1 .. Len(msgs) /\ msgs'[i] = msgs[i + 1] /\ msgs'[i].pc = "new"
           /\ MsgShape'
           /\ \/ \E t \in Task : LeavesToCheck(t)
              \/ task' = Advanced(task) /\ SamePage(page, page') /\ page'.banner = page.banner
<1>0. /\ msgs \in Seq(MsgRecord) /\ Len(msgs) \in Nat /\ Len(msgs) >= 1 /\ page \in PageRecord
      /\ msgs[1] \in MsgRecord /\ MsgOK(msgs[1])
      /\ \A i \in 1 .. Len(msgs) : MsgOK(msgs[i]) /\ (i > 1 => msgs[i].pc = "new")
  BY DEF Shaped, MsgShape, PageShape
<1>1. msgs' = Tail(msgs) /\ UNCHANGED stateQueue /\ Received(msgs[1], ok)
  BY DEF Leaves, MessageDone
<1>2. /\ msgs' \in Seq(MsgRecord) /\ Len(msgs') = Len(msgs) - 1
      /\ \A i \in 1 .. Len(msgs') : i + 1 \in 1 .. Len(msgs) /\ msgs'[i] = msgs[i + 1]
  BY <1>0, <1>1
<1>3. \A i \in 1 .. Len(msgs') : MsgOK(msgs'[i]) /\ msgs'[i].pc = "new"
  BY <1>0, <1>2
<1>4. MsgShape'
  BY <1>2, <1>3 DEF MsgShape
<1>5. \/ \E t \in Task : LeavesToCheck(t)
      \/ task' = Advanced(task) /\ SamePage(page, page') /\ page'.banner = page.banner
  <2> DEFINE latest == msgs[1].heard /\ msgs[1].kind = "creds" /\ page.storing /\ page.latest = msgs[1].sub
             pg == [page EXCEPT !.storing = FALSE, !.timer = msgs[1].sub]
  <2>1. msgs[1].sub \in Maybe(Sub) /\ None \in Maybe(Sub)
    BY <1>0 DEF MsgRecord, Maybe
  <2>2. pg \in PageRecord /\ pg.latest = page.latest /\ pg.banner = page.banner
    BY <1>0, <2>1 DEF PageRecord
  <2>3. \/ \E t \in Task : BeginCheck(pg, Advanced(task), t, FALSE, msgs[1].sub, 0, Len(msgs) - 1)
        \/ \E t \in Task : BeginCheck(page, Advanced(task), t, FALSE, None, 0, Len(msgs) - 1)
        \/ task' = Advanced(task) /\ page' \in {page, CaptureFailed(page)}
    BY <1>1 DEF Received
  <2> HIDE DEF pg, latest
  <2>4. CASE \E t \in Task : BeginCheck(pg, Advanced(task), t, FALSE, msgs[1].sub, 0, Len(msgs) - 1)
    <3>1. PICK t \in Task : BeginCheck(pg, Advanced(task), t, FALSE, msgs[1].sub, 0, Len(msgs'))
      BY <1>2, <2>4
    <3>2. LeavesToCheck(t)
      BY <2>1, <2>2, <3>1 DEF LeavesToCheck
    <3> QED
      BY <3>2
  <2>5. CASE \E t \in Task : BeginCheck(page, Advanced(task), t, FALSE, None, 0, Len(msgs) - 1)
    <3>1. PICK t \in Task : BeginCheck(page, Advanced(task), t, FALSE, None, 0, Len(msgs'))
      BY <1>2, <2>5
    <3>2. LeavesToCheck(t)
      BY <1>0, <2>1, <3>1 DEF LeavesToCheck
    <3> QED
      BY <3>2
  <2>6. CASE task' = Advanced(task) /\ page' \in {page, CaptureFailed(page)}
    <3>1. SamePage(page, CaptureFailed(page)) /\ CaptureFailed(page).banner = page.banner
      BY <1>0, PageTyped
    <3> QED
      BY <1>0, <2>6, <3>1 DEF SamePage
  <2> QED
    BY <2>3, <2>4, <2>5, <2>6
<1> QED
  BY <1>0, <1>1, <1>2, <1>3, <1>4, <1>5

LEMMA HandlingTyped ==
    ASSUME Typed, Handling
    PROVE  Typed'
<1>0. /\ Shaped /\ SessionShape /\ RecordShape /\ QueueShape /\ TaskShape /\ PageShape /\ Asked /\ Written
      /\ stateQueue \in Seq(Op)
  BY DEF Typed, Shaped, QueueShape
<1>1. /\ UNCHANGED <<sessionVars, recordVars, sub, vault, history, bounds>>
      /\ msgs # <<>> /\ 1 \in DOMAIN msgs /\ ~msgs[1].waits
      /\ \/ \E pc, kind, n : Runs(pc, kind, n) /\ RunsFor(pc, kind, n)
         \/ Leaves(FALSE)
         \/ Leaves(TRUE) /\ msgs[1].pc = "store"
  BY <1>0, HandlingKeeps
<1>2. SessionShape' /\ RecordShape'
  BY <1>0, <1>1 DEF SessionShape, RecordShape, sessionVars, recordVars, history, bounds, Locked
<1>3. UNCHANGED writing /\ MsgKeepsWaiting
  BY <1>1 DEF recordVars, MsgKeepsWaiting
<1>4. ASSUME NEW pc, NEW kind, NEW n, Runs(pc, kind, n), RunsFor(pc, kind, n)
      PROVE  MsgShape' /\ TaskShape' /\ PageShape' /\ QueueShape' /\ Asked' /\ Written'
  <2> DEFINE op == RunOp(kind, n)
  <2>1. /\ UNCHANGED <<task, page>>
        /\ stateQueue' = Append(stateQueue, op)
        /\ op \in Op /\ OpOK(op) /\ op.by = "msg" /\ op.kind = kind /\ op.sub = msgs[1].sub
        /\ op.gen = generation
        /\ Len(msgs') = Len(msgs) /\ Len(msgs) \in Nat /\ 1 \in 1 .. Len(msgs)
        /\ msgs'[1].waits /\ msgs'[1].sub = msgs[1].sub /\ msgs'[1].gen = msgs[1].gen
        /\ kind = AwaitsMsg(msgs'[1])
        /\ MsgShape'
    BY <1>0, <1>1, <1>4, RunsEffect
  <2> HIDE DEF op
  <2>2. op.by \notin Task /\ msgs[1].gen = generation
    BY <1>4, <2>1, ConstantAssumption DEF RunsFor
  <2>3. \A u \in Task : KeepsWaiting(u)
    BY <2>1 DEF KeepsWaiting
  <2>4. msgs' # <<>>
    BY <2>1
  <2>5. Asked'
    BY <1>0, <1>1, <1>3, <2>1, <2>2, <2>3, <2>4, AskedAppend
  <2>6. QueueShape'
    BY <1>0, <2>1 DEF QueueShape
  <2>7. Written'
    BY <1>0, <1>3, <2>1, WrittenKept
  <2>8. TaskShape' /\ PageShape'
    BY <1>0, <2>1 DEF TaskShape, PageShape
  <2> QED
    BY <2>1, <2>5, <2>6, <2>7, <2>8
<1>5. ASSUME NEW ok \in BOOLEAN, Leaves(ok)
      PROVE  MsgShape' /\ TaskShape' /\ PageShape' /\ QueueShape' /\ Asked' /\ Written'
  <2>1. /\ UNCHANGED stateQueue
        /\ Len(msgs) \in Nat /\ Len(msgs') = Len(msgs) - 1 /\ Len(msgs) >= 1
        /\ MsgShape'
        /\ \/ \E t \in Task : LeavesToCheck(t)
           \/ task' = Advanced(task) /\ SamePage(page, page')
    BY <1>0, <1>1, <1>5, LeavesEffect
  <2>2. /\ Advanced(task) \in [Task -> TaskRecord]
        /\ \A u \in Task : SameTask(task[u], Advanced(task)[u]) /\ Advanced(task)[u].behind \in 0 .. Len(msgs')
    BY <1>0, <1>1, <2>1, AdvancedTyped
  <2>3. ASSUME NEW t \in Task, LeavesToCheck(t)
        PROVE  TaskShape' /\ PageShape' /\ QueueShape' /\ Asked' /\ Written'
    <3>1. PICK pg \in PageRecord, s \in Maybe(Sub) : BeginCheck(pg, Advanced(task), t, FALSE, s, 0, Len(msgs'))
      BY <2>3 DEF LeavesToCheck
    <3>2. Len(msgs') \in 0 .. Len(msgs') /\ Len(msgs') \in Nat /\ 0 \in 0 .. 2 /\ FALSE \in BOOLEAN
      BY <2>1
    <3> QED
      BY <1>3, <2>1, <2>2, <3>1, <3>2, BeginsTyped
  <2>4. CASE task' = Advanced(task) /\ SamePage(page, page')
    BY <1>3, <2>1, <2>2, <2>4, SameTasksTyped DEF SamePage
  <2> QED
    BY <2>1, <2>3, <2>4
<1> QED
  BY <1>1, <1>2, <1>4, <1>5 DEF Typed, Shaped

(***************************************************************************)
(* All steps                                                               *)
(***************************************************************************)
Others == Login \/ Expire \/ \E n \in Name, v \in Secret \cup {None} : OutsideChange(n, v)
Click == \E t \in Task, e \in Maybe(Name), n \in Maybe(Name) : SaveClick(t, e, n)

LEMMA NextSteps ==
    ASSUME Next
    PROVE  \/ \E t \in Task : Worker(t)
           \/ PageAct \/ StartsCheck \/ Click \/ Lock \/ LateClear \/ Others \/ Restart
           \/ BeginOp \/ EndOp \/ Handling
<1>1. CASE Resume
  BY <1>1, Zenon DEF Resume, Worker, Check, Save, Handling
<1>2. CASE Work
  BY <1>2, Zenon DEF Work, Worker, Check, Save, Handling, StartsCheck
<1>3. CASE (\E s \in Sub, f \in Form : Submit(s, f)) \/ (\E n \in Name : TypeName(n))
  BY <1>3, Zenon DEF PageAct
<1>4. CASE \E t \in Task, e \in Name \cup {None}, n \in Name \cup {None} : SaveClick(t, e, n)
  BY <1>4, Zenon DEF Click, Maybe
<1>5. CASE (\E u \in Url : Navigate(u)) \/ BecomesVisible \/ StatusAction
  BY <1>5, Zenon DEF StartsCheck
<1>6. CASE Transition \/ TimersEnd \/ StatusDismiss \/ StatusExpires \/ BannerDismiss
  BY <1>6, Zenon DEF PageAct
<1>7. CASE \E t \in Task : RequestFails(t) \/ SaveAnswerLost(t)
  BY <1>7, Zenon DEF Worker, Save
<1>8. CASE Login \/ Expire \/ \E n \in Name, v \in Secret \cup {None} : OutsideChange(n, v)
  BY <1>8, Zenon DEF Others
<1> QED
  BY <1>1, <1>2, <1>3, <1>4, <1>5, <1>6, <1>7, <1>8, Zenon DEF Next

LEMMA TypedInit == Init => Typed
<1> SUFFICES ASSUME Init
    PROVE  Typed
  OBVIOUS
<1>1. SessionShape
  <2>1. scene \in Scene /\ acts = 0 /\ generation = 1 /\ removing = FALSE /\ late = FALSE
    BY DEF Init
  <2>2. scene.acts \in Nat
    BY <2>1, ConstantAssumption
  <2>3. generation \in Session
    BY <2>1, ConstantAssumption DEF Session
  <2>4. acts \in 0 .. scene.acts
    BY <2>1, <2>2
  <2>5. removing \in BOOLEAN /\ late \in BOOLEAN /\ ~removing
    BY <2>1
  <2> QED
    BY <2>1, <2>3, <2>4, <2>5 DEF SessionShape
<1>2. RecordShape
  BY DEF Init, RecordShape, Maybe
<1>3. QueueShape /\ MsgShape /\ Asked /\ Written
  BY DEF Init, QueueShape, MsgShape, Asked, Written
<1>4. TaskShape
  <2>1. msgs = <<>> /\ task = [t \in Task |-> IdleTask] /\ Len(msgs) = 0
    BY DEF Init
  <2> QED
    BY <2>1, IdleTyped DEF TaskShape
<1>5. PageShape
  BY DocumentTyped DEF Init, PageShape
<1> QED
  BY <1>1, <1>2, <1>3, <1>4, <1>5 DEF Typed, Shaped

LEMMA TypedNext == Typed /\ [Next]_vars => Typed'
<1> SUFFICES ASSUME Typed, [Next]_vars
    PROVE  Typed'
  OBVIOUS
<1>1. CASE Next
  <2>1. CASE \E t \in Task : Worker(t)
    BY <2>1, WorkerTyped
  <2>2. CASE PageAct
    BY <2>2, PageActTyped
  <2>3. CASE StartsCheck
    BY <2>3, StartsTyped
  <2>4. CASE Click
    BY <2>4, SaveClickTyped DEF Click
  <2>5. CASE Lock \/ LateClear
    BY <2>5, LockTyped
  <2>6. CASE Others
    BY <2>6, OthersTyped DEF Others
  <2>7. CASE Restart
    BY <2>7, RestartTyped
  <2>8. CASE BeginOp
    BY <2>8, BeginOpTyped
  <2>9. CASE EndOp
    BY <2>9, EndOpTyped
  <2>10. CASE Handling
    BY <2>10, HandlingTyped
  <2> QED
    BY <1>1, <2>1, <2>2, <2>3, <2>4, <2>5, <2>6, <2>7, <2>8, <2>9, <2>10, NextSteps
<1>2. CASE UNCHANGED vars
  <2>1. /\ UNCHANGED <<writing, stateQueue, msgs, task, page>>
        /\ UNCHANGED <<generation, removing, late, pend, user, sub, settled, captured, consent, scene, acts>>
    BY <1>2 DEF vars, sessionVars, recordVars, history, bounds
  <2>2. QueueShape' /\ MsgShape' /\ TaskShape' /\ PageShape' /\ Asked' /\ Written'
    BY <2>1, UnchangedTyped
  <2>3. SessionShape' /\ RecordShape'
    BY <2>1 DEF Typed, Shaped, SessionShape, RecordShape, Locked
  <2> QED
    BY <2>2, <2>3 DEF Typed, Shaped
<1> QED
  BY <1>1, <1>2

LEMMA TypedAlways == Spec => []Typed
  BY TypedInit, TypedNext, PTL DEF Spec

(***************************************************************************)
(* Where operations, messages and tasks come from                          *)
(***************************************************************************)
\* An operation that was queued in this step.
Queued(op) ==
    /\ op.kind = "setPend" =>
           /\ msgs # <<>> /\ msgs[1].kind = "creds" /\ msgs[1].gen = generation /\ op.gen = generation
           /\ op.by = "msg" /\ op.sub = msgs[1].sub
           /\ \/ msgs[1].pc = "new" /\ ~Locked /\ op.name = msgs[1].name
              \/ msgs[1].pc = "name" /\ ~msgs[1].waits /\ op.name = msgs[1].got
    /\ op.kind = "setUser" => msgs # <<>> /\ msgs[1].kind = "user" /\ op.name = msgs[1].name
    /\ op.kind = "clearPend" => \/ op.sub \in settled'
                                \/ msgs # <<>> /\ msgs[1].kind = "clear" /\ op.sub = msgs[1].sub

QueueFrom ==
    \A i \in DOMAIN stateQueue' :
        (\E j \in DOMAIN stateQueue : stateQueue'[i] = stateQueue[j]) \/ Queued(stateQueue'[i])

\* What may be returned to by: what was being written, if it asked for that.
Returned(by, got) ==
    got # None => /\ writing # None /\ got = writing.got
                  /\ stateQueue # <<>> /\ Head(stateQueue).by = by

\* How a message goes on.
MsgFrom(m, l) ==
    /\ l.kind = m.kind /\ l.sub = m.sub /\ l.gen = m.gen /\ l.name = m.name
    /\ \/ l.pc = m.pc /\ l.waits = m.waits /\ l.got = m.got
       \/ /\ ~m.waits /\ l.waits /\ m.gen = generation
          /\ l.kind = "creds" => \/ m.pc = "new" /\ ~Locked /\ (l.pc = "name" => m.name = None)
                                 \/ m.pc = "name" /\ l.pc = "store"
       \/ m.waits /\ ~l.waits /\ l.pc = m.pc /\ m = msgs[1] /\ Returned("msg", l.got)

MsgsFrom ==
    \A i \in DOMAIN msgs' :
        (\E j \in DOMAIN msgs : j >= i /\ MsgFrom(msgs[j], msgs'[i])) \/ Sent(msgs'[i])

\* How a task goes on; NewTask is a check or a save that has just begun.
NewTask(k) ==
    /\ k.pc = "queued" /\ ~k.waits
    /\ \/ k.kind = "check" /\ k.pending = None
       \/ /\ k.kind = "save" /\ page.banner # None
          /\ \E e \in Maybe(Name), n \in Maybe(Name), t \in Task : SaveClick(t, e, n) /\ k = Clicked(e, n)

TaskFrom(t) ==
    \/ SameTask(task[t], task'[t])
    \/ task'[t] = IdleTask
    \/ NewTask(task'[t])
    \/ ~task[t].waits /\ Moves(task[t], task'[t])
    \/ task[t].waits /\ \E got \in Got : TaskGot(task[t], task'[t], got) /\ Returned(t, got)

From == QueueFrom /\ MsgsFrom /\ \A t \in Task : TaskFrom(t)

Grows ==
    /\ settled \subseteq settled' /\ consent \subseteq consent' /\ captured \subseteq captured'
    /\ \A s \in Sub : sub[s] # None => sub'[s] = sub[s]

\* Steps that leave the records as they are, and the operation at the head.
Quiet ==
    /\ UNCHANGED <<sessionVars, recordVars, captured>>
    /\ stateQueue # <<>> => stateQueue' # <<>> /\ Head(stateQueue') = Head(stateQueue)

LEMMA QueueSame ==
    ASSUME stateQueue \in Seq(Op), UNCHANGED stateQueue
    PROVE  QueueFrom /\ (stateQueue # <<>> => stateQueue' # <<>> /\ Head(stateQueue') = Head(stateQueue))
  BY DEF QueueFrom

LEMMA QueueAppend ==
    ASSUME stateQueue \in Seq(Op), NEW op \in Op, stateQueue' = Append(stateQueue, op), Queued(op)
    PROVE  QueueFrom /\ (stateQueue # <<>> => stateQueue' # <<>> /\ Head(stateQueue') = Head(stateQueue))
<1>1. ASSUME NEW i \in DOMAIN stateQueue'
      PROVE  (\E j \in DOMAIN stateQueue : stateQueue'[i] = stateQueue[j]) \/ stateQueue'[i] = op
  <2>1. i \in 1 .. Len(stateQueue) + 1 /\ Len(stateQueue) \in Nat
    BY <1>1
  <2>2. CASE i = Len(stateQueue) + 1
    BY <2>1, <2>2
  <2>3. CASE i \in 1 .. Len(stateQueue)
    BY <2>1, <2>3
  <2> QED
    BY <2>1, <2>2, <2>3
<1> QED
  BY <1>1 DEF QueueFrom

LEMMA QueueTail ==
    ASSUME stateQueue \in Seq(Op), stateQueue # <<>>, stateQueue' = Tail(stateQueue)
    PROVE  QueueFrom
<1>1. ASSUME NEW i \in DOMAIN stateQueue'
      PROVE  \E j \in DOMAIN stateQueue : stateQueue'[i] = stateQueue[j]
  <2>1. i + 1 \in DOMAIN stateQueue /\ stateQueue'[i] = stateQueue[i + 1]
    BY <1>1
  <2> QED
    BY <2>1
<1> QED
  BY <1>1 DEF QueueFrom

LEMMA MsgsSame ==
    ASSUME MsgShape, UNCHANGED msgs
    PROVE  MsgsFrom
<1>1. \A i \in DOMAIN msgs : i >= i /\ MsgFrom(msgs[i], msgs[i])
  BY DEF MsgFrom, MsgShape
<1> QED
  BY <1>1 DEF MsgsFrom

LEMMA MsgsSent ==
    ASSUME MsgShape, NEW ms, Sends(ms)
    PROVE  MsgsFrom
<1>1. ASSUME NEW i \in DOMAIN msgs'
      PROVE  (i \in DOMAIN msgs /\ msgs'[i] = msgs[i]) \/ Sent(msgs'[i])
  <2>1. /\ msgs \in Seq(MsgRecord) /\ ms \in Seq(MsgRecord) /\ msgs' = msgs \o ms
        /\ \A j \in DOMAIN ms : Sent(ms[j])
    BY DEF MsgShape, Sends, Added
  <2>2. i \in 1 .. Len(msgs) + Len(ms) /\ Len(msgs) \in Nat /\ Len(ms) \in Nat
    BY <1>1, <2>1
  <2>3. CASE i \in 1 .. Len(msgs)
    BY <2>1, <2>2, <2>3
  <2>4. CASE i > Len(msgs)
    <3>1. i - Len(msgs) \in DOMAIN ms /\ msgs'[i] = ms[i - Len(msgs)]
      BY <2>1, <2>2, <2>4
    <3> QED
      BY <2>1, <3>1
  <2> QED
    BY <2>2, <2>3, <2>4
<1>2. \A i \in DOMAIN msgs : i >= i /\ MsgFrom(msgs[i], msgs[i])
  BY DEF MsgFrom, MsgShape
<1> QED
  BY <1>1, <1>2 DEF MsgsFrom

LEMMA TasksSame ==
    ASSUME TaskShape, UNCHANGED task
    PROVE  \A t \in Task : TaskFrom(t)
  BY DEF TaskShape, SameTask, TaskFrom

LEMMA WorkerFrom ==
    ASSUME Shaped, NEW t \in Task, Worker(t)
    PROVE  From /\ Grows /\ Quiet
<1>0. /\ stateQueue \in Seq(Op) /\ MsgShape /\ SessionShape /\ task \in [Task -> TaskRecord]
      /\ \A u \in Task : SameTask(task[u], task[u])
  BY DEF Shaped, QueueShape, TaskShape, SameTask
<1>1. /\ UNCHANGED <<sessionVars, recordVars, sub, captured, scene>>
      /\ settled \subseteq settled' /\ consent \subseteq consent'
  BY WorkerKeeps
<1>2. Effect(t) /\ ~task[t].waits
  BY WorkerEffect
<1>3. \/ UNCHANGED stateQueue
      \/ \E op \in Op : stateQueue' = Append(stateQueue, op) /\ Queued(op)
  <2>1. CASE Answers(t)
    BY <2>1 DEF Answers
  <2>2. ASSUME NEW k \in TaskRecord, GoesOn(t, k), Moves(task[t], k)
        PROVE  \/ UNCHANGED stateQueue
               \/ \E op \in Op : stateQueue' = Append(stateQueue, op) /\ Queued(op)
    <3> DEFINE op == [by |-> t, kind |-> Awaits(k.pc), gen |-> generation, sub |-> k.sub, name |-> None]
    <3>1. CASE ~k.waits
      BY <2>2, <3>1 DEF GoesOn
    <3>2. CASE k.waits
      <4>1. stateQueue' = Append(stateQueue, op) /\ TaskOK(k)
        BY <2>2, <3>2 DEF GoesOn
      <4>2. op \in Op /\ op.kind = Awaits(k.pc) /\ op.sub = k.sub
            /\ op.kind \in {"getPend", "getUser", "clearUser", "clearPend"}
        BY <1>0, <3>2, <4>1, AskOpTyped
      <4> HIDE DEF op
      <4>3. op.kind = "clearPend" => k.pc = "clearPend"
        BY <3>2, <4>1, <4>2 DEF Awaits, TaskOK
      <4>4. k.pc = "clearPend" => k.sub \in settled'
        BY <2>2 DEF Moves
      <4>5. Queued(op)
        BY <4>2, <4>3, <4>4 DEF Queued
      <4> QED
        BY <4>1, <4>2, <4>5
    <3> QED
      BY <3>1, <3>2
  <2> QED
    BY <1>2, <2>1, <2>2 DEF Effect
<1>4. QueueFrom /\ (stateQueue # <<>> => stateQueue' # <<>> /\ Head(stateQueue') = Head(stateQueue))
  BY <1>0, <1>3, QueueSame, QueueAppend
<1>5. MsgsFrom
  <2>1. CASE UNCHANGED msgs
    BY <1>0, <2>1, MsgsSame
  <2>2. CASE ~UNCHANGED msgs
    <3> DEFINE a == Message("clear", task[t].sub, None, FALSE)
               b == Message("clearUser", None, None, FALSE)
    <3>1. SaveEnd(t) /\ task[t].sub \in Sub /\ Added(<<a, b>>)
      BY <2>2, WorkerMessages
    <3>2. Fresh(a, "clear", task[t].sub, None) /\ Fresh(b, "clearUser", None, None)
      BY <1>0, <3>1, MessageTyped DEF Maybe
    <3>3. task[t].pc = "clearPend"
      BY <3>1 DEF SaveEnd, At
    <3> HIDE DEF a, b
    <3>4. Sent(a) /\ Sent(b)
      BY <3>2, <3>3 DEF Sent, Fresh
    <3> QED
      BY <1>0, <3>1, <3>4, TwoSent, MsgsSent
  <2> QED
    BY <2>1, <2>2
<1>6. ASSUME NEW u \in Task
      PROVE  TaskFrom(u)
  <2>1. task'[t] = IdleTask \/ Moves(task[t], task'[t])
    BY <1>0, <1>2 DEF Effect, Answers, GoesOn
  <2>2. u # t => task'[u] = task[u]
    BY <1>0, <1>2 DEF Effect, Answers, GoesOn
  <2> QED
    BY <1>0, <1>2, <2>1, <2>2 DEF TaskFrom
<1> QED
  BY <1>1, <1>4, <1>5, <1>6 DEF From, Grows, Quiet

LEMMA PageActFrom ==
    ASSUME Shaped, PageAct
    PROVE  From /\ Grows /\ Quiet
<1>1. /\ UNCHANGED <<sessionVars, recordVars, stateQueue, task, captured, scene>>
      /\ \A s \in Sub : sub[s] # None => sub'[s] = sub[s]
      /\ settled \subseteq settled' /\ consent \subseteq consent'
      /\ UNCHANGED msgs \/ \E ms : Sends(ms)
  BY PageActKeeps
<1>2. stateQueue \in Seq(Op) /\ MsgShape /\ TaskShape
  BY DEF Shaped, QueueShape
<1>3. MsgsFrom
  BY <1>1, <1>2, MsgsSame, MsgsSent
<1>4. QueueFrom /\ (stateQueue # <<>> => stateQueue' # <<>> /\ Head(stateQueue') = Head(stateQueue))
  BY <1>1, <1>2, QueueSame
<1>5. \A t \in Task : TaskFrom(t)
  BY <1>1, <1>2, TasksSame
<1> QED
  BY <1>1, <1>3, <1>4, <1>5 DEF From, Grows, Quiet

\* A check begins while the other tasks go on.
LEMMA BegunFrom ==
    ASSUME TaskShape, NEW t \in Task, NEW ts \in [Task -> TaskRecord], \A u \in Task : SameTask(task[u], ts[u]),
           NEW pg \in PageRecord, NEW m \in BOOLEAN, NEW s \in Maybe(Sub), NEW a \in 0 .. 2, NEW e \in Nat,
           BeginCheck(pg, ts, t, m, s, a, e)
    PROVE  \A u \in Task : TaskFrom(u)
<1>1. PICK k \in TaskRecord :
        /\ task' = [ts EXCEPT ![t] = k] /\ k.kind = "check" /\ k.pc = "queued" /\ ~k.waits /\ k.pending = None
  BY BeginTyped
<1>2. NewTask(k)
  BY <1>1 DEF NewTask
<1> QED
  BY <1>1, <1>2 DEF TaskFrom

LEMMA StartsFrom ==
    ASSUME Shaped, StartsCheck
    PROVE  From /\ Grows /\ Quiet
<1>1. /\ UNCHANGED <<sessionVars, recordVars, stateQueue, sub, vault, history, scene>>
      /\ MsgShape' /\ MarksAdded
      /\ \E t \in Task : Starts(t)
  BY StartsKeeps
<1>2. stateQueue \in Seq(Op) /\ MsgShape /\ TaskShape
  BY DEF Shaped, QueueShape
<1>3. MsgsFrom
  <2>1. /\ Len(msgs) \in Nat /\ Len(msgs') \in Nat /\ Len(msgs') >= Len(msgs)
        /\ msgs \in Seq(MsgRecord) /\ msgs' \in Seq(MsgRecord)
        /\ \A i \in DOMAIN msgs' : MsgOK(msgs'[i]) /\ (i > Len(msgs) => msgs'[i].kind = "mark" /\ msgs'[i].pc = "new")
    BY <1>1, <1>2 DEF MarksAdded, MsgShape
  <2>2. ASSUME NEW i \in DOMAIN msgs'
        PROVE  (i \in DOMAIN msgs /\ MsgFrom(msgs[i], msgs'[i])) \/ Sent(msgs'[i])
    <3>1. CASE i > Len(msgs)
      BY <2>1, <2>2, <3>1 DEF Sent, MsgOK
    <3>2. CASE i \in 1 .. Len(msgs)
      <4>1. /\ msgs'[i].kind = msgs[i].kind /\ msgs'[i].pc = msgs[i].pc
            /\ msgs'[i].waits = msgs[i].waits /\ msgs'[i].sub = msgs[i].sub /\ msgs'[i].gen = msgs[i].gen
            /\ msgs'[i].name = msgs[i].name /\ msgs'[i].got = msgs[i].got
        BY <1>1, <3>2 DEF MarksAdded
      <4> QED
        BY <2>1, <3>2, <4>1 DEF MsgFrom
    <3> QED
      BY <2>1, <2>2, <3>1, <3>2
  <2>3. \A i \in DOMAIN msgs : i >= i
    BY <2>1
  <2> QED
    BY <2>2, <2>3 DEF MsgsFrom
<1>4. QueueFrom /\ (stateQueue # <<>> => stateQueue' # <<>> /\ Head(stateQueue') = Head(stateQueue))
  BY <1>1, <1>2, QueueSame
<1>5. \A t \in Task : TaskFrom(t)
  <2>1. PICK t \in Task : Starts(t)
    BY <1>1
  <2>2. PICK ts \in [Task -> TaskRecord], pg \in PageRecord, m \in BOOLEAN, s \in Maybe(Sub), a \in 0 .. 2 :
          /\ \A u \in Task : SameTask(task[u], ts[u])
          /\ BeginCheck(pg, ts, t, m, s, a, Len(msgs'))
    BY <2>1 DEF Starts
  <2>3. Len(msgs') \in Nat
    BY <1>1 DEF MarksAdded
  <2> QED
    BY <1>2, <2>2, <2>3, BegunFrom
<1> QED
  BY <1>1, <1>3, <1>4, <1>5 DEF From, Grows, Quiet, history

LEMMA ClickFrom ==
    ASSUME Shaped, Click
    PROVE  From /\ Grows /\ Quiet
<1>1. PICK t \in Task, e \in Maybe(Name), n \in Maybe(Name) : SaveClick(t, e, n)
  BY DEF Click
<1>2. /\ UNCHANGED <<sessionVars, recordVars, stateQueue, msgs, sub, vault, settled, captured, bounds>>
      /\ page.banner \in Banner
      /\ Clicked(e, n).kind = "save" /\ Clicked(e, n).pc = "queued" /\ ~Clicked(e, n).waits
      /\ task' = [task EXCEPT ![t] = Clicked(e, n)]
      /\ consent \subseteq consent'
  BY <1>1, SaveClickKeeps
<1>3. page.banner # None
  BY <1>1 DEF SaveClick
<1>4. stateQueue \in Seq(Op) /\ MsgShape /\ task \in [Task -> TaskRecord]
      /\ \A u \in Task : SameTask(task[u], task[u])
  BY DEF Shaped, QueueShape, TaskShape, SameTask
<1>5. NewTask(Clicked(e, n))
  BY <1>1, <1>2, <1>3 DEF NewTask
<1>6. \A u \in Task : TaskFrom(u)
  BY <1>2, <1>4, <1>5 DEF TaskFrom
<1> QED
  BY <1>2, <1>4, <1>6, QueueSame, MsgsSame DEF From, Grows, Quiet

LEMMA LockFrom ==
    ASSUME Shaped, Lock \/ LateClear
    PROVE  /\ From /\ Grows /\ UNCHANGED <<recordVars, captured>>
           /\ stateQueue # <<>> => stateQueue' # <<>> /\ Head(stateQueue') = Head(stateQueue)
<1>0. /\ stateQueue \in Seq(Op) /\ MsgShape /\ TaskShape /\ generation \in Session
  BY DEF Shaped, QueueShape, SessionShape
<1>1. /\ UNCHANGED <<recordVars, msgs, task, page, sub, settled, captured, consent>>
      /\ \E by \in {"lock", "late"} :
            stateQueue' = Append(stateQueue, [by |-> by, kind |-> "clearAll", gen |-> generation, sub |-> None, name |-> None])
  BY DEF Lock, LateClear, Ask, history, bounds
<1>2. \E op \in Op : stateQueue' = Append(stateQueue, op) /\ Queued(op)
  <2>1. PICK by \in {"lock", "late"} :
            stateQueue' = Append(stateQueue, [by |-> by, kind |-> "clearAll", gen |-> generation, sub |-> None, name |-> None])
    BY <1>1
  <2> DEFINE op == [by |-> by, kind |-> "clearAll", gen |-> generation, sub |-> None, name |-> None]
  <2>2. op \in Op /\ op.kind = "clearAll"
    BY <1>0 DEF Op, Kinds
  <2>3. stateQueue' = Append(stateQueue, op)
    BY <2>1
  <2> HIDE DEF op
  <2> QED
    BY <2>2, <2>3 DEF Queued
<1> QED
  BY <1>0, <1>1, <1>2, QueueAppend, MsgsSame, TasksSame DEF From, Grows

LEMMA OthersFrom ==
    ASSUME Shaped, Others
    PROVE  From /\ Grows /\ UNCHANGED <<writing, stateQueue, removing, captured>>
<1>0. stateQueue \in Seq(Op) /\ MsgShape /\ TaskShape
  BY DEF Shaped, QueueShape
<1>1. /\ UNCHANGED <<writing, stateQueue, msgs, task, page, sub, captured, consent, removing>>
      /\ settled \subseteq settled'
  BY DEF Others, Login, Expire, OutsideChange, sessionVars, recordVars, history
<1> QED
  BY <1>0, <1>1, QueueSame, MsgsSame, TasksSame DEF From, Grows

LEMMA RestartFrom ==
    ASSUME Shaped, Restart
    PROVE  From /\ Grows
<1>1. /\ UNCHANGED <<sub, vault, settled, consent, scene>> /\ msgs' = <<>>
      /\ task' = [t \in Task |-> IdleTask] /\ captured \subseteq captured'
      /\ \/ stateQueue' = <<>>
         \/ stateQueue' = <<[by |-> "late", kind |-> "clearAll", gen |-> generation', sub |-> None, name |-> None]>>
  BY RestartKeeps
<1>2. QueueFrom
  <2> DEFINE op == [by |-> "late", kind |-> "clearAll", gen |-> generation', sub |-> None, name |-> None]
  <2>1. Queued(op)
    BY DEF Queued
  <2>2. stateQueue' = <<>> \/ stateQueue' = <<op>>
    BY <1>1
  <2> HIDE DEF op
  <2>3. \A i \in DOMAIN stateQueue' : stateQueue'[i] = op
    BY <2>2
  <2> QED
    BY <2>1, <2>3 DEF QueueFrom
<1>3. MsgsFrom
  BY <1>1 DEF MsgsFrom
<1>4. \A t \in Task : TaskFrom(t)
  BY <1>1 DEF TaskFrom
<1> QED
  BY <1>1, <1>2, <1>3, <1>4 DEF From, Grows

\* An operation ends, and its value is returned.
LEMMA ReturnFrom ==
    ASSUME Typed, stateQueue # <<>>, NEW got \in Got, Return(Head(stateQueue).by, got),
           got # None => writing # None /\ got = writing.got, stateQueue' = Tail(stateQueue)
    PROVE  From
<1> DEFINE by == Head(stateQueue).by
<1>0. /\ stateQueue \in Seq(Op) /\ msgs \in Seq(MsgRecord) /\ Asked /\ 1 \in DOMAIN stateQueue
      /\ Head(stateQueue) = stateQueue[1] /\ MsgShape
      /\ \A u \in Task : SameTask(task[u], task[u])
  BY DEF Typed, Shaped, QueueShape, MsgShape, TaskShape, SameTask
<1>1. /\ \A u \in Task : u # by => task'[u] = task[u]
      /\ by \in Task => TaskGot(task[by], task'[by], got)
      /\ msgs' \in Seq(MsgRecord) /\ Len(msgs') = Len(msgs) /\ Len(msgs) \in Nat
      /\ \A i \in 1 .. Len(msgs) : i > 1 \/ by # "msg" => msgs'[i] = msgs[i]
      /\ by = "msg" => 1 \in 1 .. Len(msgs) /\ MsgGot(msgs[1], msgs'[1], got)
  BY ReturnEffect
<1>2. Returned(by, got)
  BY DEF Returned
<1>3. by \in Task => task[by].waits
  BY <1>0 DEF Asked
<1>4. by = "msg" => msgs[1].waits
  BY <1>0 DEF Asked
<1>5. MsgsFrom
  <2>1. ASSUME NEW i \in DOMAIN msgs'
        PROVE  i \in DOMAIN msgs /\ i >= i /\ MsgFrom(msgs[i], msgs'[i])
    <3>0. i \in 1 .. Len(msgs) /\ i \in DOMAIN msgs /\ i >= i
      BY <1>0, <1>1, <2>1
    <3>1. CASE i > 1 \/ by # "msg"
      <4>1. msgs'[i] = msgs[i]
        BY <1>1, <3>0, <3>1
      <4> QED
        BY <3>0, <4>1 DEF MsgFrom
    <3>2. CASE i = 1 /\ by = "msg"
      BY <1>1, <1>2, <1>4, <3>0, <3>2 DEF MsgFrom, MsgGot
    <3> QED
      BY <3>0, <3>1, <3>2
  <2> QED
    BY <2>1 DEF MsgsFrom
<1>6. \A u \in Task : TaskFrom(u)
  BY <1>0, <1>1, <1>2, <1>3 DEF TaskFrom
<1> QED
  BY <1>0, <1>5, <1>6, QueueTail DEF From

LEMMA BeginOpFrom ==
    ASSUME Typed, BeginOp
    PROVE  /\ From /\ Grows /\ UNCHANGED <<sessionVars, pend, user, captured>> /\ stateQueue # <<>>
           /\ \/ SameSession(Head(stateQueue)) /\ writing' = Update(Head(stateQueue)) /\ UNCHANGED stateQueue
              \/ writing' = None
<1>0. stateQueue \in Seq(Op) /\ stateQueue # <<>> /\ MsgShape /\ TaskShape /\ None \in Got /\ writing = None
  BY DEF Typed, Shaped, QueueShape, BeginOp, Got, Maybe
<1>1. UNCHANGED <<sessionVars, pend, user, page, sub, settled, captured, consent>>
  BY DEF BeginOp, history
<1>2. CASE SameSession(Head(stateQueue))
  <2>1. writing' = Update(Head(stateQueue)) /\ UNCHANGED <<stateQueue, task, msgs>>
    BY <1>2 DEF BeginOp
  <2> QED
    BY <1>0, <1>1, <1>2, <2>1, QueueSame, MsgsSame, TasksSame DEF From, Grows
<1>3. CASE ~SameSession(Head(stateQueue))
  <2>1. stateQueue' = Tail(stateQueue) /\ Return(Head(stateQueue).by, None) /\ UNCHANGED writing
    BY <1>3 DEF BeginOp
  <2> QED
    BY <1>0, <1>1, <2>1, ReturnFrom DEF Grows
<1> QED
  BY <1>2, <1>3

LEMMA EndOpFrom ==
    ASSUME Typed, EndOp
    PROVE  From /\ Grows
<1> DEFINE op == Head(stateQueue)
           got == IF op.gen = generation THEN writing.got ELSE None
<1>0. /\ writing # None /\ stateQueue # <<>> /\ writing \in Writing
  BY DEF Typed, Shaped, EndOp, RecordShape, Maybe, Written
<1>1. /\ Return(op.by, got) /\ captured \subseteq captured'
      /\ stateQueue' = Tail(stateQueue)
      /\ UNCHANGED <<sub, settled, consent>>
  BY DEF EndOp
<1>2. got \in Got /\ (got # None => got = writing.got)
  BY <1>0 DEF Writing, Got, Maybe
<1> HIDE DEF got
<1> QED
  BY <1>0, <1>1, <1>2, ReturnFrom DEF Grows

LEMMA HandlingFrom ==
    ASSUME Typed, Handling
    PROVE  From /\ Grows /\ Quiet
<1>0. /\ Shaped /\ MsgShape /\ msgs \in Seq(MsgRecord) /\ TaskShape /\ stateQueue \in Seq(Op)
  BY DEF Typed, Shaped, QueueShape, MsgShape
<1>1. /\ UNCHANGED <<sessionVars, recordVars, sub, vault, history, bounds>>
      /\ msgs # <<>> /\ 1 \in DOMAIN msgs /\ ~msgs[1].waits
      /\ \/ \E pc, kind, n : Runs(pc, kind, n) /\ RunsFor(pc, kind, n)
         \/ Leaves(FALSE)
         \/ Leaves(TRUE) /\ msgs[1].pc = "store"
  BY <1>0, HandlingKeeps
<1>2. Grows /\ UNCHANGED <<sessionVars, recordVars, captured>>
  BY <1>1 DEF Grows, history
<1>3. ASSUME NEW pc, NEW kind, NEW n, Runs(pc, kind, n), RunsFor(pc, kind, n)
      PROVE  From /\ Quiet
  <2> DEFINE op == RunOp(kind, n)
  <2>1. /\ UNCHANGED <<task, page>>
        /\ stateQueue' = Append(stateQueue, op)
        /\ op \in Op /\ op.by = "msg" /\ op.kind = kind /\ op.sub = msgs[1].sub /\ op.name = n
        /\ op.gen = generation
        /\ Len(msgs') = Len(msgs) /\ Len(msgs) \in Nat /\ 1 \in 1 .. Len(msgs)
        /\ \A i \in 1 .. Len(msgs) : i > 1 => msgs'[i] = msgs[i]
        /\ msgs'[1].pc = pc /\ msgs'[1].waits /\ msgs'[1].kind = msgs[1].kind
        /\ msgs'[1].sub = msgs[1].sub /\ msgs'[1].gen = msgs[1].gen /\ msgs'[1].name = msgs[1].name
        /\ MsgShape'
    BY <1>0, <1>1, <1>3, RunsEffect
  <2> HIDE DEF op
  <2>2. Queued(op)
    BY <1>1, <1>3, <2>1 DEF Queued, RunsFor
  <2>3. MsgsFrom
    <3>1. MsgFrom(msgs[1], msgs'[1])
      BY <1>1, <1>3, <2>1 DEF MsgFrom, RunsFor
    <3>2. ASSUME NEW i \in DOMAIN msgs'
          PROVE  i \in DOMAIN msgs /\ i >= i /\ MsgFrom(msgs[i], msgs'[i])
      <4>1. i \in 1 .. Len(msgs) /\ i \in DOMAIN msgs /\ i >= i
        BY <1>0, <2>1, <3>2 DEF MsgShape
      <4>2. CASE i = 1
        BY <3>1, <4>1, <4>2
      <4>3. CASE i > 1
        <5>1. msgs'[i] = msgs[i]
          BY <2>1, <4>1, <4>3
        <5> QED
          BY <4>1, <5>1 DEF MsgFrom
      <4> QED
        BY <4>1, <4>2, <4>3
    <3> QED
      BY <3>2 DEF MsgsFrom
  <2> QED
    BY <1>0, <1>2, <2>1, <2>2, <2>3, QueueAppend, TasksSame DEF From, Quiet
<1>4. ASSUME NEW ok \in BOOLEAN, Leaves(ok)
      PROVE  From /\ Quiet
  <2>1. /\ UNCHANGED stateQueue
        /\ Len(msgs) \in Nat /\ Len(msgs') = Len(msgs) - 1 /\ Len(msgs) >= 1
        /\ \A i \in 1 .. Len(msgs') : i + 1 \in 1 .. Len(msgs) /\ msgs'[i] = msgs[i + 1]
        /\ MsgShape'
        /\ \/ \E t \in Task : LeavesToCheck(t)
           \/ task' = Advanced(task)
    BY <1>0, <1>1, <1>4, LeavesEffect
  <2>2. /\ Advanced(task) \in [Task -> TaskRecord]
        /\ \A u \in Task : SameTask(task[u], Advanced(task)[u])
    BY <1>0, <1>1, AdvancedTyped
  <2>3. MsgsFrom
    <3>1. ASSUME NEW i \in DOMAIN msgs'
          PROVE  \E j \in DOMAIN msgs : j >= i /\ MsgFrom(msgs[j], msgs'[i])
      <4>1. i \in 1 .. Len(msgs') /\ i + 1 \in DOMAIN msgs /\ i + 1 >= i /\ msgs'[i] = msgs[i + 1]
        BY <1>0, <2>1, <3>1 DEF MsgShape
      <4>2. MsgFrom(msgs[i + 1], msgs'[i])
        BY <4>1 DEF MsgFrom
      <4> QED
        BY <4>1, <4>2
    <3> QED
      BY <3>1 DEF MsgsFrom
  <2>4. \A u \in Task : TaskFrom(u)
    <3>1. ASSUME NEW t \in Task, LeavesToCheck(t)
          PROVE  \A u \in Task : TaskFrom(u)
      <4>1. PICK pg \in PageRecord, s \in Maybe(Sub) : BeginCheck(pg, Advanced(task), t, FALSE, s, 0, Len(msgs'))
        BY <3>1 DEF LeavesToCheck
      <4>2. Len(msgs') \in Nat /\ 0 \in 0 .. 2 /\ FALSE \in BOOLEAN
        BY <2>1
      <4> QED
        BY <1>0, <2>2, <4>1, <4>2, BegunFrom
    <3>2. CASE task' = Advanced(task)
      BY <2>2, <3>2 DEF TaskFrom
    <3> QED
      BY <2>1, <3>1, <3>2
  <2> QED
    BY <1>0, <1>2, <2>1, <2>3, <2>4, QueueSame DEF From, Quiet
<1> QED
  BY <1>1, <1>2, <1>3, <1>4

LEMMA StepFrom ==
    ASSUME Typed, Next
    PROVE  From /\ Grows
<1>0. Shaped
  BY DEF Typed
<1> QED
  BY <1>0, NextSteps, WorkerFrom, PageActFrom, StartsFrom, ClickFrom, LockFrom, OthersFrom, RestartFrom,
     BeginOpFrom, EndOpFrom, HandlingFrom

(***************************************************************************)
(* Which submissions are cleared, and what a lock leaves                   *)
(***************************************************************************)
Open(g) == g % 2 = 1

\* What asks for a submission to be cleared, does so for one that is settled.
Settling ==
    /\ \A i \in DOMAIN stateQueue : stateQueue[i].kind = "clearPend" => stateQueue[i].sub \in settled
    /\ \A i \in DOMAIN msgs : msgs[i].kind = "clear" => msgs[i].sub \in settled
    /\ \A t \in Task : task[t].pc = "clearPend" => task[t].sub \in settled

\* What stores a submission was asked to while the vault was open.
Opened ==
    /\ \A i \in DOMAIN stateQueue : stateQueue[i].kind = "setPend" => Open(stateQueue[i].gen)
    /\ \A i \in DOMAIN msgs : msgs[i].kind = "creds" /\ msgs[i].pc # "new" => Open(msgs[i].gen)

\* So a record of a submission is of a session in which it was open.
OfSession(p) == p # None => Open(p.gen) /\ p.gen <= generation

\* A submission is only dropped by a write that clears all, by one of a later
\* session, or when it is settled.
Dropped(p) == Head(stateQueue).kind = "clearAll" \/ p.gen # generation \/ p.sub \in settled

Records ==
    /\ LockedLeavesNoPending
    /\ OfSession(pend)
    /\ writing # None =>
         /\ OfSession(writing.pend)
         /\ Head(stateQueue).kind = "clearAll" => writing.pend = None /\ writing.user = None
         /\ Locked /\ ~removing =>
               writing.pend = None /\ (writing.user # None => writing.user.gen = generation)
         /\ pend # None /\ writing.pend = None => Dropped(pend)

Kept == Settling /\ Opened /\ Records

LEMMA SettlingNext ==
    ASSUME Typed, Settling, From, Grows
    PROVE  Settling'
<1>1. settled \subseteq settled'
  BY DEF Grows
<1>2. msgs # <<>> => 1 \in DOMAIN msgs
  BY DEF Typed, Shaped, MsgShape
<1>3. ASSUME NEW i \in DOMAIN stateQueue', stateQueue'[i].kind = "clearPend"
      PROVE  stateQueue'[i].sub \in settled'
  BY <1>1, <1>2, <1>3 DEF From, QueueFrom, Queued, Settling
<1>4. ASSUME NEW i \in DOMAIN msgs', msgs'[i].kind = "clear"
      PROVE  msgs'[i].sub \in settled'
  <2>1. CASE Sent(msgs'[i])
    BY <1>1, <1>4, <2>1 DEF Sent, Settling
  <2>2. ASSUME NEW j \in DOMAIN msgs, MsgFrom(msgs[j], msgs'[i])
        PROVE  msgs'[i].sub \in settled'
    BY <1>1, <1>4, <2>2 DEF MsgFrom, Settling
  <2> QED
    BY <1>4, <2>1, <2>2 DEF From, MsgsFrom
<1>5. ASSUME NEW t \in Task, task'[t].pc = "clearPend"
      PROVE  task'[t].sub \in settled'
  <2>1. CASE SameTask(task[t], task'[t])
    BY <1>1, <1>5, <2>1 DEF SameTask, Settling
  <2>2. CASE task'[t] = IdleTask
    BY <1>5, <2>2, IdleTyped
  <2>3. CASE NewTask(task'[t])
    BY <1>5, <2>3 DEF NewTask
  <2>4. CASE Moves(task[t], task'[t])
    BY <1>5, <2>4 DEF Moves
  <2>5. ASSUME NEW got, TaskGot(task[t], task'[t], got)
        PROVE  task'[t].sub \in settled'
    BY <1>1, <1>5, <2>5 DEF TaskGot, Settling
  <2> QED
    BY <2>1, <2>2, <2>3, <2>4, <2>5 DEF From, TaskFrom
<1> QED
  BY <1>3, <1>4, <1>5 DEF Settling

LEMMA OpenedNext ==
    ASSUME Typed, Opened, From
    PROVE  Opened'
<1>1. ~Locked => Open(generation)
  <2>1. generation \in Nat
    BY DEF Typed, Shaped, SessionShape, Session
  <2> QED
    BY <2>1, Parity DEF Locked, Open
<1>2. msgs # <<>> => 1 \in DOMAIN msgs
  BY DEF Typed, Shaped, MsgShape
<1>3. ASSUME NEW i \in DOMAIN stateQueue', stateQueue'[i].kind = "setPend"
      PROVE  Open(stateQueue'[i].gen)
  <2>1. CASE \E j \in DOMAIN stateQueue : stateQueue'[i] = stateQueue[j]
    BY <1>3, <2>1 DEF Opened
  <2>2. CASE Queued(stateQueue'[i])
    BY <1>1, <1>2, <1>3, <2>2 DEF Queued, Opened
  <2> QED
    BY <1>3, <2>1, <2>2 DEF From, QueueFrom
<1>4. ASSUME NEW i \in DOMAIN msgs', msgs'[i].kind = "creds", msgs'[i].pc # "new"
      PROVE  Open(msgs'[i].gen)
  <2>1. ~Sent(msgs'[i])
    BY <1>4 DEF Sent
  <2>2. ASSUME NEW j \in DOMAIN msgs, MsgFrom(msgs[j], msgs'[i])
        PROVE  Open(msgs'[i].gen)
    BY <1>1, <1>4, <2>2 DEF MsgFrom, Opened
  <2> QED
    BY <1>4, <2>1, <2>2 DEF From, MsgsFrom
<1> QED
  BY <1>3, <1>4 DEF Opened

LEMMA QuietRecords ==
    ASSUME Records, Quiet, Grows, Written
    PROVE  Records'
<1>1. /\ UNCHANGED <<generation, removing, pend, user, writing>>
      /\ writing # None => Head(stateQueue') = Head(stateQueue)
      /\ settled \subseteq settled'
  BY DEF Quiet, Grows, Written, sessionVars, recordVars
<1> QED
  BY <1>1 DEF Records, LockedLeavesNoPending, OfSession, Dropped, Locked

LEMMA LockRecords ==
    ASSUME Typed, Records, Lock \/ LateClear
    PROVE  Records'
<1>0. /\ UNCHANGED recordVars /\ Grows
      /\ stateQueue # <<>> => Head(stateQueue') = Head(stateQueue)
      /\ Written /\ generation \in Nat
      /\ pend \in Maybe(PendRecord) /\ writing \in Maybe(Writing)
  BY LockFrom DEF Typed, Shaped, SessionShape, Session, RecordShape
<1>1. /\ UNCHANGED <<pend, user, writing>> /\ settled \subseteq settled'
      /\ writing # None => Head(stateQueue') = Head(stateQueue)
  BY <1>0 DEF recordVars, Written, Grows
<1>2. CASE LateClear
  <2>1. UNCHANGED <<generation, removing>>
    BY <1>2 DEF LateClear
  <2> QED
    BY <1>1, <2>1 DEF Records, LockedLeavesNoPending, OfSession, Dropped, Locked
<1>3. CASE Lock
  <2>1. generation' = generation + 1 /\ removing' = TRUE
    BY <1>3 DEF Lock
  <2>2. /\ pend # None => pend.gen \in Nat
        /\ writing # None /\ writing.pend # None => writing.pend.gen \in Nat
    BY <1>0 DEF Maybe, Writing, PendRecord, Session
  <2>3. OfSession(pend)' /\ (writing # None => OfSession(writing.pend)')
    BY <1>0, <1>1, <2>1, <2>2 DEF Records, OfSession
  <2>4. pend # None => pend.gen # generation'
    BY <1>0, <2>1, <2>2 DEF Records, OfSession
  <2>5. Dropped(pend)' \/ pend' = None
    BY <1>1, <2>4 DEF Dropped
  <2>6. LockedLeavesNoPending'
    BY <2>1 DEF LockedLeavesNoPending
  <2> QED
    BY <1>1, <2>1, <2>3, <2>5, <2>6 DEF Records
<1> QED
  BY <1>2, <1>3

LEMMA OthersRecords ==
    ASSUME Typed, Records, Others
    PROVE  Records'
<1>0. /\ UNCHANGED <<writing, stateQueue, removing>> /\ settled \subseteq settled'
      /\ generation \in Nat
      /\ pend \in Maybe(PendRecord) /\ writing \in Maybe(Writing)
  BY OthersFrom DEF Typed, Shaped, SessionShape, Session, RecordShape, Grows
<1>1. CASE Login
  <2>1. generation' = generation + 1 /\ UNCHANGED <<pend, user>> /\ Locked
    BY <1>1 DEF Login, recordVars
  <2>2. ~Locked'
    BY <1>0, <2>1, Parity, Zenon DEF Locked
  <2>3. /\ pend # None => pend.gen \in Nat
        /\ writing # None /\ writing.pend # None => writing.pend.gen \in Nat
    BY <1>0 DEF Maybe, Writing, PendRecord, Session
  <2>4. OfSession(pend)' /\ (writing # None => OfSession(writing.pend)')
    BY <1>0, <2>1, <2>3 DEF Records, OfSession
  <2>5. pend # None => pend.gen # generation'
    BY <1>0, <2>1, <2>3 DEF Records, OfSession
  <2>6. Dropped(pend)' \/ pend' = None
    BY <2>1, <2>5 DEF Dropped
  <2>7. LockedLeavesNoPending'
    BY <2>2 DEF LockedLeavesNoPending
  <2> QED
    BY <1>0, <2>1, <2>2, <2>4, <2>6, <2>7 DEF Records
<1>2. CASE Expire
  <2>1. UNCHANGED generation /\ writing = None /\ pend' \in {pend, None} /\ user' \in {user, None}
    BY <1>2 DEF Expire, sessionVars
  <2> QED
    BY <1>0, <2>1 DEF Records, LockedLeavesNoPending, OfSession, Locked
<1>3. CASE \E n \in Name, v \in Secret \cup {None} : OutsideChange(n, v)
  <2>1. UNCHANGED <<generation, pend, user>>
    BY <1>3 DEF OutsideChange, sessionVars, recordVars
  <2> QED
    BY <1>0, <2>1 DEF Records, LockedLeavesNoPending, OfSession, Dropped, Locked
<1> QED
  BY <1>1, <1>2, <1>3 DEF Others

LEMMA RestartRecords ==
    ASSUME Typed, Records, Restart
    PROVE  Records'
<1>0. /\ generation \in Nat /\ removing \in BOOLEAN /\ (removing => Locked /\ generation # 0)
      /\ pend \in Maybe(PendRecord) /\ writing \in Maybe(Writing)
  BY DEF Typed, Shaped, SessionShape, Session, RecordShape
<1>1. /\ generation' = (IF removing THEN generation - 1 ELSE generation)
      /\ removing' = FALSE /\ writing' = None
      /\ \/ pend' = pend /\ user' = user
         \/ writing # None /\ pend' = writing.pend /\ user' = writing.user
  BY RestartKeeps DEF Typed
<1>2. OfSession(pend') /\ (pend' # None => pend'.gen \in Nat)
  BY <1>0, <1>1 DEF Records, Maybe, Writing, PendRecord, Session, OfSession
<1>3. CASE removing
  <2>1. generation - 1 \in Nat /\ (generation - 1) + 1 = generation /\ generation' = generation - 1
    BY <1>0, <1>1, <1>3
  <2>2. ~Locked'
    BY <1>0, <1>3, <2>1, Parity, Zenon DEF Locked
  <2>3. ~Open(generation)
    BY <1>0, <1>3, Parity, Zenon DEF Locked, Open
  <2>4. pend' # None => pend'.gen # generation
    BY <1>2, <2>3 DEF OfSession
  <2>5. OfSession(pend)'
    BY <1>0, <1>2, <2>1, <2>4 DEF OfSession
  <2> QED
    BY <1>1, <2>2, <2>5 DEF Records, LockedLeavesNoPending
<1>4. CASE ~removing
  <2>1. generation' = generation /\ OfSession(pend)'
    BY <1>1, <1>2, <1>4 DEF OfSession
  <2> QED
    BY <1>1, <1>4, <2>1 DEF Records, LockedLeavesNoPending, Locked
<1> QED
  BY <1>0, <1>3, <1>4

\* What an operation of this session stores.
LEMMA UpdateRecords ==
    ASSUME Typed, Kept, NEW op \in Op, OpOK(op), SameSession(op),
           op.kind = "setPend" => Open(op.gen), op.kind = "clearPend" => op.sub \in settled,
           NEW r, r = Update(op)
    PROVE  /\ OfSession(r.pend)
           /\ op.kind = "clearAll" => r.pend = None /\ r.user = None
           /\ Locked /\ ~removing => r.pend = None /\ (r.user # None => r.user.gen = generation)
           /\ pend # None /\ r.pend = None =>
                 op.kind = "clearAll" \/ pend.gen # generation \/ pend.sub \in settled
<1>0. /\ SessionShape /\ RecordShape /\ generation \in Nat
      /\ pend \in Maybe(PendRecord) /\ user \in Maybe(UserRecord)
  BY DEF Typed, Shaped, SessionShape, Session, RecordShape
<1>1. /\ r \in Writing
      /\ op.kind = "getPend" => r.pend = OwnPend /\ r.user = user
      /\ op.kind = "setPend" => /\ r.pend = [sub |-> op.sub, ready |-> FALSE, name |-> op.name, gen |-> generation]
                                /\ r.user = user
      /\ op.kind = "mark" => /\ r.user = user
                             /\ r.pend = OwnPend \/ (OwnPend # None /\ r.pend = [OwnPend EXCEPT !.ready = TRUE])
      /\ op.kind = "clearPend" => r.pend = Cleared(op.sub) /\ r.user = user
      /\ op.kind = "getUser" => r.pend = pend /\ r.user = OwnUser
      /\ op.kind = "setUser" => r.pend = pend /\ r.user = [name |-> op.name, gen |-> generation]
      /\ op.kind = "clearUser" => r.pend = pend /\ r.user = None
      /\ op.kind = "clearAll" => r.pend = None /\ r.user = None
      /\ op.kind \in Kinds
  BY <1>0, UpdateEffect
<1>2. op.kind = "setPend" => Open(generation)
  BY DEF SameSession
<1>3. /\ pend # None => Open(pend.gen) /\ pend.gen <= generation /\ pend \in PendRecord
      /\ OwnPend = pend \/ (OwnPend = None /\ (pend # None => pend.gen # generation))
      /\ OwnUser = user \/ OwnUser = None
  BY <1>0 DEF Kept, Records, OfSession, OwnPend, OwnUser, Own, Maybe
<1>4. Cleared(op.sub) = OwnPend \/ (Cleared(op.sub) = None /\ OwnPend.sub = op.sub /\ OwnPend # None)
  BY DEF Cleared
\* The record that is stored: a new one, the one there was, or none.
<1>5. \/ op.kind = "setPend" /\ r.pend # None /\ r.pend.gen = generation
      \/ op.kind = "mark" /\ pend # None /\ r.pend # None /\ r.pend.gen = pend.gen
      \/ op.kind # "setPend" /\ r.pend = pend
      \/ /\ r.pend = None
         /\ op.kind = "clearAll" \/ (pend # None => pend.gen # generation \/ pend.sub \in settled)
  <2>1. CASE op.kind = "setPend"
    <3>1. op.sub \in Sub /\ op.name \in Maybe(Name) /\ generation \in Session
      BY <1>0, <2>1 DEF OpOK, Op, Maybe, SessionShape
    <3>2. r.pend = [sub |-> op.sub, ready |-> FALSE, name |-> op.name, gen |-> generation]
      BY <1>1, <2>1
    <3>3. r.pend \in PendRecord /\ r.pend.gen = generation
      BY <3>1, <3>2 DEF PendRecord, Maybe
    <3> QED
      BY <2>1, <3>3, NoneAssumption
  <2>2. CASE op.kind = "mark"
    <3>1. CASE r.pend = OwnPend
      BY <1>3, <2>2, <3>1
    <3>2. CASE OwnPend # None /\ r.pend = [OwnPend EXCEPT !.ready = TRUE]
      <4>1. OwnPend = pend /\ pend \in PendRecord
        BY <1>3, <3>2
      <4>2. r.pend \in PendRecord /\ r.pend.gen = pend.gen
        BY <3>2, <4>1 DEF PendRecord
      <4> QED
        BY <2>2, <3>2, <4>1, <4>2, NoneAssumption
    <3> QED
      BY <1>1, <2>2, <3>1, <3>2
  <2>3. CASE op.kind = "getPend"
    BY <1>1, <1>3, <2>3
  <2>4. CASE op.kind = "clearPend"
    <3>1. r.pend = Cleared(op.sub) /\ op.sub \in settled
      BY <1>1, <2>4
    <3> QED
      BY <1>3, <1>4, <2>4, <3>1
  <2>5. CASE op.kind \in {"getUser", "setUser", "clearUser"}
    BY <1>1, <2>5
  <2>6. CASE op.kind = "clearAll"
    BY <1>1, <2>6
  <2> QED
    BY <1>1, <2>1, <2>2, <2>3, <2>4, <2>5, <2>6 DEF Kinds
<1>6. OfSession(r.pend)
  BY <1>0, <1>2, <1>3, <1>5 DEF OfSession
<1>7. ASSUME Locked, ~removing
      PROVE  r.pend = None /\ (r.user # None => r.user.gen = generation)
  <2>1. pend = None /\ (user # None => user.gen = generation)
    BY <1>7 DEF Kept, Records, LockedLeavesNoPending
  <2>2. ~Open(generation)
    BY <1>0, <1>7, Parity, Zenon DEF Locked, Open
  <2>3. r.pend = None
    BY <1>2, <1>5, <2>1, <2>2
  <2>4. r.user = user \/ r.user = None \/ r.user = [name |-> op.name, gen |-> generation]
    BY <1>1, <1>3 DEF Kinds
  <2> QED
    BY <2>1, <2>3, <2>4
<1> QED
  BY <1>1, <1>5, <1>6, <1>7

LEMMA BeginOpRecords ==
    ASSUME Typed, Kept, BeginOp
    PROVE  Records'
<1>1. /\ UNCHANGED <<generation, removing, pend, user>> /\ stateQueue # <<>> /\ UNCHANGED settled
      /\ \/ /\ SameSession(Head(stateQueue)) /\ writing' = Update(Head(stateQueue)) /\ UNCHANGED stateQueue
         \/ writing' = None
  BY BeginOpFrom DEF sessionVars, BeginOp, history
<1>2. CASE writing' = None
  BY <1>1, <1>2 DEF Kept, Records, LockedLeavesNoPending, OfSession, Locked
<1>3. ASSUME NEW op, op = Head(stateQueue), SameSession(op), NEW r, r = Update(op), writing' = r,
             UNCHANGED stateQueue
      PROVE  Records'
  <2>0. /\ op \in Op /\ OpOK(op)
        /\ op.kind = "setPend" => Open(op.gen)
        /\ op.kind = "clearPend" => op.sub \in settled
    <3>1. stateQueue \in Seq(Op) /\ 1 \in DOMAIN stateQueue /\ op = stateQueue[1]
      BY <1>1, <1>3 DEF Typed, Shaped, QueueShape
    <3>2. stateQueue[1] \in Op /\ OpOK(stateQueue[1])
      BY <3>1 DEF Typed, Shaped, QueueShape
    <3> QED
      BY <3>1, <3>2 DEF Kept, Settling, Opened
  <2>1. /\ OfSession(r.pend)
        /\ op.kind = "clearAll" => r.pend = None /\ r.user = None
        /\ Locked /\ ~removing => r.pend = None /\ (r.user # None => r.user.gen = generation)
        /\ pend # None /\ r.pend = None =>
              op.kind = "clearAll" \/ pend.gen # generation \/ pend.sub \in settled
    BY <1>3, <2>0, UpdateRecords
  <2>2. Head(stateQueue') = op
    BY <1>3
  <2> QED
    BY <1>1, <1>3, <2>1, <2>2 DEF Kept, Records, LockedLeavesNoPending, OfSession, Dropped, Locked
<1> QED
  BY <1>1, <1>2, <1>3

LEMMA EndOpRecords ==
    ASSUME Typed, Kept, EndOp
    PROVE  Records'
<1>0. /\ writing # None /\ stateQueue # <<>> /\ 1 \in DOMAIN stateQueue /\ Head(stateQueue) = stateQueue[1]
      /\ OpOK(stateQueue[1]) /\ removing \in BOOLEAN
  BY DEF Typed, Shaped, SessionShape, QueueShape, EndOp, Written
<1>1. /\ pend' = writing.pend /\ user' = writing.user /\ UNCHANGED generation
      /\ removing' = (removing /\ Head(stateQueue).by # "lock") /\ writing' = None
  BY DEF EndOp
<1>2. OfSession(pend)'
  BY <1>0, <1>1 DEF Kept, Records, OfSession
<1>3. ASSUME Locked', ~removing'
      PROVE  pend' = None /\ (user' # None => user'.gen = generation')
  <2>1. CASE removing
    <3>1. Head(stateQueue).kind = "clearAll"
      BY <1>0, <1>1, <1>3, <2>1 DEF OpOK
    <3> QED
      BY <1>0, <1>1, <3>1 DEF Kept, Records
  <2>2. CASE ~removing
    BY <1>0, <1>1, <1>3, <2>2 DEF Kept, Records, Locked
  <2> QED
    BY <1>0, <2>1, <2>2
<1> QED
  BY <1>1, <1>2, <1>3 DEF Records, LockedLeavesNoPending

LEMMA KeptInit == Init => Kept
<1> SUFFICES ASSUME Init
    PROVE  Kept
  OBVIOUS
<1>1. \A t \in Task : task[t].pc # "clearPend"
  BY IdleTyped DEF Init
<1> QED
  BY <1>1 DEF Init, Kept, Settling, Opened, Records, LockedLeavesNoPending, OfSession

LEMMA KeptNext == Typed /\ Kept /\ [Next]_vars => Kept'
<1> SUFFICES ASSUME Typed, Kept, [Next]_vars
    PROVE  Kept'
  OBVIOUS
<1>0. Written /\ Shaped
  BY DEF Typed
<1>1. CASE Next
  <2>1. From /\ Grows
    BY <1>1, StepFrom
  <2>2. Settling' /\ Opened'
    BY <2>1, SettlingNext, OpenedNext DEF Kept
  <2>3. Quiet => Records'
    BY <1>0, <2>1, QuietRecords DEF Kept
  <2>4. Records'
    BY <1>0, <1>1, <2>3, NextSteps, WorkerFrom, PageActFrom, StartsFrom, ClickFrom, HandlingFrom,
       LockRecords, OthersRecords, RestartRecords, BeginOpRecords, EndOpRecords DEF Kept
  <2> QED
    BY <2>2, <2>4 DEF Kept
<1>2. CASE UNCHANGED vars
  <2>1. UNCHANGED <<generation, removing, pend, user, writing, stateQueue, msgs, task, settled>>
    BY <1>2 DEF vars, sessionVars, recordVars, history
  <2> QED
    BY <2>1 DEF Kept, Settling, Opened, Records, LockedLeavesNoPending, OfSession, Dropped, Locked
<1> QED
  BY <1>1, <1>2

LEMMA KeptAlways == Spec => []Kept
  BY TypedInit, TypedNext, KeptInit, KeptNext, PTL DEF Spec

\* Neither the write that was under way when the user locked the vault, nor
\* one that was queued before or asked for afterwards, leaves a submitted
\* password in browser storage, or a user name of the session that ended
\* (clearToken, updatePendingRecords).
THEOREM LockLeavesNoPending == Spec => []LockedLeavesNoPending
<1>1. Kept => LockedLeavesNoPending
  BY DEF Kept, Records
<1> QED
  BY <1>1, KeptAlways, PTL

\* Only what settles a submission, a newer one, or the clearing of a lock
\* removes it: for every number of submissions, saves and locks
\* (clearPendingCredentials, updatePendingRecords).
THEOREM SubmissionsKept == Spec => SubmissionKept
<1> DEFINE Keeps == \A s \in Sub :
        pend # None /\ pend.sub = s /\ (pend' = None \/ (pend' # None /\ pend'.sub # s))
        => \/ s \in settled'
           \/ pend' # None
           \/ stateQueue # <<>> /\ (Head(stateQueue).kind = "clearAll" \/ pend.gen # generation)
<1>1. Typed /\ Kept /\ [Next]_vars => [Keeps]_vars
  <2> SUFFICES ASSUME Typed, Kept, Next, pend # None, pend' = None
      PROVE  \/ pend.sub \in settled'
             \/ stateQueue # <<>> /\ (Head(stateQueue).kind = "clearAll" \/ pend.gen # generation)
    OBVIOUS
  <2>0. Written /\ Shaped /\ (writing # None => stateQueue # <<>>)
    BY DEF Typed, Written
  <2>1. settled \subseteq settled'
    BY StepFrom DEF Grows
  <2>2. CASE UNCHANGED pend
    BY <2>2
  <2>3. CASE writing # None /\ pend' = writing.pend
    BY <2>0, <2>1, <2>3 DEF Kept, Records, Dropped
  <2>4. CASE Expire
    BY <2>4 DEF Expire
  <2>5. Quiet => UNCHANGED pend
    BY DEF Quiet, recordVars
  <2>6. Others => UNCHANGED pend \/ Expire
    BY DEF Others, Login, OutsideChange, recordVars
  <2>7. Lock \/ LateClear => UNCHANGED pend
    BY DEF Lock, LateClear, recordVars
  <2>8. BeginOp => UNCHANGED pend
    BY DEF BeginOp
  <2>9. EndOp \/ Restart => UNCHANGED pend \/ (writing # None /\ pend' = writing.pend)
    BY DEF EndOp, Restart
  <2> QED
    BY <2>0, <2>2, <2>3, <2>4, <2>5, <2>6, <2>7, <2>8, <2>9, NextSteps, WorkerFrom, PageActFrom, StartsFrom,
       ClickFrom, HandlingFrom
<1> QED
  BY <1>1, TypedAlways, KeptAlways, PTL DEF Spec, SubmissionKept

(***************************************************************************)
(* Which logins a save may change                                          *)
(***************************************************************************)
\* A name was given to the page before the submission, or login n was given
\* for submission s.
Given(C, n) == n # None => <<None, n>> \in C
Chosen(C, s, n) == n # None => <<s, n>> \in C

\* Login n was given for s, or remembered from before for an s without a name.
GivenFor(C, S, s, n) == <<s, n>> \in C \/ (<<None, n>> \in C /\ S[s].name = None)
Captured(S, s) == s \in Sub /\ S[s] \in Content

Fits(C, S, s, n) ==
    /\ Captured(S, s)
    /\ n = None => S[s].name = None
    /\ n # None => GivenFor(C, S, s, n)
Confirmed(C, S, s, e) ==
    Captured(S, s) /\ \E n \in Name : Folded[n] = Folded[e] /\ GivenFor(C, S, s, n)

\* So do the name in a record, the names in a banner, and those of a task, a
\* message or an operation.
RecordNamed(C, S, r) == r # None => Fits(C, S, r.sub, r.name)
BannerNamed(C, S, b) == b # None => Fits(C, S, b.sub, b.name) /\ Chosen(C, b.sub, b.entry)
TaskNamed(C, S, k) ==
    /\ ~k.waits /\ k.pc \in {"pend", "recheck"} => RecordNamed(C, S, k.got)
    /\ ~k.waits /\ k.pc = "user" => Given(C, k.got)
    /\ k.kind = "check" => RecordNamed(C, S, k.pending)
    /\ k.kind = "check" /\ k.pc = "user" => k.pending.name = None
    /\ k.kind = "check" /\ k.pc \in {"list", "decide", "recheck"} => Fits(C, S, k.pending.sub, k.name)
    /\ k.kind = "save" => Fits(C, S, k.sub, k.name) /\ Chosen(C, k.sub, k.entry)
    /\ k.pc = "write" /\ k.verdict.act = "update" => Confirmed(C, S, k.sub, k.verdict.entry)
MsgNamed(C, S, m) ==
    /\ m.kind = "creds" => Captured(S, m.sub) /\ S[m.sub].name = m.name /\ Chosen(C, m.sub, m.name)
    /\ m.kind = "user" => Given(C, m.name)
    /\ m.pc = "name" => m.name = None
    /\ m.pc = "name" /\ ~m.waits => Given(C, m.got)
OpNamed(C, S, op) ==
    /\ op.kind = "setPend" => Fits(C, S, op.sub, op.name)
    /\ op.kind = "setUser" => Given(C, op.name)

StoredNamed ==
    /\ RecordNamed(consent, sub, pend)
    /\ user # None => Given(consent, user.name)
    /\ writing # None =>
         /\ RecordNamed(consent, sub, writing.pend)
         /\ writing.user # None => Given(consent, writing.user.name)
         /\ Head(stateQueue).kind = "getPend" => RecordNamed(consent, sub, writing.got)
         /\ Head(stateQueue).kind = "getUser" => Given(consent, writing.got)

\* The save that a banner waits for is about its submission.
ShownNamed ==
    /\ BannerNamed(consent, sub, page.banner)
    /\ \A t \in Task : page.banner # None /\ page.banner.saving = t /\ task[t].kind = "save"
                       => task[t].sub = page.banner.sub

NamedParts ==
    /\ \A i \in DOMAIN msgs : MsgNamed(consent, sub, msgs[i])
    /\ \A i \in DOMAIN stateQueue : OpNamed(consent, sub, stateQueue[i])
    /\ \A t \in Task : TaskNamed(consent, sub, task[t])
Consented == NamedParts /\ StoredNamed /\ ShownNamed

\* What was given stays given.
LEMMA NamedGrows ==
    ASSUME Grows
    PROVE  /\ \A n : Given(consent, n) => Given(consent', n)
           /\ \A s, n : Chosen(consent, s, n) => Chosen(consent', s, n)
           /\ \A s : Captured(sub, s) => Captured(sub', s) /\ sub'[s] = sub[s]
           /\ \A s, n : Fits(consent, sub, s, n) => Fits(consent', sub', s, n)
           /\ \A s, n : Confirmed(consent, sub, s, n) => Confirmed(consent', sub', s, n)
           /\ \A r : RecordNamed(consent, sub, r) => RecordNamed(consent', sub', r)
           /\ \A b : BannerNamed(consent, sub, b) => BannerNamed(consent', sub', b)
<1>1. consent \subseteq consent' /\ \A s \in Sub : sub[s] # None => sub'[s] = sub[s]
  BY DEF Grows
<1>2. \A s : Captured(sub, s) => Captured(sub', s) /\ sub'[s] = sub[s]
  BY <1>1, NoneAssumption DEF Captured
<1>3. \A s, n : Captured(sub, s) /\ GivenFor(consent, sub, s, n) => GivenFor(consent', sub', s, n)
  BY <1>1, <1>2 DEF GivenFor
<1>4. \A n : Given(consent, n) => Given(consent', n)
  BY <1>1 DEF Given
<1>5. \A s, n : Chosen(consent, s, n) => Chosen(consent', s, n)
  BY <1>1 DEF Chosen
<1>6. \A s, n : Fits(consent, sub, s, n) => Fits(consent', sub', s, n)
  BY <1>2, <1>3 DEF Fits
<1>7. \A s, n : Confirmed(consent, sub, s, n) => Confirmed(consent', sub', s, n)
  BY <1>2, <1>3 DEF Confirmed
<1>8. \A r : RecordNamed(consent, sub, r) => RecordNamed(consent', sub', r)
  BY <1>6 DEF RecordNamed
<1>9. \A b : BannerNamed(consent, sub, b) => BannerNamed(consent', sub', b)
  BY <1>5, <1>6 DEF BannerNamed
<1> QED
  BY <1>2, <1>4, <1>5, <1>6, <1>7, <1>8, <1>9

\* A name that was remembered fits a submission without one.
LEMMA RememberedFits ==
    ASSUME NEW C, NEW S, NEW s, NEW n, Fits(C, S, s, None), Given(C, n)
    PROVE  Fits(C, S, s, n)
  BY DEF Fits, Given, GivenFor

LEMMA MsgsNamedNext ==
    ASSUME Typed, Typed', Consented, From, Grows
    PROVE  \A i \in DOMAIN msgs' : MsgNamed(consent', sub', msgs'[i])
<1>1. ASSUME NEW i \in DOMAIN msgs'
      PROVE  MsgNamed(consent', sub', msgs'[i])
  <2> DEFINE l == msgs'[i]
  <2>0. l \in MsgRecord /\ MsgOK(l)
    BY <1>1 DEF Typed, Shaped, MsgShape
  <2>1. CASE Sent(l)
    <3>1. l.kind = "creds" => l.sub \in Sub
      BY <2>0 DEF MsgOK
    <3> QED
      BY <2>0, <2>1, <3>1 DEF Sent, MsgNamed, Given, Chosen, Captured
  <2>2. ASSUME NEW j \in DOMAIN msgs, MsgFrom(msgs[j], l)
        PROVE  MsgNamed(consent', sub', l)
    <3> DEFINE m == msgs[j]
    <3>1. MsgNamed(consent, sub, m) /\ m.kind = l.kind /\ m.sub = l.sub /\ m.name = l.name
      BY <2>2 DEF MsgFrom, Consented, NamedParts
    <3>2. /\ l.kind = "creds" => Captured(sub', l.sub) /\ sub'[l.sub].name = l.name /\ Chosen(consent', l.sub, l.name)
          /\ l.kind = "user" => Given(consent', l.name)
      BY <3>1, NamedGrows DEF MsgNamed
    <3>3. l.pc = "name" => l.kind = "creds"
      BY <2>0 DEF MsgOK
    <3>4. l.pc = "name" => l.name = None
      BY <2>2, <3>1, <3>3 DEF MsgFrom, MsgNamed
    <3>5. ASSUME l.pc = "name", ~l.waits
          PROVE  Given(consent', l.got)
      <4>1. CASE l.pc = m.pc /\ l.waits = m.waits /\ l.got = m.got
        BY <3>1, <3>5, <4>1, NamedGrows DEF MsgNamed
      <4>2. CASE m.waits /\ ~l.waits /\ l.pc = m.pc /\ m = msgs[1] /\ Returned("msg", l.got)
        <5>1. CASE l.got = None
          BY <5>1 DEF Given
        <5>2. CASE l.got # None
          <6>1. writing # None /\ l.got = writing.got /\ stateQueue # <<>> /\ Head(stateQueue).by = "msg"
            BY <4>2, <5>2 DEF Returned
          <6>2. 1 \in DOMAIN stateQueue /\ Head(stateQueue) = stateQueue[1]
            BY <6>1 DEF Typed, Shaped, QueueShape
          <6>3. Head(stateQueue).kind = "getUser"
            BY <3>5, <4>2, <6>1, <6>2 DEF Typed, Asked, AwaitsMsg
          <6> QED
            BY <6>1, <6>3, NamedGrows DEF Consented, StoredNamed
        <5> QED
          BY <5>1, <5>2
      <4> QED
        BY <2>2, <3>5, <4>1, <4>2 DEF MsgFrom
    <3> QED
      BY <3>2, <3>4, <3>5 DEF MsgNamed
  <2> QED
    BY <1>1, <2>1, <2>2 DEF From, MsgsFrom
<1> QED
  BY <1>1

LEMMA QueueNamedNext ==
    ASSUME Typed, Consented, From, Grows
    PROVE  \A i \in DOMAIN stateQueue' : OpNamed(consent', sub', stateQueue'[i])
<1>1. ASSUME NEW i \in DOMAIN stateQueue'
      PROVE  OpNamed(consent', sub', stateQueue'[i])
  <2> DEFINE op == stateQueue'[i]
  <2>1. CASE \E j \in DOMAIN stateQueue : op = stateQueue[j]
    BY <2>1, NamedGrows DEF Consented, NamedParts, OpNamed
  <2>2. CASE Queued(op)
    <3>0. msgs # <<>> => 1 \in DOMAIN msgs
      BY DEF Typed, Shaped, MsgShape
    <3>1. ASSUME op.kind = "setUser"
          PROVE  Given(consent', op.name)
      BY <2>2, <3>0, <3>1, NamedGrows DEF Queued, Consented, NamedParts, MsgNamed
    <3>2. ASSUME op.kind = "setPend"
          PROVE  Fits(consent', sub', op.sub, op.name)
      <4> DEFINE m == msgs[1]
      <4>1. /\ m.kind = "creds" /\ op.sub = m.sub /\ MsgNamed(consent, sub, m)
            /\ \/ op.name = m.name
               \/ m.pc = "name" /\ ~m.waits /\ op.name = m.got
        BY <2>2, <3>0, <3>2 DEF Queued, Consented, NamedParts
      <4>2. Fits(consent, sub, m.sub, m.name)
        BY <4>1 DEF MsgNamed, Fits, Chosen, GivenFor
      <4>3. m.pc = "name" /\ ~m.waits => m.name = None /\ Given(consent, m.got)
        BY <4>1 DEF MsgNamed
      <4>4. Fits(consent, sub, op.sub, op.name)
        BY <4>1, <4>2, <4>3, RememberedFits
      <4> QED
        BY <4>4, NamedGrows
    <3> QED
      BY <3>1, <3>2 DEF OpNamed
  <2> QED
    BY <1>1, <2>1, <2>2 DEF From, QueueFrom
<1> QED
  BY <1>1

\* The account selected in the banner, and the name entered there, are given
\* with the click.
LEMMA ClickNamed ==
    ASSUME Typed, Consented, NEW t \in Task, NEW e \in Maybe(Name), NEW n \in Maybe(Name), SaveClick(t, e, n)
    PROVE  Fits(consent', sub', page.banner.sub, n) /\ Chosen(consent', page.banner.sub, e)
<1> DEFINE b == page.banner
<1>1. /\ UNCHANGED sub /\ (e = b.entry \/ b.choose)
      /\ n = b.name \/ (b.choose /\ n # None)
      /\ consent \subseteq consent'
  BY SaveClickKeeps DEF Typed
<1>2. /\ consent' = consent \cup (IF b.choose /\ n # None THEN {<<b.sub, n>>} ELSE {})
                            \cup (IF b.choose /\ e # None THEN {<<b.sub, e>>} ELSE {})
      /\ b # None /\ (e = b.entry \/ b.choose)
  BY <1>1 DEF SaveClick
<1>3. Fits(consent, sub, b.sub, b.name) /\ Chosen(consent, b.sub, b.entry)
  BY <1>2 DEF Consented, ShownNamed, BannerNamed
<1>4. UNCHANGED sub
  BY DEF SaveClick
<1> HIDE DEF b
<1>5. Fits(consent', sub, b.sub, n)
  <2>1. CASE n = b.name
    BY <1>1, <1>3, <2>1 DEF Fits, GivenFor
  <2>2. CASE b.choose /\ n # None
    BY <1>2, <1>3, <2>2 DEF Fits, GivenFor
  <2> QED
    BY <1>1, <2>1, <2>2
<1>6. Chosen(consent', b.sub, e)
  <2>1. CASE e = b.entry
    BY <1>1, <1>3, <2>1 DEF Chosen
  <2>2. CASE b.choose
    BY <1>2, <2>2 DEF Chosen
  <2> QED
    BY <1>2, <2>1, <2>2
<1> QED
  BY <1>4, <1>5, <1>6 DEF b

\* A save that replaces a password without asking replaces that of the login
\* that was chosen, or of the one login with the name that was given.
LEMMA WriteConfirmed ==
    ASSUME NEW o \in TaskRecord, NEW v, v = Compared(SavedDecision(o), sub[o.sub].secret),
           o.entry = None => ~NeedsConfirmation(o, v), v.act = "update",
           Fits(consent, sub, o.sub, o.name), Chosen(consent, o.sub, o.entry)
    PROVE  Confirmed(consent, sub, o.sub, v.entry)
<1> DEFINE d == SavedDecision(o)
<1>0. o.existing \in SUBSET Name /\ o.name \in Maybe(Name) /\ o.entry \in Maybe(Name)
  BY DEF TaskRecord
<1>1. /\ d = [act |-> d.act, entry |-> d.entry, foreign |-> d.foreign]
      /\ d.act \in {"compare", "missing", "ambiguous", "create"}
      /\ d.entry \in Maybe(Name) /\ d.foreign \in BOOLEAN
      /\ d.act = "compare" => d.entry \in Name
      /\ o.entry # None => d.entry = o.entry
      /\ o.entry = None /\ d.act = "compare" /\ ~d.foreign /\ o.name # None => Folded[d.entry] = Folded[o.name]
  <2>1. CASE o.entry # None
    BY <1>0, <2>1 DEF SavedDecision, Maybe
  <2>2. CASE o.entry = None
    BY <1>0, <2>2, DecisionTyped DEF SavedDecision
  <2> QED
    BY <2>1, <2>2
<1> HIDE DEF d
<1>2. /\ v.entry = d.entry /\ v.foreign = d.foreign /\ d.act = "compare"
  BY <1>1, ComparedTyped DEF d
<1>3. CASE o.entry # None
  <2>1. o.entry \in Name /\ v.entry = o.entry /\ <<o.sub, o.entry>> \in consent
    BY <1>0, <1>1, <1>2, <1>3 DEF Maybe, Chosen
  <2> QED
    BY <2>1 DEF Confirmed, GivenFor, Fits
<1>4. CASE o.entry = None
  <2>1. o.name # None /\ ~v.foreign
    BY <1>4 DEF NeedsConfirmation
  <2>2. o.name \in Name /\ Folded[o.name] = Folded[v.entry] /\ GivenFor(consent, sub, o.sub, o.name)
    BY <1>0, <1>1, <1>2, <1>4, <2>1 DEF Maybe, Fits
  <2> QED
    BY <2>2 DEF Confirmed, Fits
<1> QED
  BY <1>3, <1>4

\* What is returned to a task is what it awaits.
LEMMA ReturnedNamed ==
    ASSUME Typed, Consented, NEW t \in Task, NEW got, Returned(t, got)
    PROVE  /\ task[t].pc \in {"pend", "recheck"} => RecordNamed(consent, sub, got)
           /\ task[t].pc = "user" => Given(consent, got)
<1>1. CASE got = None
  BY <1>1 DEF RecordNamed, Given
<1>2. CASE got # None
  <2>1. writing # None /\ got = writing.got /\ stateQueue # <<>> /\ Head(stateQueue).by = t
    BY <1>2 DEF Returned
  <2>2. 1 \in DOMAIN stateQueue /\ Head(stateQueue) = stateQueue[1]
    BY <2>1 DEF Typed, Shaped, QueueShape
  <2>3. Head(stateQueue).kind = Awaits(task[t].pc)
    BY <2>1, <2>2 DEF Typed, Asked
  <2> QED
    BY <2>1, <2>3 DEF Awaits, Consented, StoredNamed
<1> QED
  BY <1>1, <1>2

\* Task o goes on as k.
LEMMA MovesNamed ==
    ASSUME NEW o \in TaskRecord, TaskOK(o), ~o.waits, NEW k \in TaskRecord, TaskOK(k), Moves(o, k),
           TaskNamed(consent, sub, o)
    PROVE  TaskNamed(consent, sub, k)
<1>0. /\ k.kind = o.kind /\ k.entry = o.entry /\ (k.waits <=> k.pc \in Waiting)
  BY DEF Moves
<1>1. k.kind = "save" => Fits(consent, sub, k.sub, k.name) /\ Chosen(consent, k.sub, k.entry)
  <2> SUFFICES ASSUME k.kind = "save"
      PROVE  Fits(consent, sub, k.sub, k.name) /\ Chosen(consent, k.sub, k.entry)
    OBVIOUS
  <2>1. Fits(consent, sub, o.sub, o.name) /\ Chosen(consent, o.sub, o.entry)
    BY <1>0 DEF TaskNamed
  <2>2. o.pc # "recheck"
    BY <1>0 DEF TaskOK, SavePC
  <2>3. k.sub = o.sub /\ (k.name = o.name \/ (o.pc = "user" /\ o.name = None /\ k.name = o.got))
    BY <1>0, <2>2 DEF Moves, SameData
  <2>4. o.pc = "user" => Given(consent, o.got)
    BY DEF TaskNamed
  <2> QED
    BY <1>0, <2>1, <2>3, <2>4, RememberedFits
<1>2. k.kind = "check" => RecordNamed(consent, sub, k.pending)
  <2>1. k.kind = "check" => k.pending = o.pending \/ (o.pc = "pend" /\ k.pending = o.got)
    BY <1>0 DEF Moves, SameData
  <2> QED
    BY <1>0, <2>1 DEF TaskNamed
<1>3. k.kind = "check" /\ k.pc = "user" => k.pending.name = None
  BY <1>0 DEF Moves
<1>4. k.kind = "check" /\ k.pc \in {"list", "decide", "recheck"} => Fits(consent, sub, k.pending.sub, k.name)
  <2> SUFFICES ASSUME k.kind = "check", k.pc \in {"list", "decide", "recheck"}
      PROVE  Fits(consent, sub, k.pending.sub, k.name)
    OBVIOUS
  <2>1. \/ o.pc = "pend" /\ o.got # None /\ k.pending = o.got /\ k.name = o.got.name
        \/ o.pc = "user" /\ k.pending = o.pending /\ k.name = o.got
        \/ o.pc \in {"list", "decide"} /\ k.pending = o.pending /\ k.name = o.name
    BY <1>0 DEF Moves, SameData
  <2>2. CASE o.pc = "pend" /\ o.got # None /\ k.pending = o.got /\ k.name = o.got.name
    BY <2>2 DEF TaskNamed, RecordNamed
  <2>3. CASE o.pc = "user" /\ k.pending = o.pending /\ k.name = o.got
    <3>1. o.pending \in PendRecord /\ o.pending # None
      BY <1>0, <2>3, NoneAssumption DEF TaskOK
    <3>2. Fits(consent, sub, o.pending.sub, None) /\ Given(consent, o.got)
      BY <1>0, <2>3, <3>1 DEF TaskNamed, RecordNamed
    <3> QED
      BY <2>3, <3>2, RememberedFits
  <2>4. CASE o.pc \in {"list", "decide"} /\ k.pending = o.pending /\ k.name = o.name
    BY <1>0, <2>4 DEF TaskNamed
  <2> QED
    BY <2>1, <2>2, <2>3, <2>4
<1>5. k.pc = "write" /\ k.verdict.act = "update" => Confirmed(consent, sub, k.sub, k.verdict.entry)
  <2> SUFFICES ASSUME k.pc = "write", k.verdict.act = "update"
      PROVE  Confirmed(consent, sub, k.sub, k.verdict.entry)
    OBVIOUS
  <2>1. /\ o.kind = "save" /\ k.sub = o.sub
        /\ k.verdict = Compared(SavedDecision(o), sub[o.sub].secret)
        /\ o.entry = None => ~NeedsConfirmation(o, k.verdict)
    BY <1>0 DEF Moves, SameData
  <2>2. Fits(consent, sub, o.sub, o.name) /\ Chosen(consent, o.sub, o.entry)
    BY <2>1 DEF TaskNamed
  <2> QED
    BY <2>1, <2>2, WriteConfirmed
<1> QED
  BY <1>0, <1>1, <1>2, <1>3, <1>4, <1>5 DEF TaskNamed, Waiting

LEMMA TaskNamedGrows ==
    ASSUME Grows, NEW k, NEW l, TaskNamed(consent, sub, k),
           l.kind = k.kind, l.pc = k.pc, l.sub = k.sub, l.pending = k.pending, l.name = k.name,
           l.entry = k.entry, l.verdict = k.verdict,
           ~l.waits /\ l.pc \in {"pend", "recheck"} =>
               (~k.waits /\ l.got = k.got) \/ RecordNamed(consent, sub, l.got),
           ~l.waits /\ l.pc = "user" => (~k.waits /\ l.got = k.got) \/ Given(consent, l.got)
    PROVE  TaskNamed(consent', sub', l)
<1>1. ~l.waits /\ l.pc \in {"pend", "recheck"} => RecordNamed(consent', sub', l.got)
  BY NamedGrows DEF TaskNamed
<1>2. ~l.waits /\ l.pc = "user" => Given(consent', l.got)
  BY NamedGrows DEF TaskNamed
<1>3. /\ l.kind = "check" => RecordNamed(consent', sub', l.pending)
      /\ l.kind = "check" /\ l.pc = "user" => l.pending.name = None
      /\ l.kind = "check" /\ l.pc \in {"list", "decide", "recheck"} => Fits(consent', sub', l.pending.sub, l.name)
      /\ l.kind = "save" => Fits(consent', sub', l.sub, l.name) /\ Chosen(consent', l.sub, l.entry)
  BY NamedGrows DEF TaskNamed
<1>4. l.pc = "write" /\ l.verdict.act = "update" => Confirmed(consent', sub', l.sub, l.verdict.entry)
  BY NamedGrows DEF TaskNamed
<1> QED
  BY <1>1, <1>2, <1>3, <1>4 DEF TaskNamed

LEMMA TasksNamedNext ==
    ASSUME Typed, Typed', Consented, From, Grows
    PROVE  \A t \in Task : TaskNamed(consent', sub', task'[t])
<1>1. ASSUME NEW t \in Task, NEW k, k = task[t], NEW l, l = task'[t]
      PROVE  TaskNamed(consent', sub', l)
  <2>0. /\ k \in TaskRecord /\ TaskOK(k) /\ l \in TaskRecord /\ TaskOK(l)
        /\ TaskNamed(consent, sub, k)
    BY <1>1 DEF Typed, Shaped, TaskShape, Consented, NamedParts
  <2>1. CASE SameTask(k, l)
    BY <2>0, <2>1, TaskNamedGrows DEF SameTask
  <2>2. CASE l = IdleTask
    <3>1. l.kind = "idle" /\ l.pc = "idle"
      BY <2>2 DEF IdleTask
    <3> QED
      BY <3>1 DEF TaskNamed
  <2>3. CASE NewTask(l)
    <3>1. CASE l.kind = "check" /\ l.pending = None
      BY <2>3, <3>1 DEF NewTask, TaskNamed, RecordNamed
    <3>2. CASE l.kind = "save"
      <4>1. PICK e \in Maybe(Name), n \in Maybe(Name), u \in Task : SaveClick(u, e, n) /\ l = Clicked(e, n)
        BY <2>3, <3>2 DEF NewTask
      <4>2. l.sub = page.banner.sub /\ l.name = n /\ l.entry = e /\ l.pc = "queued"
        BY <4>1, SaveClickKeeps DEF Typed
      <4>3. Fits(consent', sub', page.banner.sub, n) /\ Chosen(consent', page.banner.sub, e)
        BY <4>1, ClickNamed
      <4> QED
        BY <3>2, <4>2, <4>3 DEF TaskNamed
    <3> QED
      BY <2>3, <3>1, <3>2 DEF NewTask
  <2>4. CASE ~k.waits /\ Moves(k, l)
    <3>1. TaskNamed(consent, sub, l)
      BY <2>0, <2>4, MovesNamed
    <3> QED
      BY <3>1, TaskNamedGrows
  <2>5. ASSUME NEW got, TaskGot(k, l, got), Returned(t, got)
        PROVE  TaskNamed(consent', sub', l)
    <3>1. /\ k.pc \in {"pend", "recheck"} => RecordNamed(consent, sub, got)
          /\ k.pc = "user" => Given(consent, got)
      BY <1>1, <2>5, ReturnedNamed
    <3> QED
      BY <2>0, <2>5, <3>1, TaskNamedGrows DEF TaskGot
  <2>6. TaskFrom(t)
    BY DEF From
  <2> QED
    BY <1>1, <2>1, <2>2, <2>3, <2>4, <2>5, <2>6 DEF TaskFrom
<1> QED
  BY <1>1

\* What an operation stores and returns.
LEMMA UpdateNamed ==
    ASSUME Typed, Consented, NEW op \in Op, OpOK(op), OpNamed(consent, sub, op), NEW r, r = Update(op)
    PROVE  /\ RecordNamed(consent, sub, r.pend)
           /\ r.user # None => Given(consent, r.user.name)
           /\ op.kind = "getPend" => RecordNamed(consent, sub, r.got)
           /\ op.kind = "getUser" => Given(consent, r.got)
<1>0. /\ SessionShape /\ RecordShape /\ pend \in Maybe(PendRecord)
      /\ RecordNamed(consent, sub, pend) /\ (user # None => Given(consent, user.name))
  BY DEF Typed, Shaped, RecordShape, Consented, StoredNamed
<1>1. /\ op.kind = "getPend" => r.pend = OwnPend /\ r.user = user /\ r.got = OwnPend
      /\ op.kind = "setPend" => /\ r.pend = [sub |-> op.sub, ready |-> FALSE, name |-> op.name, gen |-> generation]
                                /\ r.user = user
      /\ op.kind = "mark" => /\ r.user = user
                             /\ r.pend = OwnPend \/ (OwnPend # None /\ r.pend = [OwnPend EXCEPT !.ready = TRUE])
      /\ op.kind = "clearPend" => r.pend = Cleared(op.sub) /\ r.user = user
      /\ op.kind = "getUser" => /\ r.pend = pend /\ r.user = OwnUser
                                /\ r.got = IF OwnUser = None THEN None ELSE OwnUser.name
      /\ op.kind = "setUser" => r.pend = pend /\ r.user = [name |-> op.name, gen |-> generation]
      /\ op.kind = "clearUser" => r.pend = pend /\ r.user = None
      /\ op.kind = "clearAll" => r.pend = None /\ r.user = None
      /\ op.kind \in Kinds
  BY <1>0, UpdateEffect
<1>2. OwnPend \in {pend, None} /\ OwnUser \in {user, None} /\ Cleared(op.sub) \in {OwnPend, None}
  BY DEF OwnPend, OwnUser, Own, Cleared
<1>3. RecordNamed(consent, sub, OwnPend) /\ RecordNamed(consent, sub, Cleared(op.sub))
      /\ (OwnUser # None => Given(consent, OwnUser.name))
  BY <1>0, <1>2 DEF RecordNamed
<1>4. RecordNamed(consent, sub, r.pend)
  <2>1. CASE op.kind = "setPend"
    <3>1. r.pend.sub = op.sub /\ r.pend.name = op.name
      BY <1>1, <2>1
    <3>2. Fits(consent, sub, op.sub, op.name)
      BY <2>1 DEF OpNamed
    <3> QED
      BY <3>1, <3>2 DEF RecordNamed
  <2>2. CASE op.kind = "mark"
    <3>1. CASE r.pend = OwnPend
      BY <1>3, <3>1
    <3>2. CASE OwnPend # None /\ r.pend = [OwnPend EXCEPT !.ready = TRUE]
      <4>1. OwnPend \in PendRecord
        BY <1>0, <1>2, <3>2 DEF Maybe
      <4>2. r.pend.sub = OwnPend.sub /\ r.pend.name = OwnPend.name
        BY <3>2, <4>1 DEF PendRecord
      <4> QED
        BY <1>3, <3>2, <4>2 DEF RecordNamed
    <3> QED
      BY <1>1, <2>2, <3>1, <3>2
  <2>3. CASE op.kind \notin {"setPend", "mark"}
    <3>1. r.pend \in {pend, OwnPend, Cleared(op.sub), None}
      BY <1>1, <2>3 DEF Kinds
    <3> QED
      BY <1>0, <1>3, <3>1 DEF RecordNamed
  <2> QED
    BY <2>1, <2>2, <2>3
<1>5. r.user # None => Given(consent, r.user.name)
  <2>1. CASE op.kind = "setUser"
    BY <1>1, <2>1 DEF OpNamed
  <2>2. CASE op.kind # "setUser"
    <3>1. r.user \in {user, OwnUser, None}
      BY <1>1, <2>2 DEF Kinds
    <3> QED
      BY <1>0, <1>3, <3>1
  <2> QED
    BY <2>1, <2>2
<1> QED
  BY <1>1, <1>3, <1>4, <1>5 DEF Given

LEMMA StoredNamedNext ==
    ASSUME Typed, Consented, Next
    PROVE  StoredNamed'
<1>0. Grows /\ Shaped /\ Written /\ (writing # None => stateQueue # <<>>)
  BY StepFrom DEF Typed, Written
<1>1. CASE /\ UNCHANGED <<pend, user, writing>>
           /\ stateQueue # <<>> => Head(stateQueue') = Head(stateQueue)
  BY <1>0, <1>1, NamedGrows DEF Consented, StoredNamed
<1>2. CASE /\ pend' \in {pend, None} /\ user' \in {user, None} /\ writing' = None
  BY <1>0, <1>2, NamedGrows DEF Consented, StoredNamed, RecordNamed
<1>3. CASE writing # None /\ pend' = writing.pend /\ user' = writing.user /\ writing' = None
  BY <1>0, <1>3, NamedGrows DEF Consented, StoredNamed
<1>4. CASE BeginOp
  <2>1. /\ UNCHANGED <<pend, user>> /\ stateQueue # <<>>
        /\ \/ writing' = Update(Head(stateQueue)) /\ UNCHANGED stateQueue
           \/ writing' = None
    BY <1>4, BeginOpFrom
  <2>2. CASE writing' = None
    BY <1>2, <2>1, <2>2
  <2>3. ASSUME NEW op, op = Head(stateQueue), NEW r, r = Update(op), writing' = r, UNCHANGED stateQueue
        PROVE  StoredNamed'
    <3>1. op \in Op /\ OpOK(op) /\ OpNamed(consent, sub, op)
      <4>1. 1 \in DOMAIN stateQueue /\ op = stateQueue[1] /\ stateQueue \in Seq(Op)
        BY <2>1, <2>3 DEF Typed, Shaped, QueueShape
      <4> QED
        BY <4>1 DEF Typed, Shaped, QueueShape, Consented, NamedParts
    <3>2. /\ RecordNamed(consent, sub, r.pend)
          /\ r.user # None => Given(consent, r.user.name)
          /\ op.kind = "getPend" => RecordNamed(consent, sub, r.got)
          /\ op.kind = "getUser" => Given(consent, r.got)
      BY <2>3, <3>1, UpdateNamed
    <3>3. Head(stateQueue') = op
      BY <2>3
    <3> QED
      BY <1>0, <2>1, <2>3, <3>2, <3>3, NamedGrows DEF Consented, StoredNamed
  <2> QED
    BY <2>1, <2>2, <2>3
<1>5. CASE Quiet \/ Lock \/ LateClear
  <2>1. UNCHANGED recordVars /\ (stateQueue # <<>> => Head(stateQueue') = Head(stateQueue))
    BY <1>0, <1>5, LockFrom DEF Quiet
  <2> QED
    BY <1>1, <2>1 DEF recordVars
<1>6. CASE Others
  <2>1. UNCHANGED <<writing, stateQueue>> /\ (UNCHANGED <<pend, user>> \/ (writing = None /\ pend' \in {pend, None} /\ user' \in {user, None}))
    BY <1>0, <1>6, OthersFrom DEF Others, Login, Expire, OutsideChange, recordVars
  <2> QED
    BY <1>1, <1>2, <2>1
<1>7. CASE Restart \/ EndOp
  <2>1. writing' = None /\ (UNCHANGED <<pend, user>> \/ (writing # None /\ pend' = writing.pend /\ user' = writing.user))
    <3>1. CASE Restart
      BY <1>0, <3>1, RestartKeeps
    <3>2. CASE EndOp
      BY <3>2 DEF EndOp
    <3> QED
      BY <1>7, <3>1, <3>2
  <2> QED
    BY <1>2, <1>3, <2>1
<1> QED
  BY <1>0, <1>4, <1>5, <1>6, <1>7, NextSteps, WorkerFrom, PageActFrom, StartsFrom, ClickFrom, HandlingFrom

\* The banner goes, or only ceases to wait for its save.
BannerStays(b, c) ==
    c # None => b # None /\ c.sub = b.sub /\ c.name = b.name /\ c.entry = b.entry /\ c.saving \in {b.saving, None}

\* Or it asks about another login, or is a new one, for the submission that the
\* check for which the page listens has found pending.
BannerNew ==
    /\ page'.banner.saving = None /\ BannerNamed(consent', sub', page'.banner)
    /\ \/ page.banner # None /\ page'.banner.sub = page.banner.sub
       \/ \E t \in Task : /\ page.listening = t /\ At(t, "recheck") /\ task[t].got # None
                          /\ page'.banner.sub = task[t].got.sub

LEMMA AnswerBanner ==
    ASSUME page \in PageRecord, NEW t \in Task, NEW pg \in PageRecord, Answer(t, pg)
    PROVE  \/ page'.banner = page.banner
           \/ /\ page'.banner = pg.banner
              /\ \/ task[t].kind = "check" /\ page.listening = t
                 \/ task[t].kind # "check" /\ task[t].heard
<1>1. [pg EXCEPT !.listening = None].banner = pg.banner
  BY DEF PageRecord
<1> QED
  BY <1>1 DEF Answer

\* What becomes of the banner when a task answers without a new one.
LEMMA AnswersBanner ==
    ASSUME Shaped, NEW t \in Task
    PROVE  /\ NothingPending(t) => BannerStays(page.banner, page'.banner)
           /\ \A s \in Sub : Available(t, s) => BannerStays(page.banner, page'.banner)
           /\ Failed(t) => BannerStays(page.banner, page'.banner)
           /\ Refused(t) => BannerStays(page.banner, page'.banner)
<1>0. page \in PageRecord /\ task[t] \in TaskRecord /\ page.banner \in Maybe(Banner)
      /\ None \in Maybe(Sub)
  BY DEF Shaped, PageShape, TaskShape, PageRecord, Maybe
<1>1. BannerStays(page.banner, page.banner)
  BY DEF BannerStays
<1>2. ASSUME NEW pg, SamePage(page, pg), pg.banner = page.banner, Answer(t, pg)
      PROVE  BannerStays(page.banner, page'.banner)
  BY <1>0, <1>1, <1>2, AnswerBanner DEF SamePage
<1>3. ASSUME NothingPending(t)
      PROVE  BannerStays(page.banner, page'.banner)
  <2> DEFINE pg == IF task[t].manual THEN ShowStatus(page, None, "none", FALSE)
                   ELSE [page EXCEPT !.status = None]
  <2>1. SamePage(page, pg) /\ pg.banner = page.banner
    BY <1>0, PageTyped
  <2>2. Answer(t, pg)
    BY <1>3 DEF NothingPending
  <2> HIDE DEF pg
  <2> QED
    BY <1>2, <2>1, <2>2
<1>4. ASSUME NEW s \in Sub, Available(t, s)
      PROVE  BannerStays(page.banner, page'.banner)
  <2> DEFINE pg == IF page.banner = None THEN ShowStatus(page, s, "review", TRUE) ELSE page
  <2>1. SamePage(page, pg) /\ pg.banner = page.banner
    <3>1. SamePage(page, ShowStatus(page, s, "review", TRUE)) /\ ShowStatus(page, s, "review", TRUE).banner = page.banner
      BY <1>0, PageTyped DEF Maybe
    <3>2. SamePage(page, page)
      BY <1>0 DEF SamePage
    <3> QED
      BY <3>1, <3>2
  <2>2. Answer(t, pg)
    BY <1>4 DEF Available
  <2> HIDE DEF pg
  <2> QED
    BY <1>2, <2>1, <2>2
<1>5. ASSUME NEW c, c = (IF page.banner # None /\ page.banner.saving = t
                         THEN [page.banner EXCEPT !.saving = None] ELSE page.banner)
      PROVE  c \in Maybe(Banner) /\ BannerStays(page.banner, c)
  <2>1. CASE page.banner # None
    <3>1. page.banner \in Banner
      BY <1>0, <2>1 DEF Maybe
    <3> QED
      BY <1>5, <2>1, <3>1 DEF Banner, Maybe, BannerStays
  <2>2. CASE page.banner = None
    BY <1>5, <2>2 DEF BannerStays, Maybe
  <2> QED
    BY <2>1, <2>2
<1>6. ASSUME NEW pg, pg = [page EXCEPT !.banner =
                        IF @ # None /\ @.saving = t THEN [@ EXCEPT !.saving = None] ELSE @]
      PROVE  SamePage(page, pg) /\ BannerStays(page.banner, pg.banner)
  <2> DEFINE c == IF page.banner # None /\ page.banner.saving = t
                  THEN [page.banner EXCEPT !.saving = None] ELSE page.banner
  <2>1. c \in Maybe(Banner) /\ BannerStays(page.banner, c)
    BY <1>5
  <2>2. pg = [page EXCEPT !.banner = c]
    BY <1>6
  <2> HIDE DEF c
  <2>3. SamePage(page, pg)
    BY <1>0, <2>1, <2>2, PageTyped
  <2>4. pg.banner = c
    BY <1>0, <2>2 DEF PageRecord
  <2> QED
    BY <2>1, <2>3, <2>4
<1>7. ASSUME Refused(t)
      PROVE  BannerStays(page.banner, page'.banner)
  <2>1. PICK pg : pg = [page EXCEPT !.banner =
                        IF @ # None /\ @.saving = t THEN [@ EXCEPT !.saving = None] ELSE @]
    OBVIOUS
  <2>2. Answer(t, pg)
    BY <1>7, <2>1 DEF Refused
  <2> QED
    BY <1>0, <1>1, <1>6, <2>1, <2>2, AnswerBanner DEF SamePage
<1>8. ASSUME Failed(t)
      PROVE  BannerStays(page.banner, page'.banner)
  <2>1. CASE task[t].kind = "check"
    <3>1. SamePage(page, CheckFailed(page, task[t])) /\ CheckFailed(page, task[t]).banner = page.banner
      BY <1>0, PageTyped
    <3>2. Answer(t, CheckFailed(page, task[t]))
      BY <1>8, <2>1 DEF Failed
    <3> QED
      BY <1>2, <3>1, <3>2
  <2>2. CASE task[t].kind # "check"
    <3>1. Refused(t)
      BY <1>8, <2>2 DEF Failed, Refused
    <3> QED
      BY <1>7, <3>1
  <2> QED
    BY <2>1, <2>2
<1> QED
  BY <1>3, <1>4, <1>7, <1>8

\* The banner that a check shows names the submission, and the login that Save
\* will update.
LEMMA CheckAgainBanner ==
    ASSUME Typed, Consented, NEW t \in Task, CheckAgain(t), Grows
    PROVE  BannerStays(page.banner, page'.banner) \/ BannerNew
<1> DEFINE tk == task[t]
           s == tk.pending.sub
           v == tk.verdict
           b == [sub |-> s, name |-> tk.name, saving |-> None,
                 entry |-> IF v.act = "update" THEN v.entry ELSE None,
                 accounts |-> IF v.act \in {"missing", "ambiguous"} THEN tk.existing ELSE {},
                 choose |-> v.act \in {"missing", "ambiguous"}]
           shows == page.banner = None \/ (page.banner # None /\ page.banner.sub # s)
<1>0. /\ tk \in TaskRecord /\ TaskOK(tk) /\ page \in PageRecord /\ tk.kind = "check" /\ tk.pc = "recheck"
      /\ TaskNamed(consent, sub, tk) /\ Shaped
  BY DEF Typed, Shaped, TaskShape, PageShape, Consented, NamedParts, CheckAgain, At
<1>1. BannerStays(page.banner, page.banner)
  BY DEF BannerStays
<1>2. \/ NothingPending(t) \/ UNCHANGED page
      \/ /\ v.act # "unchanged" /\ tk.got # None /\ tk.got.sub = s
         /\ Answer(t, IF ~shows THEN page ELSE ShowBanner(page, b))
         /\ consent' = IF v.act = "update" /\ page.listening = t /\ shows THEN consent \cup {<<s, v.entry>>} ELSE consent
  BY DEF CheckAgain
<1>3. /\ tk.pending \in PendRecord /\ s \in Sub /\ v \in Verdict /\ (v.act = "update" => v.entry \in Name)
  BY <1>0 DEF TaskOK, PendRecord
<1>4. b \in Banner
  BY <1>0, <1>3 DEF Banner, TaskRecord, Maybe
<1>5. ASSUME shows, Answer(t, ShowBanner(page, b)), tk.got # None, tk.got.sub = s,
             v.act = "update" /\ page.listening = t => consent' = consent \cup {<<s, v.entry>>}
      PROVE  BannerStays(page.banner, page'.banner) \/ BannerNew
  <2>1. Fits(consent', sub', s, tk.name)
    BY <1>0, NamedGrows DEF TaskNamed
  <2>2. page.listening = t => Chosen(consent', s, b.entry)
    BY <1>5 DEF Chosen
  <2>3. b.sub = s /\ b.name = tk.name /\ b.saving = None
    OBVIOUS
  <2>6. At(t, "recheck") /\ task[t].got # None /\ task[t].got.sub = s
    BY <1>5 DEF CheckAgain
  <2> HIDE DEF b, s, v
  <2>4. ShowBanner(page, b) \in PageRecord /\ ShowBanner(page, b).banner = b
    BY <1>0, <1>4, PageTyped DEF SamePage
  <2>5. page'.banner = page.banner \/ (page'.banner = b /\ page.listening = t)
    BY <1>0, <1>5, <2>4, AnswerBanner
  <2> QED
    BY <1>1, <2>1, <2>2, <2>3, <2>5, <2>6 DEF BannerNew, BannerNamed
<1>6. CASE ~shows /\ Answer(t, page)
  BY <1>0, <1>1, <1>6, AnswerBanner
<1> HIDE DEF b
<1> QED
  BY <1>0, <1>1, <1>2, <1>5, <1>6, AnswersBanner

\* The question about another login names it before it may be updated.
LEMMA AskBanner ==
    ASSUME Typed, Consented, NEW t \in Task, task[t].kind = "save", NEW e \in Name, AskToConfirm(t, e), Grows
    PROVE  BannerStays(page.banner, page'.banner) \/ BannerNew
<1> DEFINE b == page.banner
           c == [b EXCEPT !.saving = None, !.entry = e]
           waits == b # None /\ b.saving = t
<1>0. page \in PageRecord /\ b \in Maybe(Banner) /\ BannerNamed(consent', sub', b)
  BY NamedGrows DEF Typed, Shaped, PageShape, PageRecord, Consented, ShownNamed
<1>1. BannerStays(page.banner, page.banner)
  BY DEF BannerStays
<1>2. /\ Answer(t, [page EXCEPT !.banner = IF waits THEN c ELSE @])
      /\ consent' = IF task[t].heard /\ waits THEN consent \cup {<<task[t].sub, e>>} ELSE consent
  BY DEF AskToConfirm
<1>3. CASE ~waits
  <2>1. [page EXCEPT !.banner = b] = page
    BY <1>0 DEF PageRecord
  <2>2. Answer(t, page)
    BY <1>2, <1>3, <2>1
  <2> QED
    BY <1>0, <1>1, <2>2, AnswerBanner
<1>4. CASE waits
  <2>1. b \in Banner
    BY <1>0, <1>4 DEF Maybe
  <2>2. c \in Banner /\ c.sub = b.sub /\ c.name = b.name /\ c.entry = e /\ c.saving = None
    BY <2>1 DEF Banner, Maybe
  <2>3. task[t].sub = b.sub
    BY <1>4 DEF Consented, ShownNamed
  <2> HIDE DEF c
  <2>4. Answer(t, [page EXCEPT !.banner = c])
    BY <1>2, <1>4
  <2>5. [page EXCEPT !.banner = c] \in PageRecord /\ [page EXCEPT !.banner = c].banner = c
    BY <1>0, <2>2 DEF PageRecord, Maybe
  <2>6. page'.banner = page.banner \/ (page'.banner = c /\ task[t].heard)
    BY <1>0, <2>4, <2>5, AnswerBanner
  <2>7. task[t].heard => Chosen(consent', b.sub, e)
    BY <1>2, <1>4, <2>3 DEF Chosen
  <2>8. Fits(consent', sub', b.sub, b.name)
    BY <1>0, <1>4 DEF BannerNamed
  <2> QED
    BY <1>1, <1>4, <2>2, <2>6, <2>7, <2>8 DEF BannerNew, BannerNamed
<1> QED
  BY <1>3, <1>4

LEMMA SaveEndBanner ==
    ASSUME Shaped, NEW t \in Task, SaveEnd(t)
    PROVE  BannerStays(page.banner, page'.banner)
<1> DEFINE c == IF page.banner # None /\ page.banner.saving = t THEN None ELSE page.banner
<1>0. page \in PageRecord /\ page.banner \in Maybe(Banner) /\ c \in Maybe(Banner)
  BY DEF Shaped, PageShape, PageRecord, Maybe
<1>1. Answer(t, [page EXCEPT !.banner = c])
  BY DEF SaveEnd
<1>2. BannerStays(page.banner, c) /\ BannerStays(page.banner, page.banner)
  BY DEF BannerStays
<1> HIDE DEF c
<1>3. [page EXCEPT !.banner = c] \in PageRecord /\ [page EXCEPT !.banner = c].banner = c
  BY <1>0 DEF PageRecord
<1> QED
  BY <1>0, <1>1, <1>2, <1>3, AnswerBanner

LEMMA WorkerBanner ==
    ASSUME Typed, Consented, NEW t \in Task, Worker(t), Grows
    PROVE  BannerStays(page.banner, page'.banner) \/ BannerNew
<1>0. Shaped /\ task[t] \in TaskRecord
  BY DEF Typed, Shaped, TaskShape
<1>1. BannerStays(page.banner, page.banner)
  BY DEF BannerStays
<1>2. CASE UNCHANGED page \/ NothingPending(t) \/ Failed(t) \/ Refused(t) \/ \E s \in Sub : Available(t, s)
  BY <1>0, <1>1, <1>2, AnswersBanner
<1>3. CASE CheckBegin(t) \/ CheckUser(t) \/ CheckDecide(t) \/ CheckUnchanged(t) \/ List(t) \/ RequestFails(t) \/ ClearPend(t)
  <2>1. UNCHANGED page \/ NothingPending(t) \/ Failed(t)
    BY <1>3 DEF CheckBegin, CheckUser, CheckDecide, CheckUnchanged, List, RequestFails, ClearPend
  <2> QED
    BY <1>2, <2>1
<1>4. CASE SaveBegin(t) \/ SavePend(t) \/ SaveUser(t) \/ SaveWrite(t) \/ SaveAnswerLost(t)
  <2>1. UNCHANGED page \/ Refused(t) \/ Failed(t)
    BY <1>4 DEF SaveBegin, SavePend, SaveUser, SaveWrite, SaveAnswerLost
  <2> QED
    BY <1>2, <2>1
<1>5. CASE CheckPend(t)
  <2>1. task[t].got \in Maybe(PendRecord)
    BY <1>5 DEF Typed, Shaped, TaskShape, TaskOK, CheckPend, At
  <2>2. UNCHANGED page \/ NothingPending(t) \/ (task[t].got # None /\ Available(t, task[t].got.sub))
    BY <1>5 DEF CheckPend
  <2>3. task[t].got # None => task[t].got.sub \in Sub
    BY <2>1 DEF Maybe, PendRecord
  <2> QED
    BY <1>2, <2>2, <2>3
<1>6. CASE CheckAgain(t)
  BY <1>6, CheckAgainBanner
<1>7. CASE SaveEnd(t)
  BY <1>0, <1>7, SaveEndBanner
<1>8. CASE SaveDecide(t)
  <2> DEFINE v == Compared(SaveDecision(t), sub[task[t].sub].secret)
  <2>1. \/ Refused(t) \/ Failed(t) \/ UNCHANGED page
        \/ NeedsConfirmation(task[t], v) /\ AskToConfirm(t, v.entry)
    BY <1>8 DEF SaveDecide, SaveDecision, SavedDecision
  <2>2. v.act = "update" => v.entry \in Name
    BY <1>0, SaveDecisionTyped
  <2>3. task[t].kind = "save"
    BY <1>8 DEF SaveDecide
  <2> HIDE DEF v
  <2>4. NeedsConfirmation(task[t], v) => v.entry \in Name
    BY <2>2 DEF NeedsConfirmation
  <2> QED
    BY <1>2, <2>1, <2>3, <2>4, AskBanner
<1> QED
  BY <1>3, <1>4, <1>5, <1>6, <1>7, <1>8 DEF Worker, Check, Save

\* The other steps leave the banner, or take it away.
LEMMA OtherBanner ==
    ASSUME Typed, PageAct \/ StartsCheck \/ Lock \/ LateClear \/ Others \/ Restart \/ BeginOp \/ EndOp \/ Handling
    PROVE  BannerStays(page.banner, page'.banner)
<1>0. Shaped /\ page \in PageRecord /\ page.banner \in Maybe(Banner)
  BY DEF Typed, Shaped, PageShape, PageRecord
<1>1. page'.banner \in {page.banner, None} => BannerStays(page.banner, page'.banner)
  BY DEF BannerStays
<1>2. CASE PageAct
  <2>1. ASSUME NEW s \in Sub, NEW f \in Form, Submit(s, f)
        PROVE  page'.banner = None
    BY <1>0, <2>1, SubmitKeeps
  <2>2. ASSUME NEW n \in Name, TypeName(n)
        PROVE  page'.banner = page.banner
    BY <2>2 DEF TypeName
  <2>3. Transition \/ TimersEnd \/ StatusDismiss \/ StatusExpires => page'.banner = page.banner
    BY <1>0 DEF Transition, TimersEnd, StatusDismiss, StatusExpires, PageRecord
  <2>4. BannerDismiss => page'.banner = None
    BY <1>0 DEF BannerDismiss, PageRecord
  <2> QED
    BY <1>1, <1>2, <2>1, <2>2, <2>3, <2>4 DEF PageAct
<1>3. CASE StartsCheck
  <2>1. PICK t \in Task : Starts(t)
    BY <1>0, <1>3, StartsKeeps
  <2>2. PICK ts \in [Task -> TaskRecord], pg \in PageRecord, m \in BOOLEAN, s \in Maybe(Sub), a \in 0 .. 2 :
           /\ <<pg.latest, pg.banner>> \in {<<None, None>>, <<page.latest, page.banner>>}
           /\ BeginCheck(pg, ts, t, m, s, a, Len(msgs'))
    BY <2>1 DEF Starts
  <2>3. page'.banner = pg.banner
    BY <2>2 DEF BeginCheck, PageRecord
  <2> QED
    BY <1>1, <2>2, <2>3
<1>4. CASE Lock \/ LateClear \/ Others \/ BeginOp \/ EndOp
  <2>1. UNCHANGED page
    BY <1>4 DEF Lock, LateClear, Others, Login, Expire, OutsideChange, BeginOp, EndOp
  <2> QED
    BY <1>1, <2>1
<1>5. CASE Restart
  <2>1. /\ page'.banner \in {page.banner, [page.banner EXCEPT !.saving = None]}
        /\ page.banner = None => page'.banner = None
    BY <1>0, <1>5, RestartPage
  <2>2. page.banner # None => page.banner \in Banner
    BY <1>0 DEF Maybe
  <2> QED
    BY <2>1, <2>2 DEF BannerStays, Banner
<1>6. CASE Handling
  <2>1. UNCHANGED page \/ \E ok \in BOOLEAN : Received(msgs[1], ok)
    BY <1>0, <1>6, HandlingKeeps DEF Runs, Leaves
  <2>2. ASSUME NEW ok \in BOOLEAN, Received(msgs[1], ok)
        PROVE  page'.banner = page.banner
    <3> DEFINE pg == [page EXCEPT !.storing = FALSE, !.timer = msgs[1].sub]
    <3>1. \/ \E ts, t, m, s, a, e : BeginCheck(pg, ts, t, m, s, a, e)
          \/ \E ts, t, m, s, a, e : BeginCheck(page, ts, t, m, s, a, e)
          \/ page' = CaptureFailed(page) \/ page' = page
      BY <2>2 DEF Received
    <3>2. pg.banner = page.banner
      BY <1>0 DEF PageRecord
    <3>3. ASSUME NEW q \in {page, pg}, NEW ts, NEW t, NEW m, NEW s, NEW a, NEW e, BeginCheck(q, ts, t, m, s, a, e)
          PROVE  page'.banner = page.banner
      BY <1>0, <3>2, <3>3 DEF BeginCheck, PageRecord
    <3>4. CaptureFailed(page).banner = page.banner
      BY <1>0, PageTyped
    <3> QED
      BY <3>1, <3>3, <3>4
  <2> QED
    BY <1>1, <2>1, <2>2
<1> QED
  BY <1>2, <1>3, <1>4, <1>5, <1>6

LEMMA ShownNamedNext ==
    ASSUME Typed, Typed', Consented, Next
    PROVE  ShownNamed'
<1> DEFINE b == page.banner
<1>0. From /\ Grows /\ None \notin Task /\ BannerNamed(consent', sub', b)
  BY StepFrom, NamedGrows, ConstantAssumption DEF Consented, ShownNamed
\* A task that saves in the next state saved the same in this one, or was
\* begun by a click.
<1>1. ASSUME NEW t \in Task, task'[t].kind = "save"
      PROVE  \/ task[t].kind = "save" /\ task'[t].sub = task[t].sub
             \/ \E e \in Maybe(Name), n \in Maybe(Name), u \in Task : SaveClick(u, e, n) /\ task'[t].sub = b.sub
  <2>0. TaskOK(task[t])
    BY DEF Typed, Shaped, TaskShape
  <2>1. CASE SameTask(task[t], task'[t])
    BY <1>1, <2>1 DEF SameTask
  <2>2. CASE task'[t] = IdleTask
    BY <1>1, <2>2 DEF IdleTask
  <2>3. CASE NewTask(task'[t])
    <3>1. PICK e \in Maybe(Name), n \in Maybe(Name), u \in Task : SaveClick(u, e, n) /\ task'[t] = Clicked(e, n)
      BY <1>1, <2>3 DEF NewTask
    <3> QED
      BY <3>1, SaveClickKeeps DEF Typed
  <2>4. CASE Moves(task[t], task'[t])
    BY <1>1, <2>0, <2>4 DEF Moves, SameData, TaskOK, SavePC
  <2>5. CASE \E got \in Got : TaskGot(task[t], task'[t], got)
    BY <1>1, <2>5 DEF TaskGot
  <2> QED
    BY <1>0, <2>1, <2>2, <2>3, <2>4, <2>5 DEF From, TaskFrom
<1>2. ASSUME NEW u \in Task, NEW e \in Maybe(Name), NEW n \in Maybe(Name), SaveClick(u, e, n)
      PROVE  /\ b # None /\ page'.banner.saving = u /\ page'.banner.sub = b.sub
             /\ page'.banner.name = n /\ page'.banner.entry = e
  <2>1. /\ page'.banner.sub = b.sub /\ page'.banner.name = n /\ page'.banner.entry = e
        /\ b \in Banner
    BY <1>2, SaveClickKeeps DEF Typed
  <2>2. b # None /\ page' = [page EXCEPT !.banner = [b EXCEPT !.saving = u, !.entry = e, !.name = n]]
    BY <1>2 DEF SaveClick
  <2>3. page \in PageRecord
    BY DEF Typed, Shaped, PageShape
  <2>4. [b EXCEPT !.saving = u, !.entry = e, !.name = n].saving = u
    BY <2>1 DEF Banner
  <2>5. page'.banner = [b EXCEPT !.saving = u, !.entry = e, !.name = n]
    BY <2>2, <2>3 DEF PageRecord
  <2> QED
    BY <2>1, <2>2, <2>4, <2>5
<1>3. CASE Click
  <2>1. PICK u \in Task, e \in Maybe(Name), n \in Maybe(Name) : SaveClick(u, e, n)
    BY <1>3 DEF Click
  <2>2. b # None /\ page'.banner.sub = b.sub /\ page'.banner.saving = u
        /\ page'.banner.name = n /\ page'.banner.entry = e
    BY <1>2, <2>1
  <2>3. BannerNamed(consent', sub', page'.banner)
    BY <2>1, <2>2, ClickNamed DEF BannerNamed
  <2>4. task'[u].sub = b.sub
    <3>1. task' = [task EXCEPT ![u] = Clicked(e, n)] /\ Clicked(e, n).sub = b.sub
      BY <2>1, SaveClickKeeps DEF Typed
    <3>2. task \in [Task -> TaskRecord]
      BY DEF Typed, Shaped, TaskShape
    <3> QED
      BY <3>1, <3>2
  <2> QED
    BY <2>2, <2>3, <2>4 DEF ShownNamed
<1>4. CASE BannerStays(b, page'.banner)
  <2>1. BannerNamed(consent', sub', page'.banner)
    BY <1>0, <1>4 DEF BannerNamed, BannerStays
  <2>2. ASSUME NEW t \in Task, page'.banner # None, page'.banner.saving = t, task'[t].kind = "save"
        PROVE  task'[t].sub = page'.banner.sub
    <3>1. b # None /\ b.saving = t /\ page'.banner.sub = b.sub
      BY <1>0, <1>4, <2>2 DEF BannerStays
    <3>2. CASE task[t].kind = "save" /\ task'[t].sub = task[t].sub
      BY <3>1, <3>2 DEF Consented, ShownNamed
    <3> QED
      BY <1>1, <2>2, <3>1, <3>2
  <2> QED
    BY <2>1, <2>2 DEF ShownNamed
<1>5. CASE BannerNew
  BY <1>0, <1>5 DEF BannerNew, ShownNamed
<1>6. Click \/ BannerStays(b, page'.banner) \/ BannerNew
  BY <1>0, NextSteps, WorkerBanner, OtherBanner
<1> QED
  BY <1>3, <1>4, <1>5, <1>6

LEMMA ConsentedInit == Init => Consented
<1> SUFFICES ASSUME Init
    PROVE  Consented
  OBVIOUS
<1>1. \A t \in Task : TaskNamed(consent, sub, task[t])
  <2>1. IdleTask.kind = "idle" /\ IdleTask.pc = "idle"
    BY DEF IdleTask
  <2>2. TaskNamed(consent, sub, IdleTask)
    BY <2>1 DEF TaskNamed
  <2> QED
    BY <2>2 DEF Init
<1>2. NamedParts
  BY <1>1 DEF Init, NamedParts
<1>3. StoredNamed
  BY DEF Init, StoredNamed, RecordNamed
<1>4. ShownNamed
  BY DEF Init, Document, ShownNamed, BannerNamed
<1> QED
  BY <1>2, <1>3, <1>4 DEF Consented

LEMMA ConsentedNext == Typed /\ Consented /\ [Next]_vars => Consented'
<1> SUFFICES ASSUME Typed, Consented, [Next]_vars
    PROVE  Consented'
  OBVIOUS
<1>1. CASE Next
  <2>1. Typed' /\ From /\ Grows
    BY <1>1, TypedNext, StepFrom
  <2> QED
    BY <1>1, <2>1, MsgsNamedNext, QueueNamedNext, TasksNamedNext, StoredNamedNext, ShownNamedNext
       DEF Consented, NamedParts
<1>2. CASE UNCHANGED vars
  <2>1. UNCHANGED <<pend, user, writing, stateQueue, msgs, task, page, sub, consent>>
    BY <1>2 DEF vars, recordVars, history
  <2> QED
    BY <2>1 DEF Consented, NamedParts, StoredNamed, ShownNamed
<1> QED
  BY <1>1, <1>2

LEMMA ConsentedAlways == Spec => []Consented
  BY TypedInit, TypedNext, ConsentedInit, ConsentedNext, PTL DEF Spec

\* Only a save that is accepted, and others, change the vault.
Saves(t) == At(t, "write") /\ Accepted(t) /\ Stored(t)

LEMMA VaultSteps ==
    ASSUME Next
    PROVE  \/ UNCHANGED vault
           \/ \E t \in Task : Saves(t) /\ (SaveWrite(t) \/ SaveAnswerLost(t))
           \/ \E n \in Name, v \in Secret \cup {None} : OutsideChange(n, v)
<1>1. ASSUME NEW t \in Task, Worker(t)
      PROVE  UNCHANGED vault \/ (Saves(t) /\ (SaveWrite(t) \/ SaveAnswerLost(t)))
  <2>1. CASE Check(t)
    BY <2>1 DEF Check, CheckBegin, CheckPend, CheckUser, CheckDecide, CheckAgain, CheckUnchanged
  <2>2. CASE SaveWrite(t) \/ SaveAnswerLost(t)
    BY <2>2 DEF SaveWrite, SaveAnswerLost, Saves
  <2>3. CASE SaveBegin(t) \/ SavePend(t) \/ SaveUser(t) \/ SaveDecide(t) \/ SaveEnd(t)
    BY <2>3 DEF SaveBegin, SavePend, SaveUser, SaveDecide, SaveEnd
  <2>4. CASE List(t) \/ RequestFails(t) \/ ClearPend(t)
    BY <2>4 DEF List, RequestFails, ClearPend
  <2> QED
    BY <1>1, <2>1, <2>2, <2>3, <2>4 DEF Worker, Save
<1>2. PageAct => UNCHANGED vault
  BY DEF PageAct, Submit, TypeName, Transition, TimersEnd, StatusDismiss, StatusExpires, BannerDismiss
<1>3. StartsCheck \/ Click => UNCHANGED vault
  BY DEF StartsCheck, Navigate, BecomesVisible, RetryTimer, StatusAction, Click, SaveClick
<1>4. Lock \/ LateClear \/ Restart \/ BeginOp \/ EndOp \/ Handling => UNCHANGED vault
  BY DEF Lock, LateClear, Restart, BeginOp, EndOp, Handling, MsgBegin, MsgName, MsgEnd
<1>5. Others => UNCHANGED vault \/ \E n \in Name, v \in Secret \cup {None} : OutsideChange(n, v)
  BY DEF Others, Login, Expire
<1> QED
  BY <1>1, <1>2, <1>3, <1>4, <1>5, NextSteps, Zenon

VaultTyped == vault \in [Name -> Maybe(Secret)]

\* What a save stores is what was submitted, under the login it decided on.
LEMMA SavesWhat ==
    ASSUME Typed, Consented, NEW t \in Task, Saves(t)
    PROVE  /\ Captured(sub, task[t].sub) /\ Target(t) \in Name
           /\ vault' = [vault EXCEPT ![Target(t)] = sub[task[t].sub].secret]
           /\ \/ vault[Target(t)] = None
              \/ Confirmed(consent, sub, task[t].sub, Target(t))
<1> DEFINE k == task[t]
<1>1. /\ k.pc = "write" /\ TaskOK(k) /\ TaskNamed(consent, sub, k)
  BY DEF Saves, At, Typed, Shaped, TaskShape, Consented, NamedParts
<1>2. k \in TaskRecord /\ k.kind = "save"
  BY <1>1 DEF Typed, Shaped, TaskShape, TaskOK, TaskRecord, CheckPC
<1>3. k.verdict \in Verdict /\ k.verdict.act \in {"update", "create"}
  BY <1>1 DEF TaskOK
<1>4. Captured(sub, k.sub)
  BY <1>1, <1>2 DEF TaskNamed, Fits
<1>5. Target(t) \in Name
  BY <1>1, <1>3 DEF Target, TaskOK
<1>6. vault[Target(t)] = None \/ Confirmed(consent, sub, k.sub, Target(t))
  BY <1>1, <1>3 DEF Saves, Accepted, Target, TaskNamed
<1> QED
  BY <1>4, <1>5, <1>6 DEF Saves, Stored

LEMMA VaultNext ==
    ASSUME Typed, Consented, VaultTyped, [Next]_vars
    PROVE  VaultTyped'
<1>1. CASE UNCHANGED vault
  BY <1>1 DEF VaultTyped
<1>2. ASSUME NEW t \in Task, Saves(t)
      PROVE  VaultTyped'
  <2>1. /\ sub[task[t].sub] \in Content
        /\ vault' = [vault EXCEPT ![Target(t)] = sub[task[t].sub].secret]
    BY <1>2, SavesWhat DEF Captured
  <2>2. sub[task[t].sub].secret \in Maybe(Secret)
    BY <2>1 DEF Content, Maybe
  <2> QED
    BY <2>1, <2>2 DEF VaultTyped
<1>3. ASSUME NEW n \in Name, NEW v \in Secret \cup {None}, OutsideChange(n, v)
      PROVE  VaultTyped'
  BY <1>3 DEF OutsideChange, VaultTyped, Maybe
<1> QED
  BY <1>1, <1>2, <1>3, VaultSteps DEF vars

LEMMA VaultAlways == Spec => []VaultTyped
<1>1. Init => VaultTyped
  <2>1. Init => vault \in scene.vaults /\ scene \in Scene
    BY DEF Init
  <2>2. \A c \in Scene : c.vaults \subseteq [Name -> Maybe(Secret)]
    BY ConstantAssumption DEF Maybe
  <2> QED
    BY <2>1, <2>2 DEF VaultTyped
<1> QED
  BY <1>1, VaultNext, TypedAlways, ConsentedAlways, PTL DEF Spec

\* Every variable keeps its type, and an operation that writes is at the head
\* of its queue, so that updatePendingRecords runs one at a time.
THEOREM TypeCorrect == Spec => []TypeOK
<1>1. ASSUME Typed, VaultTyped
      PROVE  TypeOK
  <2>1. page.url \in Url /\ page.storing \in BOOLEAN /\ page.listening \in Task \cup {None}
        /\ {page.latest, page.armed, page.timer} \subseteq Sub \cup {None}
        /\ page.retry \in Retry \cup {None}
        /\ page.banner \in Banner \cup {None} /\ page.status \in Status \cup {None}
    BY <1>1 DEF Typed, Shaped, PageShape, PageRecord, Maybe
  <2>2. \A t \in Task : task[t].attempt \in 0 .. 2 /\ task[t].behind \in 0 .. Len(msgs)
    BY <1>1 DEF Typed, Shaped, TaskShape, TaskRecord
  <2>3. writing # None => stateQueue # <<>> /\ writing.pend \in PendRecord \cup {None}
    BY <1>1 DEF Typed, Shaped, RecordShape, Written, Writing, Maybe
  <2> QED
    BY <1>1, <2>1, <2>2, <2>3 DEF Typed, Shaped, SessionShape, RecordShape, QueueShape, VaultTyped, TypeOK, Maybe
<1> QED
  BY <1>1, TypedAlways, VaultAlways, PTL

\* However checks, saves, submissions, navigations and restarts interleave, a
\* save replaces the password only of a login that was named for its
\* submission, chosen in the banner, or shown there with Update before the
\* click (getCredentialSaveDecision, FORM_SUBMITTED).
THEOREM ConfirmedLogins == Spec => OnlyConfirmedLogins
<1> DEFINE Confirms == \A t \in Task, n \in Name :
          At(t, "write") /\ task'[t].pc # "write" /\ vault[n] # None /\ vault'[n] # vault[n]
          => \E c \in consent :
                /\ Folded[c[2]] = Folded[n]
                /\ c[1] = task[t].sub
                   \/ (c[1] = None /\ sub[task[t].sub].name = None)
<1>1. Typed /\ Consented /\ VaultTyped /\ [Next]_vars => [Confirms]_vars
  <2> SUFFICES ASSUME Typed, Consented, VaultTyped, Next, NEW t \in Task, NEW n \in Name,
                      At(t, "write"), task'[t].pc # "write", vault[n] # None, vault'[n] # vault[n]
      PROVE  \E c \in consent :
                /\ Folded[c[2]] = Folded[n]
                /\ c[1] = task[t].sub \/ (c[1] = None /\ sub[task[t].sub].name = None)
    OBVIOUS
  <2>1. PICK u \in Task : Saves(u) /\ (SaveWrite(u) \/ SaveAnswerLost(u))
    BY VaultSteps DEF OutsideChange, At
  <2>2. u = t
    <3>1. Worker(u)
      BY <2>1 DEF Worker, Save
    <3>2. u # t => task'[t] = task[t]
      BY <3>1, WorkerEffect DEF Typed, Shaped, TaskShape, Effect, Answers, GoesOn
    <3> QED
      BY <3>2 DEF At
  <2>3. Target(t) = n /\ Confirmed(consent, sub, task[t].sub, n)
    BY <2>1, <2>2, SavesWhat DEF VaultTyped
  <2>4. PICK m \in Name : Folded[m] = Folded[n] /\ GivenFor(consent, sub, task[t].sub, m)
    BY <2>3 DEF Confirmed
  <2>5. CASE <<task[t].sub, m>> \in consent
    BY <2>4, <2>5
  <2>6. CASE <<None, m>> \in consent /\ sub[task[t].sub].name = None
    BY <2>4, <2>6
  <2> QED
    BY <2>4, <2>5, <2>6 DEF GivenFor
<1> QED
  BY <1>1, TypedAlways, ConsentedAlways, VaultAlways, PTL DEF Spec, OnlyConfirmedLogins

(***************************************************************************)
(* Which submission the banner is about                                    *)
(***************************************************************************)
\* The messages move up by d, and no submission is among what is sent.
Moved(d) ==
    /\ Len(msgs) \in Nat /\ Len(msgs') \in Nat
    /\ \A i \in 1 .. Len(msgs) : i > d =>
          i - d \in 1 .. Len(msgs') /\ msgs'[i - d].kind = msgs[i].kind /\ msgs'[i - d].sub = msgs[i].sub
    /\ \A i \in 1 .. Len(msgs') : msgs'[i].kind = "creds" => i + d \in 1 .. Len(msgs)

\* A check that waits for messages goes on waiting for the same.
GoesOnWaiting(d) ==
    \A t \in Task : task[t].kind = "check" /\ task[t].pc = "queued" /\ task[t].behind > 0 =>
        task'[t].pc = "queued" /\ task'[t].behind >= task[t].behind - d

\* A check for which the page begins to listen waits for all messages.
Listens ==
    \/ page'.listening \in {None, page.listening}
    \/ \E t \in Task : page'.listening = t /\ task'[t].pc = "queued" /\ task'[t].behind = Len(msgs')

Onward ==
    /\ \E d \in {0, 1} : Moved(d) /\ GoesOnWaiting(d)
    /\ Listens /\ page'.latest \in {page.latest, None}

LEMMA MsgsStay ==
    ASSUME MsgShape, UNCHANGED msgs
    PROVE  Moved(0)
<1>1. Len(msgs) \in Nat
  BY DEF MsgShape
<1>2. \A i \in 1 .. Len(msgs) : i - 0 = i /\ i + 0 = i
  BY <1>1
<1> QED
  BY <1>1, <1>2 DEF Moved

LEMMA MsgsAdded ==
    ASSUME MsgShape, NEW ms, Added(ms), \A i \in DOMAIN ms : ms[i].kind # "creds"
    PROVE  Moved(0)
<1>1. /\ msgs \in Seq(MsgRecord) /\ ms \in Seq(MsgRecord) /\ msgs' = msgs \o ms
      /\ Len(msgs) \in Nat /\ Len(ms) \in Nat /\ Len(msgs') = Len(msgs) + Len(ms)
  BY DEF MsgShape, Added
<1>2. \A i \in 1 .. Len(msgs) : i \in 1 .. Len(msgs') /\ msgs'[i] = msgs[i] /\ i - 0 = i
  BY <1>1
<1>3. ASSUME NEW i \in 1 .. Len(msgs'), msgs'[i].kind = "creds"
      PROVE  i + 0 \in 1 .. Len(msgs)
  <2>1. i > Len(msgs) => i - Len(msgs) \in DOMAIN ms /\ msgs'[i] = ms[i - Len(msgs)]
    BY <1>1, <1>3
  <2> QED
    BY <1>1, <1>3, <2>1
<1> QED
  BY <1>1, <1>2, <1>3 DEF Moved

LEMMA WorkerOnward ==
    ASSUME Shaped, NEW t \in Task, Worker(t)
    PROVE  Onward
<1>0. /\ MsgShape /\ SessionShape /\ task \in [Task -> TaskRecord] /\ task[t].behind \in Nat /\ None \in Maybe(Sub)
      /\ \A u \in Task : task[u].behind \in Nat
  BY DEF Shaped, TaskShape, TaskRecord, Maybe
<1>1. Effect(t)
  BY WorkerEffect
<1>2. Moved(0)
  <2>1. CASE UNCHANGED msgs
    BY <1>0, <2>1, MsgsStay
  <2>2. CASE ~UNCHANGED msgs
    <3> DEFINE a == Message("clear", task[t].sub, None, FALSE)
               b == Message("clearUser", None, None, FALSE)
    <3>1. task[t].sub \in Sub /\ Added(<<a, b>>)
      BY <2>2, WorkerMessages
    <3>2. Fresh(a, "clear", task[t].sub, None) /\ Fresh(b, "clearUser", None, None)
      BY <1>0, <3>1, MessageTyped DEF Maybe
    <3> HIDE DEF a, b
    <3>3. \A i \in DOMAIN <<a, b>> : <<a, b>>[i] = a \/ <<a, b>>[i] = b
      OBVIOUS
    <3>4. \A i \in DOMAIN <<a, b>> : <<a, b>>[i].kind # "creds"
      BY <3>2, <3>3 DEF Fresh
    <3> QED
      BY <1>0, <3>1, <3>4, MsgsAdded
  <2> QED
    BY <2>1, <2>2
<1>3. task[t].kind = "check" /\ task[t].pc = "queued" => task[t].behind = 0
  BY DEF Worker, Check, Save, CheckBegin, CheckPend, CheckUser, CheckDecide, CheckAgain, CheckUnchanged,
     SaveBegin, SavePend, SaveUser, SaveDecide, SaveWrite, SaveAnswerLost, SaveEnd, List, RequestFails, ClearPend, At
<1>4. \A u \in Task : u # t => task'[u] = task[u]
  BY <1>0, <1>1 DEF Effect, Answers, GoesOn
<1>5. GoesOnWaiting(0)
  BY <1>0, <1>3, <1>4 DEF GoesOnWaiting
<1>6. Listens /\ page'.latest = page.latest
  BY <1>1 DEF Effect, Answers, GoesOn, Listens
<1> QED
  BY <1>2, <1>5, <1>6 DEF Onward

LEMMA SameWaiting ==
    ASSUME TaskShape, UNCHANGED task
    PROVE  GoesOnWaiting(0)
  BY DEF TaskShape, TaskRecord, GoesOnWaiting

LEMMA PageActOnward ==
    ASSUME Shaped, PageAct
    PROVE  Onward \/ \E s \in Sub, f \in Form : Submit(s, f)
<1>0. /\ MsgShape /\ TaskShape /\ SessionShape /\ page \in PageRecord /\ page.timer \in Maybe(Sub)
      /\ page.banner \in Maybe(Banner) /\ page.status \in Maybe(Status) /\ None \in Maybe(Sub) /\ None \in Maybe(Name)
  BY DEF Shaped, PageShape, PageRecord, Maybe
<1> DEFINE S1 == \E s \in Sub, f \in Form : Submit(s, f)
<1>1. GoesOnWaiting(0)
  <2>1. UNCHANGED task
    BY PageActKeeps
  <2> QED
    BY <1>0, <2>1, SameWaiting
<1>2. S1 \/ (page'.latest = page.latest /\ page'.listening \in {None, page.listening})
  BY <1>0 DEF PageAct, TypeName, Transition, TimersEnd, StatusDismiss, StatusExpires, BannerDismiss, PageRecord
<1>3. ASSUME NEW m, NEW kind, NEW s, NEW n, Fresh(m, kind, s, n), kind # "creds", msgs' = Append(msgs, m)
      PROVE  Moved(0)
  <2>1. Added(<<m>>)
    BY <1>0, <1>3, OneAdded DEF Fresh
  <2>2. \A i \in DOMAIN <<m>> : <<m>>[i] = m
    OBVIOUS
  <2> QED
    BY <1>0, <1>3, <2>1, <2>2, MsgsAdded DEF Fresh
<1>4. ASSUME NEW n \in Name, TypeName(n)
      PROVE  Moved(0)
  <2>1. Fresh(Message("user", None, n, FALSE), "user", None, n)
    BY <1>0, MessageTyped DEF Maybe
  <2> QED
    BY <1>3, <1>4, <2>1 DEF TypeName
<1>5. CASE Transition
  <2>1. page.timer \in Sub
    BY <1>0, <1>5 DEF Transition, Maybe
  <2>2. Fresh(Message("mark", page.timer, None, TRUE), "mark", page.timer, None)
    BY <1>0, <2>1, MessageTyped DEF Maybe
  <2> QED
    BY <1>1, <1>2, <1>3, <1>5, <2>2 DEF Transition, Onward, Listens
<1>6. CASE TimersEnd \/ StatusExpires
  <2>1. UNCHANGED msgs
    BY <1>6 DEF TimersEnd, StatusExpires
  <2> QED
    BY <1>0, <1>1, <1>2, <2>1, MsgsStay DEF Onward, Listens
<1>7. CASE StatusDismiss
  <2>1. CASE UNCHANGED msgs
    BY <1>0, <1>1, <1>2, <2>1, MsgsStay DEF Onward, Listens
  <2>2. CASE ~UNCHANGED msgs
    <3>1. page.status.sub \in Sub /\ msgs' = Append(msgs, Message("clear", page.status.sub, None, FALSE))
      BY <1>0, <1>7, <2>2 DEF StatusDismiss, Maybe, Status
    <3>2. Fresh(Message("clear", page.status.sub, None, FALSE), "clear", page.status.sub, None)
      BY <1>0, <3>1, MessageTyped DEF Maybe
    <3> QED
      BY <1>1, <1>2, <1>3, <3>1, <3>2 DEF Onward, Listens
  <2> QED
    BY <2>1, <2>2
<1>8. CASE BannerDismiss
  <2> DEFINE a == Message("clear", page.banner.sub, None, FALSE)
             b == Message("clearUser", None, None, FALSE)
  <2>1. page.banner.sub \in Sub /\ msgs' = msgs \o <<a, b>>
    BY <1>0, <1>8 DEF BannerDismiss, Maybe, Banner
  <2>2. Fresh(a, "clear", page.banner.sub, None) /\ Fresh(b, "clearUser", None, None)
    BY <1>0, <2>1, MessageTyped DEF Maybe
  <2> HIDE DEF a, b
  <2>3. Added(<<a, b>>)
    BY <2>1, <2>2, TwoAdded DEF Fresh
  <2>4. \A i \in DOMAIN <<a, b>> : <<a, b>>[i] = a \/ <<a, b>>[i] = b
    OBVIOUS
  <2>5. \A i \in DOMAIN <<a, b>> : <<a, b>>[i].kind # "creds"
    BY <2>2, <2>4 DEF Fresh
  <2> QED
    BY <1>0, <1>1, <1>2, <2>3, <2>5, MsgsAdded DEF Onward, Listens
<1> QED
  BY <1>1, <1>2, <1>4, <1>5, <1>6, <1>7, <1>8 DEF PageAct, Onward, Listens

LEMMA ListensOn ==
    ASSUME MsgShape, TaskShape, UNCHANGED <<msgs, task, page>>
    PROVE  Onward
  BY MsgsStay, SameWaiting DEF Onward, Listens

LEMMA BegunOnward ==
    ASSUME TaskShape, NEW d \in {0, 1}, Moved(d), NEW t \in Task, NEW ts \in [Task -> TaskRecord],
           \A u \in Task : ts[u].pc = task[u].pc /\ ts[u].behind >= task[u].behind - d,
           NEW pg \in PageRecord, pg.latest \in {page.latest, None},
           NEW m \in BOOLEAN, NEW s \in Maybe(Sub), NEW a \in 0 .. 2, BeginCheck(pg, ts, t, m, s, a, Len(msgs'))
    PROVE  Onward
<1>0. Len(msgs') \in Nat /\ \A u \in Task : task[u].behind \in Nat
  BY DEF Moved, TaskShape, TaskRecord
<1>1. /\ ts[t].pc = "idle"
      /\ \E k \in TaskRecord : task' = [ts EXCEPT ![t] = k] /\ k.pc = "queued" /\ k.behind = Len(msgs')
      /\ page'.listening = t /\ page'.latest = pg.latest
  BY <1>0, BeginTyped
<1>2. PICK k \in TaskRecord : task' = [ts EXCEPT ![t] = k] /\ k.pc = "queued" /\ k.behind = Len(msgs')
  BY <1>1
<1>3. \A u \in Task : task[u].pc = "queued" => task'[u] = ts[u]
  BY <1>1, <1>2
<1>4. GoesOnWaiting(d)
  BY <1>3 DEF GoesOnWaiting
<1>5. Listens
  BY <1>1, <1>2 DEF Listens
<1> QED
  BY <1>1, <1>4, <1>5 DEF Onward

LEMMA StartsOnward ==
    ASSUME Shaped, StartsCheck
    PROVE  Onward
<1>0. TaskShape /\ MarksAdded /\ \E t \in Task : Starts(t)
  BY StartsKeeps DEF Shaped
<1>1. Moved(0)
  <2>1. \A i \in 1 .. Len(msgs) : i - 0 = i /\ i \in 1 .. Len(msgs')
    BY <1>0 DEF MarksAdded
  <2>2. ASSUME NEW i \in 1 .. Len(msgs'), msgs'[i].kind = "creds"
        PROVE  i + 0 \in 1 .. Len(msgs)
    <3>1. MsgShape'
      BY StartsKeeps
    <3>2. i \in DOMAIN msgs'
      BY <2>2, <3>1 DEF MsgShape
    <3>3. ~(i > Len(msgs))
      BY <1>0, <2>2, <3>2 DEF MarksAdded
    <3> QED
      BY <1>0, <2>2, <3>3 DEF MarksAdded
  <2> QED
    BY <1>0, <2>1, <2>2 DEF MarksAdded, Moved
<1>2. PICK t \in Task : Starts(t)
  BY <1>0
<1>3. PICK ts \in [Task -> TaskRecord], pg \in PageRecord, m \in BOOLEAN, s \in Maybe(Sub), a \in 0 .. 2 :
        /\ \A u \in Task : SameTask(task[u], ts[u]) /\ ts[u].behind = task[u].behind
        /\ <<pg.latest, pg.banner>> \in {<<None, None>>, <<page.latest, page.banner>>}
        /\ BeginCheck(pg, ts, t, m, s, a, Len(msgs'))
  BY <1>2 DEF Starts
<1>4. \A u \in Task : ts[u].pc = task[u].pc /\ ts[u].behind >= task[u].behind - 0
  BY <1>0, <1>3 DEF SameTask, TaskShape, TaskRecord
<1>5. pg.latest \in {page.latest, None} /\ 0 \in {0, 1}
  BY <1>3
<1> QED
  BY <1>0, <1>1, <1>3, <1>4, <1>5, BegunOnward

LEMMA ClickOnward ==
    ASSUME Shaped, Click
    PROVE  Onward
<1>0. MsgShape /\ TaskShape
  BY DEF Shaped
<1>1. PICK t \in Task, e \in Maybe(Name), n \in Maybe(Name) : SaveClick(t, e, n)
  BY DEF Click
<1>2. /\ UNCHANGED msgs /\ task[t].pc = "idle" /\ page'.listening = page.listening /\ page'.latest = page.latest
      /\ task' = [task EXCEPT ![t] = Clicked(e, n)]
  BY <1>1, SaveClickKeeps
<1>3. GoesOnWaiting(0)
  BY <1>0, <1>2 DEF GoesOnWaiting, TaskShape, TaskRecord
<1> QED
  BY <1>0, <1>2, <1>3, MsgsStay DEF Onward, Listens

LEMMA ReturnOnward ==
    ASSUME Typed, stateQueue # <<>>, NEW got \in Got, Return(Head(stateQueue).by, got), UNCHANGED page
    PROVE  Onward
<1> DEFINE by == Head(stateQueue).by
<1>0. TaskShape
  BY DEF Typed, Shaped
<1>1. /\ \A u \in Task : u # by => task'[u] = task[u]
      /\ by \in Task => TaskGot(task[by], task'[by], got)
      /\ Len(msgs') = Len(msgs) /\ Len(msgs) \in Nat
      /\ \A i \in 1 .. Len(msgs) : i > 1 \/ by # "msg" => msgs'[i] = msgs[i]
      /\ by = "msg" => 1 \in 1 .. Len(msgs) /\ MsgGot(msgs[1], msgs'[1], got)
  BY ReturnEffect
<1> HIDE DEF by
<1>2. \A u \in Task : task'[u].pc = task[u].pc /\ task'[u].behind = task[u].behind
  BY <1>1 DEF TaskGot
<1>3. \A i \in 1 .. Len(msgs) : msgs'[i].kind = msgs[i].kind /\ msgs'[i].sub = msgs[i].sub /\ i - 0 = i /\ i + 0 = i
  BY <1>1 DEF MsgGot
<1>4. Moved(0)
  BY <1>1, <1>3 DEF Moved
<1>5. GoesOnWaiting(0)
  BY <1>0, <1>2 DEF GoesOnWaiting, TaskShape, TaskRecord
<1> QED
  BY <1>4, <1>5 DEF Onward, Listens

LEMMA HandlingOnward ==
    ASSUME Shaped, Handling
    PROVE  Onward
<1>0. /\ TaskShape /\ MsgShape
      /\ msgs # <<>> /\ ~msgs[1].waits
      /\ \/ \E pc, kind, n : Runs(pc, kind, n) /\ RunsFor(pc, kind, n)
         \/ \E ok \in BOOLEAN : Leaves(ok)
  BY HandlingKeeps DEF Shaped
<1>1. ASSUME NEW pc, NEW kind, NEW n, Runs(pc, kind, n), RunsFor(pc, kind, n)
      PROVE  Onward
  <2>1. /\ UNCHANGED <<task, page>>
        /\ Len(msgs') = Len(msgs) /\ Len(msgs) \in Nat
        /\ \A i \in 1 .. Len(msgs) : i > 1 => msgs'[i] = msgs[i]
        /\ msgs'[1].kind = msgs[1].kind /\ msgs'[1].sub = msgs[1].sub
    BY <1>0, <1>1, RunsEffect
  <2>2. \A i \in 1 .. Len(msgs) : msgs'[i].kind = msgs[i].kind /\ msgs'[i].sub = msgs[i].sub /\ i - 0 = i /\ i + 0 = i
    BY <2>1
  <2>3. Moved(0)
    BY <2>1, <2>2 DEF Moved
  <2> QED
    BY <1>0, <2>1, <2>3, SameWaiting DEF Onward, Listens
<1>2. ASSUME NEW ok \in BOOLEAN, Leaves(ok)
      PROVE  Onward
  <2>1. /\ Len(msgs) \in Nat /\ Len(msgs') = Len(msgs) - 1 /\ Len(msgs) >= 1
        /\ \A i \in 1 .. Len(msgs') : i + 1 \in 1 .. Len(msgs) /\ msgs'[i] = msgs[i + 1]
        /\ \/ \E t \in Task : LeavesToCheck(t)
           \/ task' = Advanced(task) /\ SamePage(page, page')
    BY <1>0, <1>2, LeavesEffect
  <2>2. Moved(1)
    <3>1. ASSUME NEW i \in 1 .. Len(msgs), i > 1
          PROVE  i - 1 \in 1 .. Len(msgs') /\ msgs'[i - 1] = msgs[i]
      <4>1. i - 1 \in 1 .. Len(msgs') /\ (i - 1) + 1 = i
        BY <2>1, <3>1
      <4> QED
        BY <2>1, <4>1
    <3> QED
      BY <2>1, <3>1 DEF Moved
  <2>3. /\ Advanced(task) \in [Task -> TaskRecord]
        /\ \A u \in Task : Advanced(task)[u].pc = task[u].pc /\ Advanced(task)[u].behind >= task[u].behind - 1
    <3>1. /\ Advanced(task) \in [Task -> TaskRecord]
          /\ \A u \in Task : SameTask(task[u], Advanced(task)[u])
      BY <1>0, <2>1, AdvancedTyped
    <3>2. \A u \in Task : Advanced(task)[u].behind >= task[u].behind - 1
      BY <1>0 DEF Advanced, TaskShape, TaskRecord
    <3> QED
      BY <3>1, <3>2 DEF SameTask
  <2>4. ASSUME NEW t \in Task, LeavesToCheck(t)
        PROVE  Onward
    <3>1. PICK pg \in PageRecord, s \in Maybe(Sub) :
             pg.latest = page.latest /\ BeginCheck(pg, Advanced(task), t, FALSE, s, 0, Len(msgs'))
      BY <2>4 DEF LeavesToCheck
    <3>2. 0 \in 0 .. 2 /\ FALSE \in BOOLEAN /\ 1 \in {0, 1} /\ pg.latest \in {page.latest, None}
      BY <3>1
    <3> QED
      BY <1>0, <2>2, <2>3, <3>1, <3>2, BegunOnward
  <2>5. CASE task' = Advanced(task) /\ SamePage(page, page')
    <3>1. GoesOnWaiting(1)
      BY <2>3, <2>5 DEF GoesOnWaiting
    <3>2. Listens /\ page'.latest = page.latest
      BY <2>5 DEF SamePage, Listens
    <3> QED
      BY <2>2, <3>1, <3>2 DEF Onward
  <2> QED
    BY <2>1, <2>4, <2>5
<1> QED
  BY <1>0, <1>1, <1>2

LEMMA StepOnward ==
    ASSUME Typed, Next
    PROVE  Onward \/ Restart \/ \E s \in Sub, f \in Form : Submit(s, f)
<1>0. Shaped /\ MsgShape /\ TaskShape
  BY DEF Typed, Shaped
<1>1. CASE Lock \/ LateClear \/ Others
  <2>1. UNCHANGED <<msgs, task, page>>
    BY <1>1 DEF Lock, LateClear, Others, Login, Expire, OutsideChange
  <2> QED
    BY <1>0, <2>1, ListensOn
<1>2. CASE BeginOp
  <2>1. stateQueue # <<>> /\ UNCHANGED page /\ (UNCHANGED <<task, msgs>> \/ Return(Head(stateQueue).by, None))
    BY <1>2 DEF BeginOp
  <2>2. None \in Got
    BY DEF Got, Maybe
  <2> QED
    BY <1>0, <2>1, <2>2, ListensOn, ReturnOnward
<1>3. CASE EndOp
  <2>1. /\ writing # None /\ UNCHANGED page
        /\ \E got \in {None, writing.got} : Return(Head(stateQueue).by, got)
    BY <1>3 DEF EndOp
  <2>2. None \in Got /\ writing.got \in Got /\ stateQueue # <<>>
    BY <2>1 DEF Typed, Shaped, RecordShape, Written, Writing, Got, Maybe
  <2> QED
    BY <2>1, <2>2, ReturnOnward
<1> QED
  BY <1>0, <1>1, <1>2, <1>3, NextSteps, WorkerOnward, PageActOnward, StartsOnward, ClickOnward, HandlingOnward

\* Each submission has one message, and the newest is the last of those that
\* are sent.  Until it is stored it is not captured; only its message stores it.
Unstored == {"new", "name"}
Asking ==
    /\ \A i, j \in DOMAIN msgs :
          msgs[i].kind = "creds" /\ msgs[j].kind = "creds" /\ msgs[i].sub = msgs[j].sub => i = j
    /\ \A i \in DOMAIN msgs : msgs[i].kind = "creds" /\ page.latest # None =>
          \E j \in DOMAIN msgs : j >= i /\ msgs[j].kind = "creds" /\ msgs[j].sub = page.latest
    /\ \A i \in DOMAIN msgs : msgs[i].kind = "creds" /\ msgs[i].pc \in Unstored => msgs[i].sub \notin captured
    /\ \A i \in DOMAIN stateQueue : stateQueue[i].kind = "setPend" =>
          stateQueue[i].by = "msg" /\ stateQueue[i].sub \notin captured
    /\ \A s \in captured : sub[s] # None

\* When the newest submission is captured, no record is about an older one.
About(r, s) == r # None => r.sub = s
Newest ==
    /\ pend # None => pend.sub \in captured
    /\ writing # None =>
         /\ writing.pend # None /\ Head(stateQueue).kind # "setPend" => writing.pend.sub \in captured
         /\ Head(stateQueue).kind = "setPend" => About(writing.pend, Head(stateQueue).sub)
    /\ page.latest \in captured =>
         /\ About(pend, page.latest)
         /\ writing # None => /\ About(writing.pend, page.latest)
                              /\ Head(stateQueue).kind = "getPend" => About(writing.got, page.latest)

\* Until the newest submission is stored there is no banner, and the check for
\* which the page listens waits for it; then what that check finds is about it.
Shows ==
    /\ \A i \in DOMAIN msgs : msgs[i].kind = "creds" /\ msgs[i].sub = page.latest =>
          /\ page.banner = None
          /\ page.listening # None =>
                task[page.listening].pc = "queued" /\ task[page.listening].behind >= i
    /\ page.listening # None /\ page.latest \in captured =>
          (task[page.listening].pc \in {"pend", "recheck"} /\ ~task[page.listening].waits
           => About(task[page.listening].got, page.latest))
    /\ BannerIsNewest

Latest == Asking /\ Newest /\ Shows

\* The operation that stores a submission is that of its message.
LEMMA StoredByMessage ==
    ASSUME Typed, Asking, NEW i \in DOMAIN stateQueue, stateQueue[i].kind = "setPend"
    PROVE  /\ stateQueue[i].by = "msg" /\ stateQueue[i].sub \in Sub /\ stateQueue[i].sub \notin captured
           /\ 1 \in DOMAIN msgs /\ msgs[1].kind = "creds" /\ msgs[1].sub = stateQueue[i].sub
           /\ msgs[1].pc = "store" /\ msgs[1].waits
<1>1. stateQueue[i].by = "msg" /\ stateQueue[i].sub \notin captured
  BY DEF Asking
<1>2. /\ msgs # <<>> /\ msgs[1].waits /\ AwaitsMsg(msgs[1]) = "setPend" /\ stateQueue[i].sub = msgs[1].sub
  BY <1>1 DEF Typed, Asked
<1>3. 1 \in DOMAIN msgs /\ msgs[1] \in MsgRecord /\ MsgOK(msgs[1])
  BY <1>2 DEF Typed, Shaped, MsgShape
<1>4. msgs[1].pc # "name" /\ msgs[1].kind = "creds"
  BY <1>2, <1>3 DEF AwaitsMsg, MsgRecord
<1>5. msgs[1].pc = "store"
  BY <1>2, <1>3, <1>4 DEF MsgRecord, MsgOK
<1> QED
  BY <1>1, <1>2, <1>3, <1>4, <1>5 DEF MsgOK

\* When the newest submission is captured, nothing is left to be stored.
LEMMA NothingToStore ==
    ASSUME Typed, Asking, page.latest \in captured, NEW i \in DOMAIN stateQueue
    PROVE  stateQueue[i].kind # "setPend"
<1> SUFFICES ASSUME stateQueue[i].kind = "setPend"
    PROVE  FALSE
  OBVIOUS
<1>1. /\ stateQueue[i].sub \notin captured /\ 1 \in DOMAIN msgs /\ msgs[1].kind = "creds"
      /\ msgs[1].sub = stateQueue[i].sub
  BY StoredByMessage
<1>2. page.latest # None
  BY ConstantAssumption DEF Typed, Shaped, RecordShape
<1>3. PICK j \in DOMAIN msgs : j >= 1 /\ msgs[j].kind = "creds" /\ msgs[j].sub = page.latest
  BY <1>1, <1>2 DEF Asking
<1>4. j # 1
  BY <1>1, <1>3
<1>5. msgs[j].pc = "new"
  <2>1. DOMAIN msgs = 1 .. Len(msgs) /\ Len(msgs) \in Nat
    BY DEF Typed, Shaped, MsgShape
  <2>2. j > 1
    BY <1>3, <1>4, <2>1
  <2> QED
    BY <2>2 DEF Typed, Shaped, MsgShape
<1> QED
  BY <1>3, <1>5 DEF Asking, Unstored

\* Which submissions are captured in a step.
LEMMA CapturedStep ==
    ASSUME Typed, Asking, Next
    PROVE  \/ UNCHANGED captured
           \/ /\ EndOp /\ 1 \in DOMAIN stateQueue /\ Head(stateQueue) = stateQueue[1]
              /\ stateQueue[1].kind = "setPend" /\ captured' = captured \cup {stateQueue[1].sub}
           \/ Restart
<1>0. Shaped
  BY DEF Typed
<1>1. CASE EndOp
  <2>1. 1 \in DOMAIN stateQueue /\ Head(stateQueue) = stateQueue[1]
    BY <1>1 DEF EndOp, Typed, Shaped, QueueShape, Written
  <2>2. captured' = captured \cup (IF stateQueue[1].kind = "setPend" THEN {stateQueue[1].sub} ELSE {})
    BY <1>1, <2>1 DEF EndOp
  <2> QED
    BY <1>1, <2>1, <2>2
<1>2. CASE BeginOp \/ Lock \/ LateClear \/ Others
  BY <1>2 DEF BeginOp, Lock, LateClear, Others, Login, Expire, OutsideChange, history
<1>3. CASE Quiet
  BY <1>3 DEF Quiet
<1> QED
  BY <1>0, <1>1, <1>2, <1>3, NextSteps, WorkerFrom, PageActFrom, StartsFrom, ClickFrom, HandlingFrom

\* A submission that is new in its document is not captured.
LEMMA NewestStays ==
    ASSUME Typed, Typed', Asking, Next, page'.latest \in captured \/ (page'.latest \in Sub /\ Onward)
    PROVE  page'.latest = page.latest
<1>0. Shaped /\ captured \subseteq Sub /\ None \notin Sub
  BY ConstantAssumption DEF Typed, Shaped, RecordShape
<1>1. page'.latest # None
  BY <1>0
<1>2. CASE Onward
  BY <1>1, <1>2 DEF Onward
<1>3. CASE Restart
  BY <1>0, <1>3, RestartPage
<1>4. ASSUME NEW s \in Sub, NEW f \in Form, Submit(s, f), page'.latest \in captured
      PROVE  FALSE
  <2>1. page'.latest = s /\ sub[s] = None
    BY <1>0, <1>4, SubmitKeeps
  <2> QED
    BY <1>4, <2>1 DEF Asking
<1> QED
  BY <1>2, <1>3, <1>4, StepOnward

\* The messages of the submissions: one for each, the newest the last.
LEMMA AskingMessages ==
    ASSUME Typed, Typed', Consented, Asking, Next
    PROVE  /\ \A i, j \in DOMAIN msgs' :
                 msgs'[i].kind = "creds" /\ msgs'[j].kind = "creds" /\ msgs'[i].sub = msgs'[j].sub => i = j
           /\ \A i \in DOMAIN msgs' : msgs'[i].kind = "creds" /\ page'.latest # None =>
                 \E j \in DOMAIN msgs' : j >= i /\ msgs'[j].kind = "creds" /\ msgs'[j].sub = page'.latest
<1>0. /\ Shaped /\ DOMAIN msgs = 1 .. Len(msgs) /\ DOMAIN msgs' = 1 .. Len(msgs') /\ Len(msgs) \in Nat /\ Len(msgs') \in Nat
  BY DEF Typed, Shaped, MsgShape
<1>1. ASSUME Onward
      PROVE  /\ \A i, j \in DOMAIN msgs' :
                   msgs'[i].kind = "creds" /\ msgs'[j].kind = "creds" /\ msgs'[i].sub = msgs'[j].sub => i = j
             /\ \A i \in DOMAIN msgs' : msgs'[i].kind = "creds" /\ page'.latest # None =>
                   \E j \in DOMAIN msgs' : j >= i /\ msgs'[j].kind = "creds" /\ msgs'[j].sub = page'.latest
  <2>1. PICK d \in {0, 1} : Moved(d)
    BY <1>1 DEF Onward
  <2>2. ASSUME NEW i \in 1 .. Len(msgs'), msgs'[i].kind = "creds"
        PROVE  i + d \in 1 .. Len(msgs) /\ msgs[i + d].kind = "creds" /\ msgs[i + d].sub = msgs'[i].sub
    <3>1. i + d \in 1 .. Len(msgs) /\ (i + d) - d = i /\ i + d > d
      BY <1>0, <2>1, <2>2 DEF Moved
    <3> QED
      BY <2>1, <2>2, <3>1 DEF Moved
  <2>3. ASSUME NEW i \in 1 .. Len(msgs'), NEW j \in 1 .. Len(msgs'),
               msgs'[i].kind = "creds", msgs'[j].kind = "creds", msgs'[i].sub = msgs'[j].sub
        PROVE  i = j
    <3>1. i + d = j + d
      BY <1>0, <2>2, <2>3 DEF Asking
    <3> QED
      BY <1>0, <3>1
  <2>4. ASSUME NEW i \in 1 .. Len(msgs'), msgs'[i].kind = "creds", page'.latest # None
        PROVE  \E j \in 1 .. Len(msgs') : j >= i /\ msgs'[j].kind = "creds" /\ msgs'[j].sub = page'.latest
    <3>1. page'.latest = page.latest
      BY <1>1, <2>4 DEF Onward
    <3>2. i + d \in 1 .. Len(msgs) /\ msgs[i + d].kind = "creds"
      BY <2>2, <2>4
    <3>3. PICK j \in 1 .. Len(msgs) : j >= i + d /\ msgs[j].kind = "creds" /\ msgs[j].sub = page.latest
      BY <1>0, <2>4, <3>1, <3>2 DEF Asking
    <3>4. j > d /\ j - d >= i
      BY <1>0, <3>3
    <3>5. j - d \in 1 .. Len(msgs') /\ msgs'[j - d].kind = msgs[j].kind /\ msgs'[j - d].sub = msgs[j].sub
      BY <2>1, <3>3, <3>4 DEF Moved
    <3> QED
      BY <3>1, <3>3, <3>4, <3>5
  <2> QED
    BY <1>0, <2>3, <2>4
<1>2. ASSUME NEW s \in Sub, NEW f \in Form, Submit(s, f)
      PROVE  /\ \A i, j \in DOMAIN msgs' :
                   msgs'[i].kind = "creds" /\ msgs'[j].kind = "creds" /\ msgs'[i].sub = msgs'[j].sub => i = j
             /\ \A i \in DOMAIN msgs' : msgs'[i].kind = "creds" /\ page'.latest # None =>
                   \E j \in DOMAIN msgs' : j >= i /\ msgs'[j].kind = "creds" /\ msgs'[j].sub = page'.latest
  <2> DEFINE m == Message("creds", s, f.name, TRUE)
             n == Len(msgs) + 1
  <2>1. page'.latest = s /\ m.kind = "creds" /\ m.sub = s /\ sub[s] = None
    BY <1>0, <1>2, SubmitKeeps DEF Fresh
  <2>2. msgs' = Append(msgs, m) /\ msgs \in Seq(MsgRecord)
    BY <1>2 DEF Submit, Typed, Shaped, MsgShape
  <2> HIDE DEF m
  <2>3. n \in 1 .. Len(msgs') /\ Len(msgs') = n /\ msgs'[n] = m /\ \A i \in 1 .. Len(msgs) : msgs'[i] = msgs[i]
    BY <1>0, <2>2
  <2>4. ASSUME NEW i \in 1 .. Len(msgs), msgs[i].kind = "creds"
        PROVE  msgs[i].sub # s
    <3>1. sub[msgs[i].sub] \in Content
      BY <1>0, <2>4 DEF Consented, NamedParts, MsgNamed, Captured
    <3> QED
      BY <2>1, <3>1, NoneAssumption
  <2>5. \A i \in 1 .. Len(msgs') : i = n \/ i \in 1 .. Len(msgs)
    BY <1>0, <2>3
  <2>6. ASSUME NEW i \in 1 .. Len(msgs'), NEW j \in 1 .. Len(msgs'),
               msgs'[i].kind = "creds", msgs'[j].kind = "creds", msgs'[i].sub = msgs'[j].sub
        PROVE  i = j
    <3>1. CASE i = n
      BY <2>1, <2>3, <2>4, <2>5, <2>6, <3>1
    <3>2. CASE j = n
      BY <2>1, <2>3, <2>4, <2>5, <2>6, <3>2
    <3>3. CASE i \in 1 .. Len(msgs) /\ j \in 1 .. Len(msgs)
      BY <1>0, <2>3, <2>6, <3>3 DEF Asking
    <3> QED
      BY <2>5, <3>1, <3>2, <3>3
  <2>7. ASSUME NEW i \in 1 .. Len(msgs')
        PROVE  n >= i
    BY <1>0, <2>3
  <2> QED
    BY <1>0, <2>1, <2>3, <2>6, <2>7
<1>3. CASE Restart
  <2>1. msgs' = <<>>
    BY <1>0, <1>3, RestartKeeps
  <2> QED
    BY <2>1
<1> QED
  BY <1>1, <1>2, <1>3, StepOnward

\* A message that is not stored was not stored before the step, or was sent in it.
LEMMA UnstoredFrom ==
    ASSUME Typed, Typed', Asking, Next, NEW i \in DOMAIN msgs', msgs'[i].kind = "creds", msgs'[i].pc \in Unstored
    PROVE  \/ \E j \in DOMAIN msgs : msgs[j].kind = "creds" /\ msgs[j].pc \in Unstored /\ msgs[j].sub = msgs'[i].sub
           \/ sub[msgs'[i].sub] = None
<1>1. From
  BY StepFrom
<1>2. ASSUME NEW j \in DOMAIN msgs, MsgFrom(msgs[j], msgs'[i])
      PROVE  msgs[j].kind = "creds" /\ msgs[j].pc \in Unstored /\ msgs[j].sub = msgs'[i].sub
  BY <1>2 DEF MsgFrom, Unstored
<1>3. CASE Sent(msgs'[i])
  BY <1>3 DEF Sent
<1> QED
  BY <1>1, <1>2, <1>3 DEF From, MsgsFrom

LEMMA AskingNext ==
    ASSUME Typed, Typed', Consented, Asking, Next
    PROVE  Asking'
<1>0. /\ Shaped /\ From /\ Grows /\ DOMAIN msgs = 1 .. Len(msgs) /\ captured \subseteq Sub
  BY StepFrom DEF Typed, Shaped, MsgShape, RecordShape
<1>1. \/ UNCHANGED captured
      \/ /\ EndOp /\ 1 \in DOMAIN stateQueue /\ stateQueue[1].kind = "setPend"
         /\ captured' = captured \cup {stateQueue[1].sub}
      \/ Restart
  BY CapturedStep
<1>2. ASSUME NEW i \in DOMAIN msgs', msgs'[i].kind = "creds", msgs'[i].pc \in Unstored
      PROVE  msgs'[i].sub \notin captured'
  <2>1. msgs'[i].sub \notin captured
    BY <1>2, UnstoredFrom DEF Asking
  <2>2. CASE UNCHANGED captured
    BY <2>1, <2>2
  <2>3. ASSUME EndOp, 1 \in DOMAIN stateQueue, stateQueue[1].kind = "setPend"
        PROVE  msgs'[i].sub # stateQueue[1].sub
    <3>1. /\ 1 \in DOMAIN msgs /\ msgs[1].kind = "creds" /\ msgs[1].sub = stateQueue[1].sub /\ msgs[1].pc = "store"
      BY <2>3, StoredByMessage
    <3>2. sub[stateQueue[1].sub] # None
      <4>1. sub[msgs[1].sub] \in Content
        BY <3>1 DEF Consented, NamedParts, MsgNamed, Captured
      <4> QED
        BY <3>1, <4>1, NoneAssumption
    <3>3. CASE \E j \in DOMAIN msgs : msgs[j].kind = "creds" /\ msgs[j].pc \in Unstored /\ msgs[j].sub = msgs'[i].sub
      BY <3>1, <3>3 DEF Asking, Unstored
    <3> QED
      BY <1>2, <3>2, <3>3, UnstoredFrom
  <2>4. CASE Restart
    <3>1. msgs' = <<>>
      BY <1>0, <2>4, RestartKeeps
    <3> QED
      BY <1>2, <3>1
  <2> QED
    BY <1>1, <2>1, <2>2, <2>3, <2>4
<1>3. ASSUME NEW i \in DOMAIN stateQueue', stateQueue'[i].kind = "setPend"
      PROVE  stateQueue'[i].by = "msg" /\ stateQueue'[i].sub \notin captured'
  <2>1. CASE UNCHANGED captured
    <3>1. CASE \E j \in DOMAIN stateQueue : stateQueue'[i] = stateQueue[j]
      BY <1>3, <2>1, <3>1 DEF Asking
    <3>2. CASE Queued(stateQueue'[i])
      <4>1. /\ 1 \in DOMAIN msgs /\ msgs[1].kind = "creds" /\ msgs[1].pc \in Unstored
            /\ stateQueue'[i].by = "msg" /\ stateQueue'[i].sub = msgs[1].sub
        BY <1>3, <3>2 DEF Queued, Unstored, Typed, Shaped, MsgShape
      <4> QED
        BY <2>1, <4>1 DEF Asking
    <3> QED
      BY <1>0, <1>3, <3>1, <3>2 DEF From, QueueFrom
  <2>2. ASSUME EndOp, 1 \in DOMAIN stateQueue, stateQueue[1].kind = "setPend"
        PROVE  FALSE
    <3>1. stateQueue' = Tail(stateQueue) /\ stateQueue \in Seq(Op)
      BY <2>2 DEF EndOp, Typed, Shaped, QueueShape
    <3>2. i + 1 \in DOMAIN stateQueue /\ stateQueue'[i] = stateQueue[i + 1] /\ i + 1 # 1
      BY <1>3, <2>2, <3>1
    <3>3. stateQueue[1].by = "msg" /\ stateQueue[i + 1].by = "msg"
      BY <1>3, <2>2, <3>2 DEF Asking
    <3> QED
      BY <2>2, <3>2, <3>3 DEF Typed, Asked
  <2>3. CASE Restart
    <3>1. \/ stateQueue' = <<>>
          \/ stateQueue' = <<[by |-> "late", kind |-> "clearAll", gen |-> generation', sub |-> None, name |-> None]>>
      BY <1>0, <2>3, RestartKeeps
    <3>2. stateQueue'[i].kind = "clearAll"
      BY <1>3, <3>1
    <3> QED
      BY <1>3, <3>2
  <2> QED
    BY <1>1, <2>1, <2>2, <2>3
<1>4. ASSUME NEW s \in captured'
      PROVE  sub'[s] # None
  <2>1. CASE s \in captured
    BY <1>0, <2>1 DEF Asking, Grows
  <2>2. ASSUME s \in Sub, sub[s] \in Content
        PROVE  sub'[s] # None
    BY <1>0, <2>2, NoneAssumption DEF Grows
  <2>3. ASSUME 1 \in DOMAIN stateQueue, stateQueue[1].kind = "setPend", s = stateQueue[1].sub
        PROVE  s \in Sub /\ sub[s] \in Content
    BY <2>3 DEF Consented, NamedParts, OpNamed, Fits, Captured
  <2>4. CASE Restart
    <3>1. /\ pend' = pend \/ (writing # None /\ pend' = writing.pend)
          /\ captured' = captured \cup (IF writing = None \/ pend' = None THEN {} ELSE {pend'.sub})
      BY <1>0, <2>4, RestartKeeps
    <3>2. RecordNamed(consent, sub, pend')
      BY <3>1 DEF Consented, StoredNamed
    <3>3. CASE pend' # None /\ s = pend'.sub
      BY <2>2, <3>2, <3>3 DEF RecordNamed, Fits, Captured
    <3> QED
      BY <2>1, <3>1, <3>3
  <2> QED
    BY <1>1, <2>1, <2>2, <2>3, <2>4
<1> QED
  BY <1>2, <1>3, <1>4, AskingMessages DEF Asking

\* What an operation writes is about the submission it stores, or about the one
\* that is pending.
LEMMA UpdateAbout ==
    ASSUME SessionShape, RecordShape, NEW op \in Op, OpOK(op), NEW r, r = Update(op)
    PROVE  /\ op.kind = "setPend" => r.pend.sub = op.sub
           /\ op.kind # "setPend" /\ r.pend # None => pend # None /\ r.pend.sub = pend.sub
           /\ op.kind = "getPend" /\ r.got # None => pend # None /\ r.got.sub = pend.sub
<1>0. /\ pend \in Maybe(PendRecord) /\ OwnPend \in {pend, None} /\ op.kind \in Kinds
      /\ \A s : Cleared(s) \in {OwnPend, None}
  BY DEF RecordShape, OwnPend, Own, Cleared, Op
<1>1. OwnPend # None => OwnPend \in PendRecord /\ [OwnPend EXCEPT !.ready = TRUE].sub = OwnPend.sub
  BY <1>0 DEF Maybe, PendRecord
<1>2. op.kind = "setPend" => r.pend.sub = op.sub
  <2>1. op.kind = "setPend" => r.pend = [sub |-> op.sub, ready |-> FALSE, name |-> op.name, gen |-> generation]
    BY UpdateEffect
  <2> QED
    BY <2>1
<1>3. CASE op.kind = "getPend"
  <2>1. r.pend = OwnPend /\ r.got = OwnPend
    BY <1>3, UpdateEffect
  <2> QED
    BY <1>0, <1>3, <2>1
<1>4. CASE op.kind = "mark"
  <2>1. r.pend = OwnPend \/ (OwnPend # None /\ r.pend = [OwnPend EXCEPT !.ready = TRUE])
    BY <1>4, UpdateEffect
  <2> QED
    BY <1>0, <1>1, <1>4, <2>1
<1>5. CASE op.kind = "clearPend"
  <2>1. r.pend = Cleared(op.sub)
    BY <1>5, UpdateEffect
  <2> QED
    BY <1>0, <1>5, <2>1
<1>6. CASE op.kind \in {"getUser", "setUser", "clearUser", "clearAll"}
  <2>1. r.pend \in {pend, None}
    BY <1>6, UpdateEffect
  <2> QED
    BY <1>6, <2>1
<1> QED
  BY <1>0, <1>2, <1>3, <1>4, <1>5, <1>6 DEF Kinds

LEMMA NewestNext ==
    ASSUME Typed, Typed', Consented, Asking, Newest, Next
    PROVE  Newest'
<1>0. /\ Shaped /\ Written /\ (writing # None => stateQueue # <<>>)
      /\ page'.latest \in captured => page'.latest = page.latest
  BY NewestStays DEF Typed, Written
<1>1. CASE /\ UNCHANGED <<pend, writing, captured>>
           /\ stateQueue # <<>> => Head(stateQueue') = Head(stateQueue)
  BY <1>0, <1>1 DEF Newest
<1>2. CASE UNCHANGED captured /\ pend' \in {pend, None} /\ writing' = None
  BY <1>0, <1>2 DEF Newest, About
<1>3. CASE BeginOp
  <2>1. /\ UNCHANGED <<pend, page, captured>> /\ stateQueue # <<>>
        /\ \/ writing' = Update(Head(stateQueue)) /\ UNCHANGED stateQueue
           \/ writing' = None
    BY <1>3 DEF BeginOp, history
  <2>2. ASSUME NEW op, op = Head(stateQueue), NEW r, r = Update(op), writing' = r, UNCHANGED stateQueue
        PROVE  Newest'
    <3>1. 1 \in DOMAIN stateQueue /\ op = stateQueue[1] /\ op \in Op /\ OpOK(op)
      BY <2>1, <2>2 DEF Typed, Shaped, QueueShape
    <3>2. /\ op.kind = "setPend" => r.pend.sub = op.sub
          /\ op.kind # "setPend" /\ r.pend # None => pend # None /\ r.pend.sub = pend.sub
          /\ op.kind = "getPend" /\ r.got # None => pend # None /\ r.got.sub = pend.sub
      BY <2>2, <3>1, UpdateAbout DEF Typed, Shaped
    <3>3. page.latest \in captured => op.kind # "setPend"
      BY <3>1, NothingToStore
    <3>4. Head(stateQueue') = op
      BY <2>2
    <3> QED
      BY <2>1, <2>2, <3>2, <3>3, <3>4 DEF Newest, About
  <2> QED
    BY <1>2, <2>1, <2>2
<1>4. CASE EndOp
  <2> DEFINE op == Head(stateQueue)
  <2>1. /\ writing # None /\ pend' = writing.pend /\ writing' = None /\ UNCHANGED page
        /\ captured' = captured \cup (IF op.kind = "setPend" THEN {op.sub} ELSE {})
    BY <1>4 DEF EndOp
  <2> HIDE DEF op
  <2>2. CASE op.kind = "setPend"
    <3>1. About(writing.pend, op.sub)
      BY <2>1, <2>2 DEF Newest, op
    <3> QED
      BY <2>1, <2>2, <3>1 DEF Newest, About
  <2>3. CASE op.kind # "setPend"
    BY <2>1, <2>3 DEF Newest, About, op
  <2> QED
    BY <2>2, <2>3
<1>5. CASE Restart
  <2>1. /\ writing' = None /\ page'.latest = page.latest
        /\ pend' = pend \/ (writing # None /\ pend' = writing.pend)
        /\ captured' = captured \cup (IF writing = None \/ pend' = None THEN {} ELSE {pend'.sub})
    BY <1>0, <1>5, RestartKeeps, RestartPage
  <2>2. CASE writing = None
    BY <2>1, <2>2 DEF Newest
  <2>3. CASE writing # None
    BY <2>1, <2>3 DEF Newest, About
  <2> QED
    BY <2>2, <2>3
<1>6. CASE Quiet \/ Lock \/ LateClear
  <2>1. UNCHANGED <<pend, writing, captured>> /\ (stateQueue # <<>> => Head(stateQueue') = Head(stateQueue))
    <3>1. UNCHANGED recordVars /\ (stateQueue # <<>> => Head(stateQueue') = Head(stateQueue))
      BY <1>0, <1>6, LockFrom DEF Quiet
    <3>2. UNCHANGED captured
      BY <1>6 DEF Quiet, Lock, LateClear, history
    <3> QED
      BY <3>1, <3>2 DEF recordVars
  <2> QED
    BY <1>1, <2>1
<1>7. CASE Others
  <2>1. /\ UNCHANGED <<writing, stateQueue, captured>>
        /\ UNCHANGED pend \/ (writing = None /\ pend' \in {pend, None})
    BY <1>7 DEF Others, Login, Expire, OutsideChange, recordVars, history
  <2> QED
    BY <1>1, <1>2, <2>1
<1> QED
  BY <1>0, <1>3, <1>4, <1>5, <1>6, <1>7, NextSteps, WorkerFrom, PageActFrom, StartsFrom, ClickFrom, HandlingFrom

\* A submission that is captured in a step is that of the message at the head.
LEMMA NewlyCaptured ==
    ASSUME Typed, Asking, Newest, Next, NEW s \in captured', s \notin captured
    PROVE  /\ EndOp \/ Restart
           /\ 1 \in DOMAIN stateQueue /\ Head(stateQueue) = stateQueue[1]
           /\ stateQueue[1].by = "msg" /\ stateQueue[1].sub = s
           /\ 1 \in DOMAIN msgs /\ msgs[1].kind = "creds" /\ msgs[1].sub = s
<1>1. CASE /\ EndOp /\ 1 \in DOMAIN stateQueue /\ Head(stateQueue) = stateQueue[1]
           /\ stateQueue[1].kind = "setPend" /\ captured' = captured \cup {stateQueue[1].sub}
  BY <1>1, StoredByMessage
<1>2. CASE Restart
  <2>1. /\ pend' = pend \/ (writing # None /\ pend' = writing.pend)
        /\ captured' = captured \cup (IF writing = None \/ pend' = None THEN {} ELSE {pend'.sub})
    BY <1>2, RestartKeeps DEF Typed
  <2>2. writing # None /\ pend' # None /\ s = pend'.sub
    BY <2>1
  <2>3. pend' = writing.pend
    BY <2>1, <2>2 DEF Newest
  <2>4. 1 \in DOMAIN stateQueue /\ Head(stateQueue) = stateQueue[1]
    BY <2>2 DEF Typed, Written, Shaped, QueueShape
  <2>5. stateQueue[1].kind = "setPend" /\ stateQueue[1].sub = s
    BY <2>2, <2>3, <2>4 DEF Newest, About
  <2> QED
    BY <1>2, <2>4, <2>5, StoredByMessage
<1> QED
  BY <1>1, <1>2, CapturedStep

\* Until the newest submission is stored, the page waits for it.
LEMMA WaitsForNewest ==
    ASSUME Typed, Typed', Consented, Latest, Next, NEW i \in DOMAIN msgs',
           msgs'[i].kind = "creds", msgs'[i].sub = page'.latest,
           Onward => Click \/ BannerStays(page.banner, page'.banner) \/ BannerNew
    PROVE  /\ page'.banner = None
           /\ page'.listening # None =>
                 task'[page'.listening].pc = "queued" /\ task'[page'.listening].behind >= i
<1>0. /\ Shaped /\ DOMAIN msgs = 1 .. Len(msgs) /\ DOMAIN msgs' = 1 .. Len(msgs') /\ Len(msgs) \in Nat /\ Len(msgs') \in Nat
      /\ page'.latest \in Sub /\ None \notin Task /\ page.listening \in Maybe(Task)
      /\ \A t \in Task : task[t].behind \in Nat /\ task'[t].behind \in Nat
      /\ page.listening # None => task[page.listening].kind = "check"
  <2>1. msgs'[i] \in MsgRecord /\ MsgOK(msgs'[i])
    BY DEF Typed, Shaped, MsgShape
  <2>2. page'.latest \in Sub
    BY <2>1 DEF MsgOK
  <2> QED
    BY <2>2, ConstantAssumption DEF Typed, Shaped, MsgShape, TaskShape, TaskRecord, PageShape, PageRecord
<1>1. CASE Onward
  <2>1. PICK d \in {0, 1} : Moved(d) /\ GoesOnWaiting(d)
    BY <1>1 DEF Onward
  <2>2. page'.latest = page.latest
    BY <1>0, <1>1, NewestStays DEF Latest
  <2>3. i + d \in DOMAIN msgs /\ msgs[i + d].kind = "creds" /\ msgs[i + d].sub = page.latest
    <3>1. i + d \in 1 .. Len(msgs) /\ (i + d) - d = i /\ i + d > d
      BY <1>0, <2>1 DEF Moved
    <3> QED
      BY <1>0, <2>1, <2>2, <3>1 DEF Moved
  <2>4. /\ page.banner = None
        /\ page.listening # None =>
              task[page.listening].pc = "queued" /\ task[page.listening].behind >= i + d
    BY <2>3 DEF Latest, Shows
  <2>5. page'.banner = None
    <3>1. ~Click
      BY <2>4 DEF Click, SaveClick
    <3>2. ~BannerNew
      BY <1>0, <2>4 DEF BannerNew, At
    <3> QED
      BY <1>1, <2>4, <3>1, <3>2 DEF BannerStays
  <2>6. CASE page'.listening = page.listening /\ page.listening # None
    <3>1. page.listening \in Task
      BY <1>0, <2>6 DEF Maybe
    <3>2. task[page.listening].behind > 0 /\ task[page.listening].kind = "check"
      BY <1>0, <2>4, <2>6, <3>1
    <3>3. /\ task'[page.listening].pc = "queued"
          /\ task'[page.listening].behind >= task[page.listening].behind - d
      BY <2>1, <2>4, <2>6, <3>1, <3>2 DEF GoesOnWaiting
    <3> QED
      BY <1>0, <2>4, <2>5, <2>6, <3>1, <3>3
  <2>7. CASE \E t \in Task : page'.listening = t /\ task'[t].pc = "queued" /\ task'[t].behind = Len(msgs')
    BY <1>0, <2>5, <2>7
  <2> QED
    BY <1>1, <2>5, <2>6, <2>7 DEF Onward, Listens
<1>2. ASSUME NEW s \in Sub, NEW f \in Form, Submit(s, f)
      PROVE  page'.banner = None /\ page'.listening = None
  BY <1>0, <1>2, SubmitKeeps
<1>3. CASE Restart
  <2>1. msgs' = <<>>
    BY <1>0, <1>3, RestartKeeps
  <2> QED
    BY <2>1
<1> QED
  BY <1>1, <1>2, <1>3, StepOnward

\* What the check finds, for which the page listens.
LEMMA FindsNewest ==
    ASSUME Typed, Typed', Consented, Latest, Next, page'.listening # None, page'.latest \in captured',
           task'[page'.listening].pc \in {"pend", "recheck"}, ~task'[page'.listening].waits
    PROVE  About(task'[page'.listening].got, page'.latest)
<1> DEFINE t == page'.listening
<1>0. /\ Shaped /\ From /\ t \in Task /\ captured' \subseteq Sub /\ page'.latest \in Sub /\ None \notin Sub
      /\ "msg" \notin Task
  BY StepFrom, ConstantAssumption DEF Typed, Shaped, RecordShape, PageShape, PageRecord, Maybe
<1>1. Onward
  <2>1. ~Restart
    BY <1>0, RestartPage
  <2>2. \A s \in Sub, f \in Form : ~Submit(s, f)
    BY <1>0, SubmitKeeps
  <2> QED
    BY <2>1, <2>2, StepOnward
<1>2. page'.latest = page.latest
  BY <1>0, <1>1, NewestStays DEF Latest
<1>3. page.listening = t
  BY <1>0, <1>1 DEF Onward, Listens
<1> HIDE DEF t
<1>4. CASE page.latest \in captured
  <2>1. task[t].pc \in {"pend", "recheck"} /\ ~task[t].waits => About(task[t].got, page.latest)
    BY <1>0, <1>3, <1>4, ConstantAssumption DEF Latest, Shows
  <2>2. CASE SameTask(task[t], task'[t])
    BY <1>2, <2>1, <2>2 DEF SameTask, t
  <2>3. CASE task'[t] = IdleTask
    BY <2>3 DEF IdleTask, t
  <2>4. CASE NewTask(task'[t])
    BY <2>4 DEF NewTask, t
  <2>5. CASE Moves(task[t], task'[t])
    BY <2>5 DEF Moves, Waiting, t
  <2>6. ASSUME task[t].waits, NEW got \in Got, TaskGot(task[t], task'[t], got), Returned(t, got)
        PROVE  About(task'[t].got, page.latest)
    <3>1. CASE got = None
      BY <2>6, <3>1 DEF TaskGot, About
    <3>2. CASE got # None
      <4>1. /\ writing # None /\ got = writing.got /\ stateQueue # <<>> /\ Head(stateQueue).by = t
        BY <2>6, <3>2 DEF Returned
      <4>2. 1 \in DOMAIN stateQueue /\ Head(stateQueue) = stateQueue[1]
        BY <4>1 DEF Typed, Shaped, QueueShape
      <4>3. Head(stateQueue).kind = Awaits(task[t].pc)
        BY <1>0, <4>1, <4>2 DEF Typed, Asked
      <4>4. task[t].pc \in {"pend", "recheck"}
        BY <2>6 DEF TaskGot, t
      <4>5. Head(stateQueue).kind = "getPend"
        BY <4>3, <4>4 DEF Awaits
      <4> QED
        BY <1>4, <2>6, <4>1, <4>5 DEF TaskGot, Latest, Newest
    <3> QED
      BY <3>1, <3>2
  <2> QED
    BY <1>0, <1>2, <2>2, <2>3, <2>4, <2>5, <2>6 DEF From, TaskFrom, t
<1>5. CASE page.latest \notin captured
  <2>1. /\ EndOp \/ Restart
        /\ 1 \in DOMAIN stateQueue /\ Head(stateQueue) = stateQueue[1] /\ stateQueue[1].by = "msg"
        /\ 1 \in DOMAIN msgs /\ msgs[1].kind = "creds" /\ msgs[1].sub = page.latest
    BY <1>2, <1>5, NewlyCaptured DEF Latest
  <2>2. task[t].pc = "queued"
    BY <1>0, <1>3, <2>1, ConstantAssumption DEF Latest, Shows, t
  <2>3. ~Restart
    BY <1>0, RestartPage, ConstantAssumption DEF t
  <2>4. task'[t] = task[t]
    <3>1. stateQueue # <<>> /\ \E got : Return(Head(stateQueue).by, got)
      BY <2>1, <2>3 DEF EndOp
    <3> QED
      BY <1>0, <2>1, <3>1 DEF Return
  <2> QED
    BY <2>2, <2>4 DEF t
<1> QED
  BY <1>4, <1>5

LEMMA BannerStep ==
    ASSUME Typed, Consented, Next
    PROVE  Click \/ BannerStays(page.banner, page'.banner) \/ BannerNew
  BY NextSteps, StepFrom, WorkerBanner, OtherBanner

LEMMA BannerIsNewestNext ==
    ASSUME Typed, Typed', Consented, Latest, Next
    PROVE  BannerIsNewest'
<1> SUFFICES ASSUME page'.banner # None, page'.latest \in captured'
    PROVE  page'.banner.sub = page'.latest
  BY DEF BannerIsNewest
<1>0. /\ Shaped /\ captured' \subseteq Sub /\ page'.latest \in Sub /\ None \notin Sub /\ None \notin Task
      /\ page.listening \in Maybe(Task)
  BY ConstantAssumption DEF Typed, Shaped, RecordShape, PageShape, PageRecord
<1>1. Onward \/ Restart
  <2>1. \A s \in Sub, f \in Form : ~Submit(s, f)
    BY <1>0, SubmitKeeps
  <2> QED
    BY <2>1, StepOnward
<1>2. page'.latest = page.latest
  BY <1>0, <1>1, NewestStays, RestartPage DEF Latest
<1>3. page.latest \in captured \/ page.banner = None
  BY <1>2, NewlyCaptured DEF Latest, Shows
<1>4. CASE Click
  <2>1. PICK t \in Task, e \in Maybe(Name), n \in Maybe(Name) : SaveClick(t, e, n)
    BY <1>4 DEF Click
  <2>2. page.banner # None /\ page'.banner.sub = page.banner.sub
    BY <1>0, <2>1, SaveClickKeeps DEF SaveClick
  <2> QED
    BY <1>2, <1>3, <2>2 DEF Latest, Shows, BannerIsNewest
<1>5. CASE BannerStays(page.banner, page'.banner)
  BY <1>2, <1>3, <1>5 DEF BannerStays, Latest, Shows, BannerIsNewest
<1>6. CASE BannerNew
  <2>1. CASE page.banner # None /\ page'.banner.sub = page.banner.sub
    BY <1>2, <1>3, <2>1 DEF Latest, Shows, BannerIsNewest
  <2>2. ASSUME NEW t \in Task, page.listening = t, At(t, "recheck"), task[t].got # None,
               page'.banner.sub = task[t].got.sub
        PROVE  page'.banner.sub = page'.latest
    <3>1. page.latest \in captured
      <4>1. SUFFICES ASSUME page.latest \notin captured
            PROVE  FALSE
        OBVIOUS
      <4>2. 1 \in DOMAIN msgs /\ msgs[1].kind = "creds" /\ msgs[1].sub = page.latest
        BY <1>2, <4>1, NewlyCaptured DEF Latest
      <4>3. task[t].pc = "queued"
        BY <1>0, <2>2, <4>2 DEF Latest, Shows
      <4> QED
        BY <2>2, <4>3 DEF At
    <3>2. About(task[t].got, page.latest)
      BY <1>0, <2>2, <3>1 DEF Latest, Shows, At
    <3> QED
      BY <1>2, <2>2, <3>2 DEF About
  <2> QED
    BY <1>6, <2>1, <2>2 DEF BannerNew
<1> QED
  BY <1>4, <1>5, <1>6, BannerStep

LEMMA LatestInit == Init => Latest
<1> SUFFICES ASSUME Init
    PROVE  Latest
  OBVIOUS
<1>1. /\ msgs = <<>> /\ stateQueue = <<>> /\ captured = {} /\ pend = None /\ writing = None
      /\ page.banner = None /\ page.listening = None
  BY DocumentTyped DEF Init
<1> QED
  BY <1>1 DEF Latest, Asking, Newest, Shows, BannerIsNewest

LEMMA LatestNext == Typed /\ Consented /\ Latest /\ [Next]_vars => Latest'
<1> SUFFICES ASSUME Typed, Consented, Latest, [Next]_vars
    PROVE  Latest'
  OBVIOUS
<1>1. CASE Next
  <2>1. Typed'
    BY <1>1, TypedNext
  <2>2. Asking' /\ Newest'
    BY <1>1, <2>1, AskingNext, NewestNext DEF Latest
  <2>3. Shows'
    BY <1>1, <2>1, BannerStep, WaitsForNewest, FindsNewest, BannerIsNewestNext DEF Shows
  <2> QED
    BY <2>2, <2>3 DEF Latest
<1>2. CASE UNCHANGED vars
  <2>1. UNCHANGED <<pend, writing, stateQueue, msgs, task, page, sub, captured>>
    BY <1>2 DEF vars, recordVars, history
  <2> QED
    BY <2>1 DEF Latest, Asking, Newest, Shows, BannerIsNewest
<1> QED
  BY <1>1, <1>2

\* The banner a page shows is about its newest captured submission: the answer
\* of a check that was overtaken by a new submission is never shown
\* (detector.js, checkPendingCredentials and handleFormSubmit).
THEOREM BannerNewest == Spec => []BannerIsNewest
<1>1. Latest => BannerIsNewest
  BY DEF Latest, Shows
<1> QED
  BY <1>1, TypedAlways, ConsentedAlways, LatestInit, LatestNext, PTL DEF Spec
=============================================================================

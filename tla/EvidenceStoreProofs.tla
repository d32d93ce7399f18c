------------------------ MODULE EvidenceStoreProofs -------------------------
(***************************************************************************)
(* The lock protocol of the evidence store keeps the promise of            *)
(* EvidenceObject, for any number of processes, hosts, crashes and stolen  *)
(* locks, until a process that is about to take the object back is         *)
(* overtaken: until it loses its lock after it checked for the last time   *)
(* that it has it.  The argument: a lock file is one process's own while   *)
(* that process knows of it, so that a lock which was lost never comes     *)
(* back.  Whoever takes an object back, or tells of one, still has its     *)
(* lock at that moment; so nobody was or will be told of an object that is *)
(* taken back.  Of the claims the argument needs nothing: every unlink of  *)
(* a lock or a claim may come late and meet another process's file.        *)
(***************************************************************************)
EXTENDS EvidenceStore, TLAPS

-----------------------------------------------------------------------------
(* The inductive invariant.                                                *)

Claiming == {"replay", "link", "linking", "published", "renew", "rollback", "unlinkTarget"}

Holding == {"created", "sign", "drop", "signed", "locked", "claim", "linkClaim", "claimed",
            "undoClaim"} \cup Claiming

(* A process at work with the object has its own lock file, and has        *)
(* confirmed its publication claim before it acts on it.                   *)
Stands(q) ==
    /\ q.at \in Holding => q.inode # None
    /\ q.at \in Claiming => q.held

(* q has linked the object and may still take it back.                     *)
Publishing(q) ==
    \/ q.at \in {"published", "rollback", "unlinkTarget"}
    \/ q.at = "renew" /\ q.outcome = "created"

(* q has found the object and is about to count on it.                     *)
Finding(q) == q.at = "renew" /\ q.outcome = "existing"

Ending == {"takeDown", "confirm", "unlinkPublish", "recheck", "unlinkLock", "unlinkReclaim"}

(* q will tell its caller so, if it can release its lock.                  *)
Will(q, outcome) ==
    /\ q.outcome = outcome
    /\ \/ q.at = "release"
       \/ q.for = "release" /\ q.at \in Ending

Counted(p) ==
    /\ life[p].pid <= life[p].instance
    /\ life[p].instance + (IF life[p].up THEN 0 ELSE 1) <= crashes

(* No two processes have the same lock file for their own.                 *)
OwnFiles ==
    \A p, q \in Processes : p # q /\ proc[p].inode # None => proc[p].inode # proc[q].inode

(* Who creates the object is alone with it until its caller was told.      *)
OneCreator ==
    \A p \in Processes :
       Publishing(proc[p]) \/ Will(proc[p], "created") => target = p /\ ~created

(* Nobody is told of an object that is not there.                          *)
ToldOfPresent ==
    /\ created => told
    /\ told => Present
    /\ \A p \in Processes : Will(proc[p], "existing") => Present

(* While its creator may take the object back, nobody else counts on it.   *)
BackedOutAlone ==
    \A p \in Processes :
       Publishing(proc[p]) /\ lock = proc[p].inode
          => /\ ~told
             /\ \A q \in Processes : ~Will(proc[q], "existing")

(* What a process has found is there as long as it has its lock.           *)
FoundPresent ==
    \A p \in Processes : Finding(proc[p]) /\ lock = proc[p].inode => Present

(* Nobody was overtaken: who is past the last check of its rollback still  *)
(* has its lock.                                                           *)
LockedToUnlink ==
    \A p \in Processes : At(p, "unlinkTarget") => lock = proc[p].inode

Sound ==
    /\ TypeOK
    /\ \A p \in Processes : Counted(p)
    /\ \A p \in Processes : Stands(proc[p])
    /\ OwnFiles /\ OneCreator /\ ToldOfPresent /\ BackedOutAlone
    /\ FoundPresent /\ LockedToUnlink

IInv == overtaken \/ Sound

(* A step that overtakes nobody is about to be taken.                      *)
Before == Sound /\ overtaken' = FALSE

-----------------------------------------------------------------------------
(* The shapes of a step.                                                   *)

(* What every step but the creation of a lock does to the directory: a     *)
(* lock file goes, if its entry changes, but not that of a process past    *)
(* the last check of its rollback.                                         *)
Tidy ==
    /\ lock' \in {lock, None}
    /\ \A r \in Processes : At(r, "unlinkTarget") => lock' = lock
    /\ publish' \in Maybe(Inodes) /\ reclaim' \in Maybe(Inodes)
    /\ file' \in [Inodes -> File]

(* What every step of one process p, which becomes q, has in common: p     *)
(* keeps its own file or drops it.                                         *)
Turns(p, q) ==
    /\ q \in Proc
    /\ Becomes(p, q)
    /\ Tidy
    /\ q.inode \in {proc[p].inode, None}
    /\ Stands(q)

(* What p must bring along to count on the object, or to take it back.     *)
Acting(q) == q.at \in {"published", "renew", "rollback", "unlinkTarget"}

Entitled(p, q) ==
    /\ Publishing(q) => Publishing(proc[p]) /\ q.inode = proc[p].inode
    /\ q.at = "unlinkTarget" => lock' = q.inode
    /\ Finding(q) /\ lock' = q.inode => Present

(* The processes' lives and the bounds are as they may be.                 *)
Lives ==
    /\ life' \in [Processes -> Life] /\ puts' \in 0..MaxPuts /\ crashes' \in 0..MaxCrashes
    /\ (\A r \in Processes : Counted(r))'

LEMMA SameLives == Before /\ UNCHANGED <<life, puts, crashes>> => Lives
BY DEF Before, Sound, TypeOK, Lives, Counted

LEMMA SameFiles == Before /\ Unchanged => Tidy
BY DEF Before, Sound, TypeOK, Tidy, Unchanged

LEMMA TypedStep ==
    ASSUME Before, NEW p \in Processes, NEW q, Turns(p, q), Lives,
           target' \in Maybe(Processes), told' \in BOOLEAN, created' \in BOOLEAN
    PROVE  /\ TypeOK'
           /\ (\A r \in Processes : Counted(r))'
           /\ (\A r \in Processes : Stands(proc[r]))'
           /\ OwnFiles'
<1>1. proc \in [Processes -> Proc] /\ lock \in Maybe(Inodes)
  BY DEF Before, Sound, TypeOK
<1>2. /\ proc'[p] = q
      /\ \A r \in Processes \ {p} : proc'[r] = proc[r]
      /\ proc' \in [Processes -> Proc]
  BY <1>1 DEF Turns, Becomes
<1>3. TypeOK'
  <2>1. lock' \in Maybe(Inodes)
    BY <1>1 DEF Turns, Tidy, Maybe
  <2>2. \A r \in Processes : proc'[r].at \in {"linking", "published", "rollback", "unlinkTarget"} => proc'[r].held
    BY <1>2 DEF Turns, Before, Sound, TypeOK, Stands, Claiming
  <2> QED
    BY <1>2, <2>1, <2>2 DEF Turns, Tidy, Lives, Before, Sound, TypeOK
<1>4. (\A r \in Processes : Counted(r))'
  BY DEF Lives
<1>5. (\A r \in Processes : Stands(proc[r]))'
  BY <1>2 DEF Turns, Before, Sound
<1>6. OwnFiles'
  BY <1>2 DEF Turns, Before, Sound, OwnFiles
<1> QED
  BY <1>3, <1>4, <1>5, <1>6

(* A process that is where it was, or lost its lock, may do what it did.   *)
LEMMA StillEntitled ==
    ASSUME Before, Tidy, NEW r \in Processes
    PROVE  /\ At(r, "unlinkTarget") => lock' = proc[r].inode
           /\ Finding(proc[r]) /\ lock' = proc[r].inode => Present
           /\ Publishing(proc[r]) /\ lock' = proc[r].inode => lock = proc[r].inode
<1>1. At(r, "unlinkTarget") => lock' = proc[r].inode
  BY DEF Tidy, Before, Sound, LockedToUnlink
<1>2. Finding(proc[r]) \/ Publishing(proc[r]) => proc[r].inode # None
  BY DEF Finding, Publishing, Holding, Before, Sound, Stands, Claiming
<1>3. lock' = proc[r].inode /\ proc[r].inode # None => lock = proc[r].inode
  BY DEF Tidy
<1> QED
  BY <1>1, <1>2, <1>3 DEF Before, Sound, FoundPresent

(* A step of a process that neither links the object nor tells of it.      *)
LEMMA QuietStep ==
    ASSUME Before, NEW p \in Processes, NEW q, Turns(p, q), Lives,
           UNCHANGED <<target, told, created>>,
           Acting(q) => Entitled(p, q),
           Will(q, "created") => Will(proc[p], "created") \/ Publishing(proc[p]),
           Will(q, "existing") => Will(proc[p], "existing")
    PROVE  Sound'
<1>1. proc \in [Processes -> Proc]
  BY DEF Before, Sound, TypeOK
<1>2. proc'[p] = q /\ \A r \in Processes \ {p} : proc'[r] = proc[r]
  BY <1>1 DEF Turns, Becomes
<1>3. /\ TypeOK'
      /\ (\A r \in Processes : Counted(r))'
      /\ (\A r \in Processes : Stands(proc[r]))'
      /\ OwnFiles'
  BY TypedStep DEF Before, Sound, TypeOK
<1>4. Tidy
  BY DEF Turns
<1>5. /\ Publishing(q) => Publishing(proc[p]) /\ q.inode = proc[p].inode
      /\ q.at = "unlinkTarget" => lock' = q.inode
      /\ Finding(q) /\ lock' = q.inode => Present
  BY DEF Acting, Entitled, Publishing, Finding
<1>6. \A r \in Processes : /\ Publishing(proc'[r]) => Publishing(proc[r]) /\ proc'[r].inode = proc[r].inode
                           /\ Will(proc'[r], "created") => Will(proc[r], "created") \/ Publishing(proc[r])
                           /\ Will(proc'[r], "existing") => Will(proc[r], "existing")
  BY <1>2, <1>5
<1>7. OneCreator'
  BY <1>6 DEF Before, Sound, OneCreator
<1>8. ToldOfPresent'
  BY <1>6 DEF Before, Sound, ToldOfPresent, Present
<1>9. BackedOutAlone'
  <2> SUFFICES ASSUME NEW r \in Processes, Publishing(proc'[r]), lock' = proc'[r].inode
               PROVE  ~told' /\ \A s \in Processes : ~Will(proc'[s], "existing")
    BY DEF BackedOutAlone
  <2>1. Publishing(proc[r]) /\ lock = proc[r].inode
    BY <1>4, <1>6, StillEntitled
  <2> QED
    BY <1>6, <2>1 DEF Before, Sound, BackedOutAlone
<1>10. \A r \in Processes : /\ Finding(proc'[r]) /\ lock' = proc'[r].inode => Present
                            /\ proc'[r].at = "unlinkTarget" => lock' = proc'[r].inode
  BY <1>2, <1>4, <1>5, StillEntitled DEF At
<1>11. FoundPresent' /\ LockedToUnlink'
  BY <1>10 DEF FoundPresent, Present, LockedToUnlink, At
<1> QED
  BY <1>3, <1>7, <1>8, <1>9, <1>11 DEF Sound

(* A caller is answered: it is told of the object only when it is there,   *)
(* and that it created it only when it did.                                *)
LEMMA EndStep ==
    ASSUME Before, NEW p \in Processes, NEW outcome \in Outcomes \ {"again"},
           outcome # "error" => Will(proc[p], outcome),
           Ended(p, outcome),
           Tidy
    PROVE  /\ Sound'
           /\ outcome = "error" => UNCHANGED <<target, told, created>>
           /\ outcome = "existing" => Present /\ told' /\ UNCHANGED <<target, created>>
           /\ outcome = "created" => Present /\ ~created /\ told' /\ created' /\ UNCHANGED target
<1>1. /\ proc \in [Processes -> Proc] /\ target \in Maybe(Processes)
      /\ told \in BOOLEAN /\ created \in BOOLEAN
  BY DEF Before, Sound, TypeOK
<1>2. Idle \in Proc
  BY DEF Idle, Proc, Steps, Stages, Outcomes, NothingSeen, NoClaims, Maybe
<1>3. Turns(p, Idle)
  BY <1>2 DEF Ended, Turns, Idle, Holding, Stands, Claiming
<1>4. /\ TypeOK'
      /\ (\A r \in Processes : Counted(r))'
      /\ (\A r \in Processes : Stands(proc[r]))'
      /\ OwnFiles'
  BY <1>1, <1>3, SameLives, TypedStep DEF Ended
<1>5. proc'[p] = Idle /\ \A r \in Processes \ {p} : proc'[r] = proc[r]
  BY <1>1 DEF Ended, Becomes
<1>6. ~Publishing(Idle) /\ ~Finding(Idle) /\ Idle.at # "unlinkTarget" /\ \A o : ~Will(Idle, o)
  BY DEF Publishing, Finding, Will, Idle, Ending
<1>7. target' = target
  BY DEF Ended
<1>8. outcome # "error" => Present
  BY NoneAssumption, <1>1 DEF Before, Sound, OneCreator, ToldOfPresent, Present, Outcomes
<1>9. outcome = "created" => target = p /\ ~created
  BY DEF Before, Sound, OneCreator
<1>10. OneCreator'
  <2> SUFFICES ASSUME NEW r \in Processes, Publishing(proc'[r]) \/ Will(proc'[r], "created")
               PROVE  target = r /\ ~created'
    BY <1>7 DEF OneCreator
  <2>1. r # p /\ proc'[r] = proc[r]
    BY <1>5, <1>6
  <2>2. target = r /\ ~created
    BY <2>1 DEF Before, Sound, OneCreator
  <2> QED
    BY <1>9, <2>1, <2>2 DEF Ended
<1>11. ToldOfPresent'
  <2>1. created' => told'
    BY DEF Ended, Before, Sound, ToldOfPresent
  <2>2. told' => Present
    BY <1>8 DEF Ended, Before, Sound, ToldOfPresent
  <2>3. \A r \in Processes : Will(proc'[r], "existing") => Present
    BY <1>5, <1>6 DEF Before, Sound, ToldOfPresent
  <2> QED
    BY <1>7, <2>1, <2>2, <2>3 DEF ToldOfPresent, Present
<1>12. BackedOutAlone'
  <2> SUFFICES ASSUME NEW r \in Processes, Publishing(proc'[r]), lock' = proc'[r].inode
               PROVE  ~told' /\ \A s \in Processes : ~Will(proc'[s], "existing")
    BY DEF BackedOutAlone
  <2>1. r # p /\ proc'[r] = proc[r]
    BY <1>5, <1>6
  <2>2. lock = proc[r].inode
    BY <2>1, StillEntitled
  <2>3. ~told /\ \A s \in Processes : ~Will(proc[s], "existing")
    BY <2>1, <2>2 DEF Before, Sound, BackedOutAlone
  <2>4. target = r
    BY <2>1 DEF Before, Sound, OneCreator
  <2>5. outcome = "error"
    BY <1>9, <2>1, <2>3, <2>4 DEF Outcomes
  <2> QED
    BY <1>5, <1>6, <2>3, <2>5 DEF Ended
<1>13. \A r \in Processes : /\ Finding(proc'[r]) /\ lock' = proc'[r].inode => Present
                            /\ proc'[r].at = "unlinkTarget" => lock' = proc'[r].inode
  BY <1>5, <1>6, StillEntitled DEF At
<1>14. FoundPresent' /\ LockedToUnlink'
  BY <1>7, <1>13 DEF FoundPresent, Present, LockedToUnlink, At
<1> QED
  BY <1>1, <1>4, <1>7, <1>8, <1>9, <1>10, <1>11, <1>12, <1>14 DEF Sound, Ended

(* The same, when no more than a lease or the life of a process changes.   *)
LEMMA WorldStep ==
    ASSUME Before, UNCHANGED <<entries, proc, target, told, created>>, Lives,
           file' \in [Inodes -> File]
    PROVE  Sound'
<1>1. TypeOK'
  BY DEF Lives, Before, Sound, TypeOK, entries
<1>2. (\A r \in Processes : Stands(proc[r]))' /\ OwnFiles'
  BY DEF Before, Sound, OwnFiles
<1>3. OneCreator' /\ ToldOfPresent' /\ BackedOutAlone' /\ FoundPresent' /\ LockedToUnlink'
  BY DEF Before, Sound, OneCreator, ToldOfPresent, Present, BackedOutAlone, FoundPresent, LockedToUnlink, At, entries
<1> QED
  BY <1>1, <1>2, <1>3 DEF Sound, Lives

(* What is to be proved of each step that overtakes nobody.                *)
Keeps == Sound' /\ [Object!ObjectNext]_(Object!object)

LEMMA SilentKeeps == Sound' /\ UNCHANGED <<target, told, created>> => Keeps
BY DEF Keeps, Object!object, Present

(* A step of a process under its lock that leaves the object alone.        *)
LEMMA QuietKeeps ==
    ASSUME Before, NEW p \in Processes, NEW q, Turns(p, q), Kept,
           Acting(q) => Entitled(p, q),
           Will(q, "created") => Will(proc[p], "created") \/ Publishing(proc[p]),
           Will(q, "existing") => Will(proc[p], "existing")
    PROVE  Keeps
<1>1. Lives /\ UNCHANGED <<target, told, created>>
  BY SameLives DEF Kept
<1> QED
  BY <1>1, QuietStep, SilentKeeps

LEMMA EndKeeps ==
    ASSUME Before, NEW p \in Processes, NEW outcome \in Outcomes \ {"again"},
           outcome # "error" => Will(proc[p], outcome),
           Ended(p, outcome),
           Tidy
    PROVE  Keeps
<1>1. CASE outcome = "error"
  BY <1>1, EndStep, SilentKeeps
<1>2. CASE outcome = "existing"
  BY <1>2, EndStep DEF Keeps, Object!ObjectNext, Object!TellExisting, Present
<1>3. CASE outcome = "created"
  BY <1>3, EndStep DEF Keeps, Object!ObjectNext, Object!TellCreated, Present
<1> QED
  BY <1>1, <1>2, <1>3 DEF Outcomes

(* The typing a step draws on.                                             *)
LEMMA Typed ==
    ASSUME Before, NEW p \in Processes
    PROVE  /\ proc[p] \in Proc /\ proc \in [Processes -> Proc]
           /\ lock \in Maybe(Inodes) /\ publish \in Maybe(Inodes) /\ reclaim \in Maybe(Inodes)
           /\ file \in [Inodes -> File]
           /\ proc[p].at \in Holding => proc[p].inode \in Inodes
           /\ Stands(proc[p])
           /\ Self(p) \in Owner /\ Idle \in Proc
<1>1. proc[p].at \in Holding => proc[p].inode \in Inodes
  BY DEF Before, Sound, TypeOK, Proc, Maybe, Stands
<1>2. Self(p) \in Owner
  BY DEF Before, Sound, TypeOK, Life, Self, Owner
<1>3. Idle \in Proc
  BY DEF Idle, Proc, Steps, Stages, Outcomes, NothingSeen, NoClaims, Maybe
<1> QED
  BY <1>1, <1>2, <1>3 DEF Before, Sound, TypeOK

-----------------------------------------------------------------------------
(* The steps that leave the object alone.                                  *)

(* A process goes to another place, before or after it has the object.     *)
LEMMA PlaceKeeps ==
    ASSUME Before, NEW p \in Processes, NEW step \in Steps \ Claiming, NEW outcome \in Outcomes,
           Becomes(p, [proc[p] EXCEPT !.at = step, !.outcome = outcome]), Kept, Tidy,
           step \in Holding => proc[p].at \in Holding,
           \/ outcome = "error"
           \/ step \notin Ending \cup {"release"}
           \/ outcome = proc[p].outcome /\ step \in Ending /\ proc[p].at \in Ending
           \/ outcome = proc[p].outcome /\ outcome # "existing" /\ step = "release" /\ Publishing(proc[p])
    PROVE  Keeps
<1> DEFINE q == [proc[p] EXCEPT !.at = step, !.outcome = outcome]
<1>1. q \in Proc
  BY Typed DEF Proc
<1>2. q.at = step /\ q.outcome = outcome /\ q.inode = proc[p].inode /\ q.for = proc[p].for
  BY Typed DEF Proc
<1>3. Turns(p, q)
  BY <1>1, <1>2 DEF Turns, Before, Sound, Stands, Holding
<1>4. ~Acting(q)
  BY <1>2 DEF Acting, Claiming
<1>5. /\ Will(q, "created") => Will(proc[p], "created") \/ Publishing(proc[p])
      /\ Will(q, "existing") => Will(proc[p], "existing")
  BY <1>2 DEF Will, Ending
<1> QED
  BY <1>3, <1>4, <1>5, QuietKeeps

LEMMA GoKeeps ==
    ASSUME Before, NEW p \in Processes, NEW step \in Steps \ Claiming,
           Goes(p, step), Kept, Tidy,
           step \in Holding => proc[p].at \in Holding,
           step \in Ending => proc[p].at \in Ending,
           step # "release"
    PROVE  Keeps
<1>1. PICK outcome \in Outcomes : outcome = proc[p].outcome
  BY Typed DEF Proc
<1>2. [proc[p] EXCEPT !.at = step] = [proc[p] EXCEPT !.at = step, !.outcome = outcome]
  BY <1>1, Typed DEF Proc
<1>3. Becomes(p, [proc[p] EXCEPT !.at = step, !.outcome = outcome])
  BY <1>2 DEF Goes, Becomes
<1> QED
  BY <1>1, <1>3, PlaceKeeps

LEMMA FailKeeps ==
    ASSUME Before, NEW p \in Processes, Fails(p), Kept, Tidy
    PROVE  Keeps
BY PlaceKeeps DEF Fails, Steps, Outcomes, Holding, Claiming

(* A process without a lock of its own.                                    *)
LEMMA IdleKeeps ==
    ASSUME Before, NEW p \in Processes, NEW q \in Proc, Becomes(p, q), Kept, Tidy,
           q.at \notin Holding \cup {"release"}, q.for # "release", q.inode = None
    PROVE  Keeps
<1>1. Turns(p, q)
  BY DEF Turns, Holding, Stands
<1>2. ~Acting(q) /\ \A o : ~Will(q, o)
  BY DEF Acting, Will, Holding, Claiming
<1> QED
  BY <1>1, <1>2, QuietKeeps

LEMMA AgainKeeps ==
    ASSUME Before, NEW p \in Processes, Becomes(p, Again), Kept, Tidy
    PROVE  Keeps
<1>1. Again \in Proc /\ Again.at = "open" /\ Again.inode = None /\ Again.for = "reclaim"
  BY Typed DEF Again, Idle, Proc, Steps
<1> QED
  BY <1>1, IdleKeeps DEF Holding, Claiming

(* A claim that may be abandoned is to be cleared.                         *)
LEMMA ClearingKeeps ==
    ASSUME Before, NEW p \in Processes, NEW claims \in [Paths -> Maybe(Inodes)],
           Becomes(p, [Idle EXCEPT !.at = "clearing", !.clear = claims]), Kept, Tidy
    PROVE  Keeps
<1> DEFINE q == [Idle EXCEPT !.at = "clearing", !.clear = claims]
<1>1. q \in Proc /\ q.at = "clearing" /\ q.inode = None /\ q.for = "reclaim"
  BY Typed DEF Idle, Proc, Steps
<1> QED
  BY <1>1, IdleKeeps DEF Holding, Claiming

LEMMA FindLockKeeps == ASSUME Before, NEW p \in Processes, FindLock(p) PROVE Keeps
<1> DEFINE seen == [lock |-> lock, claim |-> None, signed |-> file[lock].owner # None]
           q == [Idle EXCEPT !.at = "look", !.seen = seen]
<1>1. Becomes(p, q) /\ Kept /\ Tidy
  BY SameFiles DEF FindLock, Only
<1>2. seen \in [lock : Maybe(Inodes), signed : BOOLEAN, claim : Maybe(Inodes)]
  BY Typed DEF Maybe
<1> HIDE DEF seen
<1>3. Idle \in Proc /\ Idle.inode = None /\ Idle.for = "reclaim"
  BY Typed DEF Idle
<1>4. q \in Proc /\ q.at = "look" /\ q.inode = None /\ q.for = "reclaim"
  BY <1>2, <1>3 DEF Proc, Steps
<1> HIDE DEF q
<1> QED
  BY <1>1, <1>4, IdleKeeps DEF Holding, Claiming

LEMMA LookKeeps == ASSUME Before, NEW p \in Processes, Look(p) PROVE Keeps
<1> DEFINE seen == [proc[p].seen EXCEPT !.claim = publish]
           claims == [NoClaims EXCEPT !["publish"] = publish]
           taking == [Idle EXCEPT !.at = "takeDown", !.for = "reclaim", !.seen = seen, !.outcome = "again"]
<1>1. Kept /\ Tidy
  BY SameFiles DEF Look, Only
<1>2. [Idle EXCEPT !.at = "clearing", !.clear = [@ EXCEPT !["publish"] = publish]]
         = [Idle EXCEPT !.at = "clearing", !.clear = claims]
  BY DEF Idle
<1>3. Becomes(p, [Idle EXCEPT !.at = "clearing", !.clear = claims]) \/ Becomes(p, taking) \/ Becomes(p, Again)
  BY <1>2 DEF Look
<1>4. claims \in [Paths -> Maybe(Inodes)]
  BY Typed DEF NoClaims, Paths, Maybe
<1>5. seen \in [lock : Maybe(Inodes), signed : BOOLEAN, claim : Maybe(Inodes)]
  BY Typed DEF Proc
<1> HIDE DEF seen, claims
<1>6. taking \in Proc /\ taking.at = "takeDown" /\ taking.inode = None /\ taking.for = "reclaim"
  BY <1>5, Typed DEF Idle, Proc, Steps, Outcomes
<1> HIDE DEF taking
<1>7. CASE Becomes(p, taking)
  BY <1>1, <1>6, <1>7, IdleKeeps DEF Holding, Claiming
<1> QED
  BY <1>1, <1>3, <1>4, <1>7, ClearingKeeps, AgainKeeps

LEMMA CreateKeeps == ASSUME Before, NEW p \in Processes, Create(p) PROVE Keeps
<1>1. PICK i \in Free : /\ lock' = i
                        /\ file' = [j \in Inodes |-> IF j = i THEN [owner |-> None, fresh |-> TRUE]
                                                     ELSE IF j \in Free THEN Unused ELSE file[j]]
                        /\ Becomes(p, [Idle EXCEPT !.at = "created", !.inode = i])
  <2>1. Free # {}
    BY DEF Create
  <2>2. (CHOOSE i \in Free : TRUE) \in Free
    BY <2>1
  <2> QED
    BY <2>2 DEF Create
<1>2. Kept /\ UNCHANGED <<publish, reclaim>>
  BY DEF Create, Only
<1>3. /\ i \in Inodes /\ i # None /\ i # lock
      /\ \A r \in Processes : proc[r].inode # i
  BY NoneAssumption DEF Free, Remembered
<1> DEFINE q == [Idle EXCEPT !.at = "created", !.inode = i]
<1>4. Idle \in Proc
  BY Typed
<1>5. q \in Proc /\ q.at = "created" /\ q.inode = i
  BY <1>3, <1>4 DEF Proc, Steps, Maybe
<1> HIDE DEF q
<1>6. proc \in [Processes -> Proc] /\ file \in [Inodes -> File]
  BY Typed
<1>7. proc'[p] = q /\ (\A r \in Processes \ {p} : proc'[r] = proc[r]) /\ proc' \in [Processes -> Proc]
  BY <1>1, <1>5, <1>6 DEF Becomes, q
<1>8. TypeOK'
  <2>1. file' \in [Inodes -> File]
    BY <1>1, <1>6 DEF File, Unused, Maybe
  <2>2. lock' \in Maybe(Inodes)
    BY <1>1, <1>3 DEF Maybe
  <2>3. \A r \in Processes : proc'[r].at \in {"linking", "published", "rollback", "unlinkTarget"} => proc'[r].held
    BY <1>5, <1>7 DEF Before, Sound, TypeOK
  <2> QED
    BY <1>2, <1>7, <2>1, <2>2, <2>3 DEF Kept, Before, Sound, TypeOK
<1>9. (\A r \in Processes : Counted(r))'
  BY <1>2 DEF Kept, Before, Sound, Counted
<1>10. (\A r \in Processes : Stands(proc[r]))'
  BY <1>3, <1>5, <1>7 DEF Before, Sound, Stands, Claiming, Holding
<1>11. OwnFiles'
  BY <1>3, <1>5, <1>7 DEF Before, Sound, OwnFiles
<1>12. ~Publishing(q) /\ ~Finding(q) /\ q.at # "unlinkTarget" /\ \A o : ~Will(q, o)
  BY <1>5 DEF Publishing, Finding, Will, Ending
<1>13. \A r \in Processes : /\ Publishing(proc'[r]) => Publishing(proc[r]) /\ proc'[r] = proc[r]
                            /\ \A o : Will(proc'[r], o) => Will(proc[r], o)
                            /\ Finding(proc'[r]) \/ proc'[r].at = "unlinkTarget" => proc'[r] = proc[r]
  BY <1>7, <1>12
<1>14. OneCreator' /\ ToldOfPresent'
  BY <1>2, <1>13 DEF Kept, Before, Sound, OneCreator, ToldOfPresent, Present
<1>15. BackedOutAlone'
  <2>1. \A r \in Processes : Publishing(proc'[r]) => lock' # proc'[r].inode
    BY <1>1, <1>3, <1>13
  <2> QED
    BY <2>1 DEF BackedOutAlone
<1>16. FoundPresent'
  <2>1. \A r \in Processes : Finding(proc'[r]) => lock' # proc'[r].inode
    BY <1>1, <1>3, <1>13
  <2> QED
    BY <2>1 DEF FoundPresent
<1>17. LockedToUnlink'
  <2>1. \A r \in Processes : proc[r].at # "unlinkTarget"
    <3>1. lock = None
      BY DEF Create
    <3> QED
      BY <3>1 DEF Before, Sound, LockedToUnlink, At, Stands, Holding, Claiming
  <2> QED
    BY <1>13, <2>1 DEF LockedToUnlink, At
<1> QED
  BY <1>2, <1>8, <1>9, <1>10, <1>11, <1>14, <1>15, <1>16, <1>17, SilentKeeps DEF Sound, Kept

LEMMA CheckClaimsKeeps == ASSUME Before, NEW p \in Processes, CheckClaims(p) PROVE Keeps
<1>1. Kept /\ Tidy /\ proc[p].at = "created"
  BY SameFiles DEF CheckClaims, Only, At
<1>2. CASE Goes(p, "sign")
  BY <1>1, <1>2, GoKeeps DEF Steps, Holding, Ending, Claiming
<1>3. CASE ~Goes(p, "sign")
  <2> DEFINE q == [proc[p] EXCEPT !.at = "drop", !.clear = Blocking]
  <2>1. Becomes(p, q)
    BY <1>3 DEF CheckClaims, Only
  <2>2. Blocking \in [Paths -> Maybe(Inodes)]
    BY Typed DEF Blocking
  <2>3. proc[p] \in Proc /\ "drop" \in Steps
    BY Typed DEF Steps
  <2>4. q \in Proc /\ q.at = "drop" /\ q.inode = proc[p].inode
    BY <2>2, <2>3 DEF Proc
  <2> HIDE DEF q
  <2>5. Turns(p, q) /\ ~Acting(q) /\ \A o : ~Will(q, o)
    BY <1>1, <2>1, <2>4, Typed, NoneAssumption DEF Turns, Acting, Will, Holding, Ending, Stands, Claiming
  <2> QED
    BY <1>1, <2>5, QuietKeeps
<1> QED
  BY <1>2, <1>3

LEMMA SignKeeps == ASSUME Before, NEW p \in Processes, Sign(p) PROVE Keeps
<1>1. /\ Kept /\ UNCHANGED entries /\ proc[p].at = "sign" /\ Goes(p, "signed")
      /\ file' = [file EXCEPT ![proc[p].inode] = [owner |-> Self(p), fresh |-> TRUE]]
  BY DEF Sign, Only, At
<1>2. [owner |-> Self(p), fresh |-> TRUE] \in File
  BY Typed DEF File, Maybe
<1>3. Tidy
  BY <1>1, <1>2, Typed DEF Tidy, entries
<1> QED
  BY <1>1, <1>3, GoKeeps DEF Steps, Holding, Ending, Claiming

LEMMA TryAgainKeeps == ASSUME Before, NEW p \in Processes, TryAgain(p) PROVE Keeps
BY SameFiles, AgainKeeps DEF TryAgain, Only

LEMMA SignedKeeps == ASSUME Before, NEW p \in Processes, Signed(p) PROVE Keeps
<1>1. Kept /\ Tidy /\ proc[p].at = "signed"
  BY SameFiles DEF Signed, Only, At
<1>2. CASE Goes(p, "locked")
  BY <1>1, <1>2, GoKeeps DEF Steps, Holding, Ending, Claiming
<1>3. CASE ~Goes(p, "locked")
  <2> DEFINE q == [proc[p] EXCEPT !.at = "takeDown", !.for = "discard"]
  <2>1. Becomes(p, q)
    BY <1>3 DEF Signed
  <2>2. q \in Proc /\ q.at = "takeDown" /\ q.for = "discard" /\ q.inode = proc[p].inode
    <3>1. proc[p] \in Proc /\ "takeDown" \in Steps
      BY Typed DEF Steps
    <3> QED
      BY <3>1 DEF Proc
  <2> HIDE DEF q
  <2>3. Turns(p, q) /\ ~Acting(q) /\ \A o : ~Will(q, o)
    BY <1>1, <2>1, <2>2 DEF Turns, Acting, Will, Holding, Stands, Claiming
  <2> QED
    BY <1>1, <2>3, QuietKeeps
<1> QED
  BY <1>2, <1>3

(* A lease is renewed: that of a lock file the process has for its own.    *)
LEMMA RenewsTidy ==
    ASSUME Before, NEW p \in Processes, proc[p].at \in Holding, UNCHANGED entries,
           Renews(p) \/ file' = file
    PROVE  Tidy
<1>1. file' \in [Inodes -> File]
  BY Typed DEF Renews, File
<1> QED
  BY <1>1, Typed DEF Tidy, entries

LEMMA HeartbeatKeeps == ASSUME Before, NEW p \in Processes, Heartbeat(p) PROVE Keeps
<1> DEFINE q == [proc[p] EXCEPT !.lost = ~Owns(p)]
<1>1. /\ Kept /\ UNCHANGED entries /\ proc[p].at \in Holding /\ Becomes(p, q)
      /\ Renews(p) \/ file' = file
  BY DEF Heartbeat, Only, Holding, Claiming
<1>2. Tidy
  BY <1>1, RenewsTidy
<1>3. (~Owns(p)) \in BOOLEAN
  BY DEF Owns
<1>4. /\ q \in Proc /\ q.at = proc[p].at /\ q.inode = proc[p].inode /\ q.held = proc[p].held
      /\ q.outcome = proc[p].outcome /\ q.for = proc[p].for
  BY <1>3, Typed DEF Proc
<1> HIDE DEF q
<1>5. Turns(p, q)
  BY <1>1, <1>2, <1>4, Typed DEF Turns, Stands
<1>6. Entitled(p, q)
  <2>1. Publishing(q) => Publishing(proc[p])
    BY <1>4 DEF Publishing
  <2>2. /\ q.at = "unlinkTarget" => lock' = q.inode
        /\ Finding(q) /\ lock' = q.inode => Present
    BY <1>2, <1>4, StillEntitled DEF At, Finding
  <2> QED
    BY <1>4, <2>1, <2>2 DEF Entitled
<1>7. \A o : Will(q, o) => Will(proc[p], o)
  BY <1>4 DEF Will
<1> QED
  BY <1>1, <1>5, <1>6, <1>7, QuietKeeps

(* Going on to the link, with the publication claim confirmed before.      *)
LEMMA CheckLinkKeeps == ASSUME Before, NEW p \in Processes, CheckLink(p) PROVE Keeps
<1>1. Kept /\ Tidy /\ proc[p].at = "link"
  BY SameFiles DEF CheckLink, Only, At
<1>2. CASE Sure(p)
  <2> DEFINE q == [proc[p] EXCEPT !.at = "linking"]
  <2>1. Becomes(p, q)
    BY <1>2 DEF CheckLink, Goes
  <2>2. q \in Proc /\ q.at = "linking" /\ q.inode = proc[p].inode /\ q.held = proc[p].held
    <3>1. proc[p] \in Proc /\ "linking" \in Steps
      BY Typed DEF Steps
    <3> QED
      BY <3>1 DEF Proc
  <2> HIDE DEF q
  <2>3. Turns(p, q) /\ ~Acting(q) /\ \A o : ~Will(q, o)
    BY <1>1, <2>1, <2>2, Typed
    DEF Turns, Acting, Will, Ending, Stands, Holding, Claiming
  <2> QED
    BY <1>1, <2>3, QuietKeeps
<1>3. CASE ~Sure(p)
  BY <1>1, <1>3, FailKeeps DEF CheckLink
<1> QED
  BY <1>2, <1>3

LEMMA LockedKeeps == ASSUME Before, NEW p \in Processes, Locked(p) PROVE Keeps
<1>1. Kept /\ Tidy /\ proc[p].at = "locked"
  BY SameFiles DEF Locked, Only, At
<1>2. CASE Sure(p)
  <2>1. PICK o \in {"created", "existing"} : Becomes(p, [proc[p] EXCEPT !.at = "claim", !.outcome = o])
    BY <1>2 DEF Locked
  <2> QED
    BY <1>1, <2>1, PlaceKeeps DEF Steps, Outcomes, Holding, Claiming, Ending
<1>3. CASE ~Sure(p)
  BY <1>1, <1>3, FailKeeps DEF Locked
<1> QED
  BY <1>2, <1>3

LEMMA CheckClaimKeeps == ASSUME Before, NEW p \in Processes, CheckClaim(p) PROVE Keeps
<1>1. Kept /\ Tidy /\ proc[p].at = "claim" /\ (Goes(p, "linkClaim") \/ Fails(p))
  BY SameFiles DEF CheckClaim, Only, At
<1>2. CASE Goes(p, "linkClaim")
  BY <1>1, <1>2, GoKeeps DEF Steps, Holding, Claiming, Ending
<1> QED
  BY <1>1, <1>2, FailKeeps

LEMMA LinkClaimKeeps == ASSUME Before, NEW p \in Processes, LinkClaim(p) PROVE Keeps
<1>1. /\ Kept /\ UNCHANGED <<lock, reclaim, file>> /\ proc[p].at = "linkClaim"
      /\ Goes(p, "claimed") \/ Fails(p)
      /\ publish' \in {lock, publish}
  BY DEF LinkClaim, Only, At
<1>2. Tidy
  BY <1>1, Typed DEF Tidy
<1>3. CASE Goes(p, "claimed")
  BY <1>1, <1>2, <1>3, GoKeeps DEF Steps, Holding, Claiming, Ending
<1> QED
  BY <1>1, <1>2, <1>3, FailKeeps

LEMMA ClaimedKeeps == ASSUME Before, NEW p \in Processes, Claimed(p) PROVE Keeps
<1>1. Kept /\ Tidy /\ proc[p].at = "claimed"
  BY SameFiles DEF Claimed, Only, At
<1>2. CASE Goes(p, "undoClaim")
  BY <1>1, <1>2, GoKeeps DEF Steps, Holding, Claiming, Ending
<1>3. CASE ~Goes(p, "undoClaim")
  <2> DEFINE h == [proc[p] EXCEPT !.held = TRUE]
             q(step) == [h EXCEPT !.at = step]
  <2>1. PICK step \in {"replay", "link"} : Becomes(p, q(step))
    BY <1>3 DEF Claimed
  <2>2. q(step) \in Proc /\ q(step).at = step /\ q(step).inode = proc[p].inode /\ q(step).held
    <3>1. proc[p] \in Proc /\ step \in Steps
      BY Typed DEF Steps
    <3> QED
      BY <3>1 DEF Proc
  <2> HIDE DEF q
  <2>3. Turns(p, q(step)) /\ ~Acting(q(step)) /\ \A o : ~Will(q(step), o)
    BY <1>1, <2>1, <2>2, Typed
    DEF Turns, Acting, Will, Ending, Stands, Holding, Claiming
  <2> QED
    BY <1>1, <2>3, QuietKeeps
<1> QED
  BY <1>2, <1>3

-----------------------------------------------------------------------------
(* The steps on the object.                                                *)

(* A process with its claim confirmed goes to another place on the object. *)
LEMMA ActKeeps ==
    ASSUME Before, NEW p \in Processes, proc[p].at \in Claiming,
           NEW step \in {"renew", "rollback", "unlinkTarget"}, NEW outcome \in Outcomes,
           Becomes(p, [proc[p] EXCEPT !.at = step, !.outcome = outcome]), Kept, Tidy,
           \/ Publishing(proc[p])
           \/ step = "renew" /\ outcome = "existing",
           step = "renew" /\ outcome = "existing" => Present,
           step = "unlinkTarget" => lock' = proc[p].inode
    PROVE  Keeps
<1> DEFINE q == [proc[p] EXCEPT !.at = step, !.outcome = outcome]
<1>1. proc[p] \in Proc /\ step \in Steps
  BY Typed DEF Steps
<1>2. /\ q \in Proc /\ q.at = step /\ q.outcome = outcome
      /\ q.inode = proc[p].inode /\ q.held = proc[p].held
  BY <1>1 DEF Proc
<1>3. Becomes(p, q)
  OBVIOUS
<1> HIDE DEF q
<1>4. Turns(p, q) /\ \A o : ~Will(q, o)
  BY <1>2, <1>3, Typed DEF Turns, Will, Ending, Stands, Holding, Claiming
<1>5. Entitled(p, q)
  BY <1>2 DEF Entitled, Publishing, Finding
<1> QED
  BY <1>4, <1>5, QuietKeeps

LEMMA ActGoKeeps ==
    ASSUME Before, NEW p \in Processes, Publishing(proc[p]), proc[p].at \in Claiming,
           NEW step \in {"rollback", "unlinkTarget"}, Goes(p, step), Kept, Tidy,
           step = "unlinkTarget" => lock' = proc[p].inode
    PROVE  Keeps
<1>1. PICK outcome \in Outcomes : outcome = proc[p].outcome
  BY Typed DEF Proc
<1>2. [proc[p] EXCEPT !.at = step] = [proc[p] EXCEPT !.at = step, !.outcome = outcome]
  BY <1>1, Typed DEF Proc
<1>3. Becomes(p, [proc[p] EXCEPT !.at = step, !.outcome = outcome])
  BY <1>2 DEF Goes, Becomes
<1> QED
  BY <1>1, <1>3, ActKeeps

LEMMA CheckFailsKeeps == ASSUME Before, NEW p \in Processes, CheckFails(p) PROVE Keeps
<1>1. /\ Kept /\ Tidy /\ (Goes(p, "rollback") \/ Fails(p))
      /\ Publishing(proc[p]) /\ proc[p].at \in Claiming
  BY SameFiles DEF CheckFails, Only, At, Publishing, Claiming
<1> QED
  BY <1>1, ActGoKeeps, FailKeeps

(* What is found may be taken back only by who has the lock.               *)
LEMMA ReplayKeeps == ASSUME Before, NEW p \in Processes, Replay(p) PROVE Keeps
<1>1. Kept /\ Tidy /\ proc[p].at \in Claiming
  BY SameFiles DEF Replay, Only, At, Claiming
<1>2. CASE Sure(p) /\ Present
  BY <1>1, <1>2, ActKeeps DEF Replay, Only, Outcomes
<1>3. CASE ~(Sure(p) /\ Present)
  BY <1>1, <1>3, FailKeeps DEF Replay, Only
<1> QED
  BY <1>2, <1>3

(* The object is linked: only while there is none, so that nobody can have *)
(* been told of it.                                                        *)
LEMMA LinkKeeps == ASSUME Before, NEW p \in Processes, Link(p) PROVE Keeps
<1>1. Unchanged /\ UNCHANGED <<life, told, created, puts, crashes>> /\ proc[p].at = "linking"
  BY DEF Link, At
<1>2. proc[p] \in Proc /\ {"replay", "published"} \subseteq Steps
  BY Typed DEF Steps
<1> DEFINE q(step) == [proc[p] EXCEPT !.at = step]
<1>3. \A step \in {"replay", "published"} :
         q(step) \in Proc /\ q(step).at = step /\ q(step).inode = proc[p].inode /\ q(step).held = proc[p].held
  BY <1>2 DEF Proc
<1>4. \A step \in {"replay", "published"} : /\ Goes(p, step) <=> Becomes(p, q(step))
                                            /\ \A o : ~Will(q(step), o)
  BY <1>3 DEF Goes, Will, Ending
<1> HIDE DEF q
<1>5. \A step \in {"replay", "published"} : Goes(p, step) => Turns(p, q(step))
  BY <1>1, <1>3, <1>4, Typed, SameFiles DEF Turns, Stands, Holding, Claiming
<1>6. CASE Present
  <2>1. Goes(p, "replay") /\ target' = target
    BY <1>6 DEF Link
  <2>2. ~Acting(q("replay"))
    BY <1>3 DEF Acting
  <2> QED
    BY <1>1, <1>4, <1>5, <2>1, <2>2, QuietKeeps DEF Kept
<1>7. CASE ~Present
  <2>1. Goes(p, "published") /\ target' = p
    BY <1>7 DEF Link
  <2>2. /\ TypeOK'
        /\ (\A r \in Processes : Counted(r))'
        /\ (\A r \in Processes : Stands(proc[r]))'
        /\ OwnFiles'
    BY <1>1, <1>5, <2>1, SameLives, TypedStep DEF Maybe, Before, Sound, TypeOK
  <2>3. proc'[p] = q("published") /\ \A r \in Processes \ {p} : proc'[r] = proc[r]
    BY <1>4, <2>1, Typed DEF Becomes
  <2>4. ~told /\ ~created /\ \A r \in Processes : ~Will(proc[r], "existing")
    BY <1>7 DEF Before, Sound, ToldOfPresent
  <2>5. \A r \in Processes : ~Publishing(proc[r]) /\ ~Will(proc[r], "created")
    BY <1>7, NoneAssumption DEF Before, Sound, OneCreator, Present
  <2>6. OneCreator'
    BY <1>1, <2>1, <2>3, <2>4, <2>5 DEF OneCreator
  <2>7. ToldOfPresent'
    BY <1>1, <1>4, <2>1, <2>3, <2>4 DEF ToldOfPresent
  <2>8. BackedOutAlone'
    BY <1>1, <1>4, <2>3, <2>4 DEF BackedOutAlone
  <2>9. Present' /\ UNCHANGED <<told, created>>
    BY <1>1, <2>1, NoneAssumption DEF Present
  <2>10. FoundPresent'
    BY <2>9 DEF FoundPresent
  <2>11. LockedToUnlink'
    BY <1>1, <1>3, <2>3 DEF Before, Sound, LockedToUnlink, At, Unchanged
  <2> QED
    BY <1>7, <2>2, <2>6, <2>7, <2>8, <2>9, <2>10, <2>11 DEF Sound, Keeps, Object!ObjectNext, Object!Appear
<1> QED
  BY <1>6, <1>7

LEMMA PublishedKeeps == ASSUME Before, NEW p \in Processes, Published(p) PROVE Keeps
<1>1. Kept /\ Tidy /\ proc[p].at \in Claiming /\ Publishing(proc[p])
  BY SameFiles DEF Published, Only, At, Publishing, Claiming
<1>2. target = p
  BY <1>1 DEF Before, Sound, OneCreator
<1>3. CASE Sure(p)
  BY <1>1, <1>2, <1>3, ActKeeps DEF Published, Only, Outcomes
<1>4. CASE ~Sure(p)
  BY <1>1, <1>4, FailKeeps DEF Published, Only
<1> QED
  BY <1>3, <1>4

(* Whoever counts on the object still holds the lock; so nobody who        *)
(* published it and may take it back does.                                 *)
LEMMA RenewKeeps == ASSUME Before, NEW p \in Processes, Renew(p) PROVE Keeps
<1>1. /\ Kept /\ UNCHANGED entries /\ proc[p].at = "renew" /\ proc[p].at \in Holding
      /\ Renews(p) \/ file' = file
      /\ (Sure(p) /\ Goes(p, "release")) \/ Fails(p)
  BY DEF Renew, Only, At, Holding, Claiming
<1>2. Tidy
  BY <1>1, RenewsTidy
<1>3. CASE Fails(p)
  BY <1>1, <1>2, <1>3, FailKeeps
<1>4. CASE Sure(p) /\ Goes(p, "release")
  <2> DEFINE q == [proc[p] EXCEPT !.at = "release"]
  <2>1. Becomes(p, q) /\ lock = proc[p].inode
    BY <1>4 DEF Goes, Sure, Owns
  <2>2. proc[p] \in Proc /\ "release" \in Steps
    BY Typed DEF Steps
  <2>3. q \in Proc /\ q.at = "release" /\ q.inode = proc[p].inode /\ q.outcome = proc[p].outcome
    BY <2>2 DEF Proc
  <2> HIDE DEF q
  <2>4. Turns(p, q) /\ ~Acting(q)
    BY <1>2, <2>1, <2>3 DEF Turns, Acting, Stands, Holding, Claiming
  <2>5. CASE proc[p].outcome # "existing"
    <3>1. \A o : Will(q, o) => o = proc[p].outcome
      BY <2>3 DEF Will
    <3>2. proc[p].outcome = "created" => Publishing(proc[p])
      BY <1>1 DEF Publishing
    <3> QED
      BY <1>1, <2>4, <2>5, <3>1, <3>2, QuietKeeps
  <2>6. CASE proc[p].outcome = "existing"
    <3>1. Present
      BY <1>1, <2>1, <2>6 DEF Before, Sound, FoundPresent, Finding
    <3>2. /\ TypeOK'
          /\ (\A r \in Processes : Counted(r))'
          /\ (\A r \in Processes : Stands(proc[r]))'
          /\ OwnFiles'
      BY <1>1, <2>4, SameLives, TypedStep DEF Kept, Before, Sound, TypeOK
    <3>3. ~Publishing(q) /\ ~Finding(q) /\ q.at # "unlinkTarget" /\ ~Will(q, "created")
      BY <2>3, <2>6 DEF Publishing, Finding, Will, Ending
    <3>4. proc'[p] = q /\ \A r \in Processes \ {p} : proc'[r] = proc[r]
      BY <2>1, Typed DEF Becomes
    <3>5. UNCHANGED <<target, told, created, lock>>
      BY <1>1 DEF Kept, entries
    <3>6. OneCreator' /\ ToldOfPresent' /\ FoundPresent' /\ LockedToUnlink'
      BY <3>1, <3>3, <3>4, <3>5
      DEF Before, Sound, OneCreator, ToldOfPresent, FoundPresent, LockedToUnlink, At, Present
    <3>7. \A r \in Processes : Publishing(proc'[r]) => lock' # proc'[r].inode
      <4> SUFFICES ASSUME NEW r \in Processes, Publishing(proc'[r])
                   PROVE  lock' # proc'[r].inode
        OBVIOUS
      <4>1. r # p /\ proc'[r] = proc[r]
        BY <3>3, <3>4
      <4>2. proc[r].inode # None
        BY <4>1 DEF Before, Sound, Stands, Publishing, Holding, Claiming
      <4> QED
        BY <2>1, <3>5, <4>1, <4>2 DEF Before, Sound, OwnFiles
    <3> QED
      BY <3>2, <3>5, <3>6, <3>7, SilentKeeps DEF Sound, BackedOutAlone
  <2> QED
    BY <2>5, <2>6
<1> QED
  BY <1>1, <1>3, <1>4

LEMMA RollbackKeeps == ASSUME Before, NEW p \in Processes, Rollback(p) PROVE Keeps
<1>1. Kept /\ Tidy /\ lock' = lock /\ proc[p].at \in Claiming /\ Publishing(proc[p])
  BY SameFiles DEF Rollback, Only, At, Publishing, Claiming, Unchanged
<1>2. CASE Goes(p, "unlinkTarget") /\ Sure(p)
  <2>1. lock' = proc[p].inode
    BY <1>1, <1>2 DEF Sure, Owns
  <2> QED
    BY <1>1, <1>2, <2>1, ActGoKeeps
<1>3. CASE Fails(p)
  BY <1>1, <1>3, FailKeeps
<1> QED
  BY <1>2, <1>3 DEF Rollback

(* The object is taken back: by its creator, who still has the lock.       *)
LEMMA UnlinkTargetKeeps == ASSUME Before, NEW p \in Processes, UnlinkTarget(p) PROVE Keeps
<1>1. /\ Fails(p) /\ Unchanged /\ UNCHANGED <<life, told, created, puts, crashes>>
      /\ At(p, "unlinkTarget") /\ target' = None
  BY DEF UnlinkTarget
<1>2. Publishing(proc[p]) /\ lock = proc[p].inode /\ target = p
  BY <1>1 DEF Before, Sound, LockedToUnlink, OneCreator, Publishing, At
<1>3. ~told /\ ~created /\ \A r \in Processes : ~Will(proc[r], "existing")
  BY <1>2 DEF Before, Sound, BackedOutAlone, ToldOfPresent
<1> DEFINE q == [proc[p] EXCEPT !.at = "release", !.outcome = "error"]
<1>4. proc[p] \in Proc /\ "release" \in Steps
  BY Typed DEF Steps
<1>5. q \in Proc /\ q.at = "release" /\ q.inode = proc[p].inode /\ q.outcome = "error"
  BY <1>4 DEF Proc, Outcomes
<1>6. Becomes(p, q)
  BY <1>1 DEF Fails
<1> HIDE DEF q
<1>7. Turns(p, q)
  BY <1>1, <1>5, <1>6, SameFiles DEF Turns, Stands, Holding, Claiming
<1>8. /\ TypeOK'
      /\ (\A r \in Processes : Counted(r))'
      /\ (\A r \in Processes : Stands(proc[r]))'
      /\ OwnFiles'
  BY <1>1, <1>7, SameLives, TypedStep DEF Maybe, Before, Sound, TypeOK
<1>9. proc'[p] = q /\ \A r \in Processes \ {p} : proc'[r] = proc[r]
  BY <1>6, Typed DEF Becomes
<1>10. \A r \in Processes : ~Publishing(proc'[r]) /\ ~Will(proc'[r], "created") /\ ~Will(proc'[r], "existing")
  <2>1. ~Publishing(q) /\ ~Will(q, "created") /\ ~Will(q, "existing")
    BY <1>5 DEF Publishing, Will
  <2>2. \A r \in Processes \ {p} : ~Publishing(proc[r]) /\ ~Will(proc[r], "created") /\ ~Will(proc[r], "existing")
    BY <1>2, <1>3 DEF Before, Sound, OneCreator
  <2> QED
    BY <1>9, <2>1, <2>2
<1>11. OneCreator' /\ ToldOfPresent' /\ BackedOutAlone'
  BY <1>1, <1>3, <1>10 DEF OneCreator, ToldOfPresent, BackedOutAlone
<1>12. LockedToUnlink'
  BY <1>10 DEF LockedToUnlink, At, Publishing
<1>13. FoundPresent'
  <2> SUFFICES ASSUME NEW r \in Processes, Finding(proc'[r]) PROVE lock' # proc'[r].inode
    BY DEF FoundPresent
  <2>1. r # p /\ proc'[r] = proc[r]
    BY <1>5, <1>9 DEF Finding
  <2>2. proc[p].inode # None
    BY <1>1 DEF Before, Sound, Stands, Holding, Claiming, At
  <2> QED
    BY <1>1, <1>2, <2>1, <2>2 DEF Before, Sound, OwnFiles, Unchanged
<1>14. Present /\ ~Present'
  BY <1>1, <1>2, NoneAssumption DEF Present
<1> QED
  BY <1>1, <1>3, <1>8, <1>11, <1>12, <1>13, <1>14 DEF Sound, Keeps, Object!ObjectNext, Object!Withdraw

-----------------------------------------------------------------------------
(* A lock is taken down, and a caller told.                                *)

(* Here a caller is told that its put succeeded.                           *)
LEMMA FinishesKeeps ==
    ASSUME Before, NEW p \in Processes, Finishes(p), proc[p].at \in Ending, Tidy
    PROVE  Keeps
<1>1. CASE proc[p].outcome = "again"
  BY <1>1, AgainKeeps DEF Finishes
<1>2. CASE proc[p].outcome # "again"
  <2>1. PICK o \in Outcomes \ {"again"} : o = IF proc[p].for = "release" THEN proc[p].outcome ELSE "error"
    BY <1>2, Typed DEF Proc, Outcomes
  <2>2. Ended(p, o) /\ (o # "error" => Will(proc[p], o))
    BY <1>2, <2>1 DEF Finishes, Will
  <2> QED
    BY <2>1, <2>2, EndKeeps
<1> QED
  BY <1>1, <1>2

LEMMA ErrorKeeps == ASSUME Before, NEW p \in Processes, Ended(p, "error"), Tidy PROVE Keeps
BY EndKeeps DEF Outcomes

LEMMA ReleaseKeeps == ASSUME Before, NEW p \in Processes, Release(p) PROVE Keeps
<1>1. Tidy /\ proc[p].at = "release"
  BY SameFiles DEF Release, At
<1>2. CASE ~Owns(p)
  BY <1>1, <1>2, ErrorKeeps DEF Release
<1>3. CASE Owns(p)
  <2> DEFINE q == [proc[p] EXCEPT !.at = "takeDown", !.for = "release"]
  <2>1. Becomes(p, q) /\ Kept
    BY <1>3 DEF Release
  <2>2. proc[p] \in Proc /\ "takeDown" \in Steps
    BY Typed DEF Steps
  <2>3. /\ q \in Proc /\ q.at = "takeDown" /\ q.inode = proc[p].inode /\ q.outcome = proc[p].outcome
    BY <2>2 DEF Proc
  <2> HIDE DEF q
  <2>4. Turns(p, q) /\ ~Acting(q) /\ \A o : Will(q, o) => Will(proc[p], o)
    BY <1>1, <2>1, <2>3 DEF Turns, Stands, Holding, Claiming, Acting, Will
  <2> QED
    BY <2>1, <2>4, QuietKeeps
<1> QED
  BY <1>2, <1>3

LEMMA TakeDownKeeps == ASSUME Before, NEW p \in Processes, TakeDown(p) PROVE Keeps
<1>1. proc[p].at = "takeDown" /\ UNCHANGED <<lock, publish, file>> /\ reclaim' \in {lock, reclaim}
  BY DEF TakeDown, At
<1>2. Tidy
  BY <1>1, Typed DEF Tidy
<1>3. CASE Goes(p, "confirm") /\ Kept
  BY <1>1, <1>2, <1>3, GoKeeps DEF Steps, Holding, Claiming, Ending
<1>4. CASE Ended(p, "error")
  BY <1>2, <1>4, ErrorKeeps
<1>5. CASE Becomes(p, Again) /\ Kept
  BY <1>2, <1>5, AgainKeeps
<1>6. CASE Becomes(p, [Idle EXCEPT !.at = "clearing", !.clear = [@ EXCEPT !["reclaim"] = reclaim]]) /\ Kept
  <2> DEFINE claims == [NoClaims EXCEPT !["reclaim"] = reclaim]
  <2>1. Becomes(p, [Idle EXCEPT !.at = "clearing", !.clear = claims])
    BY <1>6 DEF Idle
  <2>2. claims \in [Paths -> Maybe(Inodes)]
    BY Typed DEF NoClaims, Paths, Maybe
  <2> HIDE DEF claims
  <2> QED
    BY <1>2, <1>6, <2>1, <2>2, ClearingKeeps
<1> QED
  BY <1>3, <1>4, <1>5, <1>6 DEF TakeDown

(* One who takes a lock down goes on with it.                              *)
LEMMA DownKeeps ==
    ASSUME Before, NEW p \in Processes, proc[p].at \in Ending, NEW q \in Proc,
           Becomes(p, q), Kept, Tidy,
           q.at \in Ending, q.inode = proc[p].inode, q.for = proc[p].for,
           q.outcome \in {proc[p].outcome, "error"}
    PROVE  Keeps
<1>1. Turns(p, q) /\ ~Acting(q)
  BY DEF Turns, Stands, Holding, Claiming, Ending, Acting
<1>2. \A o \in {"created", "existing"} : Will(q, o) => Will(proc[p], o)
  BY DEF Will, Ending
<1> QED
  BY <1>1, <1>2, QuietKeeps

(* Giving up goes on with the reclaim claim alone.                         *)
LEMMA GivesUpKeeps ==
    ASSUME Before, NEW p \in Processes, proc[p].at \in Ending, Kept, Tidy,
           NEW mark \in Maybe(Inodes), NEW thrown, GivesUp(p, mark, thrown)
    PROVE  Keeps
<1> DEFINE o == IF proc[p].outcome = "again" /\ ~thrown THEN proc[p].outcome ELSE "error"
           q == [proc[p] EXCEPT !.at = "unlinkReclaim", !.stage = "look", !.mark = mark, !.outcome = o]
<1>1. Becomes(p, q)
  BY DEF GivesUp
<1>2. proc[p] \in Proc /\ "unlinkReclaim" \in Steps /\ "look" \in Stages /\ "error" \in Outcomes
  BY Typed DEF Steps, Stages, Outcomes
<1>3. o \in Outcomes /\ o \in {proc[p].outcome, "error"}
  BY <1>2 DEF Proc
<1> HIDE DEF o
<1>4. /\ q \in Proc /\ q.at = "unlinkReclaim" /\ q.inode = proc[p].inode /\ q.for = proc[p].for
      /\ q.outcome = o
  BY <1>2, <1>3 DEF Proc
<1> HIDE DEF q
<1> QED
  BY <1>1, <1>3, <1>4, DownKeeps DEF Ending

LEMMA ConfirmKeeps == ASSUME Before, NEW p \in Processes, Confirm(p) PROVE Keeps
<1>1. proc[p].at \in Ending /\ Tidy
  BY SameFiles DEF Confirm, At, Ending
<1>2. CASE reclaim = None
  BY <1>1, <1>2, ErrorKeeps DEF Confirm
<1>3. CASE reclaim # None /\ GivesUp(p, reclaim, FALSE)
  BY <1>1, <1>3, GivesUpKeeps, Typed DEF Confirm
<1>4. CASE reclaim # None /\ ~GivesUp(p, reclaim, FALSE)
  <2> DEFINE q(step) == [proc[p] EXCEPT !.mark = reclaim, !.at = step]
  <2>1. PICK step \in {"unlinkPublish", "unlinkLock", "recheck"} : Becomes(p, q(step)) /\ Kept
    BY <1>4 DEF Confirm
  <2>2. proc[p] \in Proc /\ step \in Steps /\ reclaim \in Maybe(Inodes)
    BY Typed DEF Steps
  <2>3. /\ q(step) \in Proc /\ q(step).at = step /\ q(step).outcome = proc[p].outcome
        /\ q(step).inode = proc[p].inode /\ q(step).for = proc[p].for
    BY <2>2 DEF Proc
  <2> HIDE DEF q
  <2> QED
    BY <1>1, <2>1, <2>3, DownKeeps DEF Ending
<1> QED
  BY <1>2, <1>3, <1>4

LEMMA RecheckKeeps == ASSUME Before, NEW p \in Processes, Recheck(p) PROVE Keeps
<1>1. /\ proc[p].at = "recheck" /\ Kept /\ Tidy
      /\ Goes(p, "unlinkLock") \/ GivesUp(p, proc[p].mark, reclaim # proc[p].mark)
  BY SameFiles DEF Recheck, At, Only
<1>2. CASE Goes(p, "unlinkLock")
  BY <1>1, <1>2, GoKeeps DEF Steps, Holding, Claiming, Ending
<1>3. proc[p].mark \in Maybe(Inodes) /\ proc[p].at \in Ending
  BY <1>1, Typed DEF Proc, Ending
<1> QED
  BY <1>1, <1>2, <1>3, GivesUpKeeps

-----------------------------------------------------------------------------
(* An unlink, wherever it comes, and what its caller makes of it.          *)

LEMMA AfterKeeps ==
    ASSUME Before, NEW p \in Processes, NEW result, After(p, result), Tidy
    PROVE  Keeps
<1> DEFINE look == [proc[p] EXCEPT !.stage = "look"]
<1>1. /\ look \in Proc /\ look.at = proc[p].at /\ look.inode = proc[p].inode /\ look.for = proc[p].for
      /\ look.outcome = proc[p].outcome /\ look.clear = proc[p].clear
      /\ proc[p].clear \in [Paths -> Maybe(Inodes)] /\ proc[p].mark \in Maybe(Inodes)
  BY Typed DEF Proc, Stages
<1>2. CASE At(p, "drop") /\ Becomes(p, [Idle EXCEPT !.at = "clearing", !.clear = proc[p].clear]) /\ Kept
  BY <1>1, <1>2, ClearingKeeps
<1>3. CASE /\ At(p, "clearing") /\ Kept
           /\ Becomes(p, [look EXCEPT !.clear = [look.clear EXCEPT ![PathOf(look)] = None]])
  <2> DEFINE claims == [look.clear EXCEPT ![PathOf(look)] = None]
             q == [look EXCEPT !.clear = claims]
  <2>1. claims \in [Paths -> Maybe(Inodes)]
    BY <1>1 DEF Maybe
  <2> HIDE DEF claims, look
  <2>2. q \in Proc /\ q.at = "clearing" /\ q.inode = proc[p].inode
    BY <1>1, <1>3, <2>1 DEF Proc, At
  <2>3. Becomes(p, q)
    BY <1>3 DEF claims
  <2> HIDE DEF q
  <2>4. Turns(p, q) /\ ~Acting(q) /\ \A o : ~Will(q, o)
    BY <2>2, <2>3 DEF Turns, Stands, Holding, Claiming, Acting, Will, Ending
  <2> QED
    BY <1>3, <2>4, QuietKeeps
<1>4. CASE At(p, "undoClaim") /\ Becomes(p, [look EXCEPT !.at = "release", !.outcome = "error"]) /\ Kept
  <2> DEFINE q == [look EXCEPT !.at = "release", !.outcome = "error"]
  <2>1. "release" \in Steps /\ "error" \in Outcomes
    BY DEF Steps, Outcomes
  <2> HIDE DEF look
  <2>2. q \in Proc /\ q.at = "release" /\ q.inode = proc[p].inode /\ q.outcome = "error"
    BY <1>1, <2>1 DEF Proc
  <2>3. Becomes(p, q)
    BY <1>4
  <2> HIDE DEF q
  <2>4. Turns(p, q) /\ ~Acting(q) /\ ~Will(q, "created") /\ ~Will(q, "existing")
    BY <2>2, <2>3 DEF Turns, Stands, Holding, Claiming, Acting, Will
  <2> QED
    BY <1>4, <2>4, QuietKeeps
<1>5. CASE /\ proc[p].at \in {"unlinkPublish", "unlinkLock"} /\ Kept
           /\ GivesUp(p, proc[p].mark, result = "error")
  BY <1>1, <1>5, GivesUpKeeps DEF Ending
<1>6. CASE /\ At(p, "unlinkPublish") /\ Kept
           /\ \E step \in {"unlinkLock", "recheck"} : Becomes(p, [look EXCEPT !.at = step, !.held = FALSE])
  <2>1. PICK step \in {"unlinkLock", "recheck"} : Becomes(p, [look EXCEPT !.at = step, !.held = FALSE])
    BY <1>6
  <2> DEFINE q == [look EXCEPT !.at = step, !.held = FALSE]
  <2>2. step \in Steps
    BY DEF Steps
  <2> HIDE DEF look
  <2>3. /\ q \in Proc /\ q.at = step /\ q.inode = proc[p].inode /\ q.for = proc[p].for
        /\ q.outcome = proc[p].outcome
    BY <1>1, <2>2 DEF Proc
  <2>4. Becomes(p, q)
    BY <2>1
  <2> HIDE DEF q
  <2> QED
    BY <1>6, <2>3, <2>4, DownKeeps DEF At, Ending
<1>7. CASE At(p, "unlinkLock") /\ Becomes(p, [look EXCEPT !.at = "unlinkReclaim"]) /\ Kept
  <2> DEFINE q == [look EXCEPT !.at = "unlinkReclaim"]
  <2>1. "unlinkReclaim" \in Steps
    BY DEF Steps
  <2> HIDE DEF look
  <2>2. /\ q \in Proc /\ q.at = "unlinkReclaim" /\ q.inode = proc[p].inode /\ q.for = proc[p].for
        /\ q.outcome = proc[p].outcome
    BY <1>1, <2>1 DEF Proc
  <2>3. Becomes(p, q)
    BY <1>7
  <2> HIDE DEF q
  <2> QED
    BY <1>7, <2>2, <2>3, DownKeeps DEF At, Ending
<1>8. CASE At(p, "unlinkReclaim") /\ Finishes(p)
  BY <1>8, FinishesKeeps DEF At, Ending
<1>9. CASE Ended(p, "error")
  BY <1>9, ErrorKeeps
<1> QED
  BY <1>1, <1>2, <1>3, <1>4, <1>5, <1>6, <1>7, <1>8, <1>9 DEF After, At

(* Within unlinkMatchingFile nothing but the stage changes.                *)
LEMMA MovesKeeps ==
    ASSUME Before, NEW p \in Processes, proc[p].at \in Unlinking, NEW stage \in Stages,
           Moves(p, stage), Tidy
    PROVE  Keeps
<1> DEFINE q == [proc[p] EXCEPT !.stage = stage]
<1>1. /\ q \in Proc /\ q.at = proc[p].at /\ q.inode = proc[p].inode /\ q.held = proc[p].held
      /\ q.for = proc[p].for /\ q.outcome = proc[p].outcome
  BY Typed DEF Proc
<1>2. Becomes(p, q) /\ Kept
  BY DEF Moves
<1> HIDE DEF q
<1>3. Turns(p, q) /\ ~Acting(q) /\ \A o : Will(q, o) => Will(proc[p], o)
  BY <1>1, <1>2, Typed DEF Turns, Stands, Acting, Will, Unlinking
<1> QED
  BY <1>2, <1>3, QuietKeeps

LEMMA LookToUnlinkKeeps == ASSUME Before, NEW p \in Processes, LookToUnlink(p) PROVE Keeps
<1>1. Tidy /\ proc[p].at \in Unlinking /\ "unlink" \in Stages
  BY SameFiles DEF LookToUnlink, Stages
<1>2. Moves(p, "unlink") \/ After(p, "other") \/ After(p, "error")
  BY DEF LookToUnlink
<1> QED
  BY <1>1, <1>2, MovesKeeps, AfterKeeps

(* What is unlinked may be anybody's lock, but for one of a process that   *)
(* is past the last check of its rollback.                                 *)
LEMMA UnlinkKeeps == ASSUME Before, NEW p \in Processes, Unlink(p), overtaken' = (overtaken \/ Overtakes) PROVE Keeps
<1>1. /\ lock' \in {lock, None} /\ publish' \in {publish, None} /\ reclaim' \in {reclaim, None}
      /\ file' = file /\ proc[p].at \in Unlinking /\ "lookAgain" \in Stages
  BY DEF Unlink, Stages
<1>2. \A r \in Processes : At(r, "unlinkTarget") => lock' = lock
  BY DEF Before, Sound, LockedToUnlink, Overtakes
<1>3. Tidy
  BY <1>1, <1>2, Typed DEF Tidy, Maybe
<1>4. Moves(p, "lookAgain") \/ After(p, "error")
  BY DEF Unlink
<1> QED
  BY <1>1, <1>3, <1>4, MovesKeeps, AfterKeeps

LEMMA LookAgainKeeps == ASSUME Before, NEW p \in Processes, LookAgain(p) PROVE Keeps
<1>1. Tidy /\ \E result : After(p, result)
  BY SameFiles DEF LookAgain
<1> QED
  BY <1>1, AfterKeeps

-----------------------------------------------------------------------------
(* The world.                                                              *)

LEMMA PutKeeps == ASSUME Before, NEW p \in Processes, Put(p) PROVE Keeps
<1> DEFINE q == [proc[p] EXCEPT !.at = "open"]
<1>1. /\ Becomes(p, q) /\ Unchanged /\ UNCHANGED <<target, life, told, created, crashes>>
      /\ puts < MaxPuts /\ puts' = puts + 1
  BY DEF Put, Goes
<1>2. proc[p] \in Proc /\ "open" \in Steps
  BY Typed DEF Steps
<1>3. q \in Proc /\ q.at = "open" /\ q.inode = proc[p].inode
  BY <1>2 DEF Proc
<1> HIDE DEF q
<1>4. Turns(p, q) /\ ~Acting(q) /\ \A o : ~Will(q, o)
  BY <1>1, <1>3, Typed, SameFiles DEF Turns, Stands, Holding, Claiming, Acting, Will, Ending
<1>5. Lives
  <2>1. puts' \in 0..MaxPuts
    BY <1>1, BoundsAssumption DEF Before, Sound, TypeOK
  <2> QED
    BY <1>1, <2>1 DEF Before, Sound, TypeOK, Lives, Counted
<1> QED
  BY <1>1, <1>4, <1>5, QuietStep, SilentKeeps

LEMMA CrashKeeps == ASSUME Before, NEW p \in Processes, Crash(p) PROVE Keeps
<1>1. /\ Becomes(p, Idle) /\ Unchanged /\ UNCHANGED <<target, told, created, puts>>
      /\ life[p].up /\ crashes < MaxCrashes /\ crashes' = crashes + 1
      /\ life' = [life EXCEPT ![p] = [life[p] EXCEPT !.up = FALSE]]
  BY DEF Crash
<1>2. Turns(p, Idle) /\ ~Acting(Idle) /\ \A o : ~Will(Idle, o)
  <2>1. Idle.at = "idle" /\ Idle.inode = None
    BY DEF Idle
  <2> QED
    BY <1>1, <2>1, Typed, SameFiles DEF Turns, Stands, Holding, Claiming, Acting, Will, Ending
<1>3. Lives
  <2>1. life \in [Processes -> Life] /\ crashes \in 0..MaxCrashes /\ puts \in 0..MaxPuts
    BY DEF Before, Sound, TypeOK
  <2>2. /\ life' \in [Processes -> Life]
        /\ life'[p].pid = life[p].pid /\ life'[p].instance = life[p].instance /\ ~life'[p].up
        /\ \A r \in Processes \ {p} : life'[r] = life[r]
    BY <1>1, <2>1 DEF Life
  <2>3. crashes' \in 0..MaxCrashes
    BY <1>1, <2>1, BoundsAssumption
  <2>4. \A r \in Processes : life[r].pid \in Nat /\ life[r].instance \in Nat
    BY <2>1 DEF Life
  <2>5. \A r \in Processes : Counted(r)
    BY DEF Before, Sound
  <2>6. ASSUME NEW r \in Processes
        PROVE  Counted(r)'
    <3>1. CASE r = p
      BY <1>1, <2>1, <2>2, <2>4, <2>5, <3>1 DEF Counted
    <3>2. CASE r # p
      BY <1>1, <2>1, <2>2, <2>4, <2>5, <3>2 DEF Counted
    <3> QED
      BY <3>1, <3>2
  <2> QED
    BY <1>1, <2>1, <2>2, <2>3, <2>6 DEF Lives
<1> QED
  BY <1>1, <1>2, <1>3, QuietStep, SilentKeeps

LEMMA RestartKeeps == ASSUME Before, NEW p \in Processes, Restart(p) PROVE Keeps
<1>1. /\ Unchanged /\ UNCHANGED <<target, proc, told, created, puts, crashes>> /\ ~life[p].up
  BY DEF Restart
<1>2. PICK pid \in {life[p].pid, life[p].pid + 1} :
         life' = [life EXCEPT ![p] = [up |-> TRUE, pid |-> pid, instance |-> life[p].instance + 1]]
  BY DEF Restart
<1>3. life \in [Processes -> Life] /\ crashes \in 0..MaxCrashes /\ puts \in 0..MaxPuts
  BY DEF Before, Sound, TypeOK
<1>4. /\ life[p].pid \in Nat /\ life[p].instance \in Nat
      /\ life[p].pid <= life[p].instance /\ life[p].instance + 1 <= crashes
  BY <1>1, <1>3 DEF Before, Sound, Counted, Life
<1>5. pid \in 0..MaxCrashes /\ life[p].instance + 1 \in 0..MaxCrashes /\ pid <= life[p].instance + 1
  BY <1>2, <1>3, <1>4, BoundsAssumption
<1>6. life' \in [Processes -> Life]
  BY <1>2, <1>3, <1>5 DEF Life
<1>7. ASSUME NEW r \in Processes
      PROVE  Counted(r)'
  <2>1. CASE r = p
    BY <1>1, <1>2, <1>3, <1>4, <1>5, <2>1 DEF Counted
  <2>2. CASE r # p
    <3>1. life'[r] = life[r]
      BY <1>2, <1>3, <2>2
    <3> QED
      BY <1>1, <3>1 DEF Before, Sound, Counted
  <2> QED
    BY <2>1, <2>2
<1>8. Lives
  BY <1>1, <1>3, <1>6, <1>7 DEF Lives
<1> QED
  BY <1>1, <1>8, WorldStep, SilentKeeps, Typed DEF Unchanged, entries

LEMMA ExpireKeeps == ASSUME Before, NEW i \in Inodes, Expire(i) PROVE Keeps
<1>1. UNCHANGED <<entries, proc>> /\ Kept /\ file' = [file EXCEPT ![i] = [file[i] EXCEPT !.fresh = FALSE]]
  BY DEF Expire
<1>2. file' \in [Inodes -> File]
  BY <1>1 DEF Before, Sound, TypeOK, File
<1> QED
  BY <1>1, <1>2, SameLives, WorldStep, SilentKeeps DEF Kept

-----------------------------------------------------------------------------
(* The theorems.                                                           *)

LEMMA InvInit == Init => Sound /\ overtaken = FALSE
<1> SUFFICES ASSUME Init PROVE Sound
  BY DEF Init
<1>1. /\ \A p \in Processes : proc[p] = Idle
      /\ Idle.at = "idle" /\ ~Idle.held /\ Idle.inode = None
  BY DEF Init, Idle
<1>2. TypeOK
  <2>1. Idle \in Proc /\ Unused \in File
    BY DEF Idle, Proc, Steps, Stages, Outcomes, NothingSeen, NoClaims, Maybe, Unused, File
  <2>2. life \in [Processes -> Life] /\ puts \in 0..MaxPuts /\ crashes \in 0..MaxCrashes
    BY BoundsAssumption DEF Init, Life
  <2> QED
    BY <1>1, <2>1, <2>2 DEF Init, TypeOK, Maybe
<1>3. \A p \in Processes : Counted(p) /\ Stands(proc[p])
  BY <1>1 DEF Init, Counted, Stands, Holding, Claiming
<1>4. \A p \in Processes : /\ ~Publishing(proc[p]) /\ ~Finding(proc[p]) /\ ~At(p, "unlinkTarget")
                           /\ \A o : ~Will(proc[p], o)
  BY <1>1 DEF Publishing, Finding, Will, Ending, At
<1>5. OwnFiles /\ OneCreator /\ ToldOfPresent /\ BackedOutAlone /\ FoundPresent /\ LockedToUnlink
  BY <1>1, <1>4
  DEF Init, OwnFiles, OneCreator, ToldOfPresent, BackedOutAlone, FoundPresent, LockedToUnlink
<1> QED
  BY <1>2, <1>3, <1>5 DEF Sound

(* One lemma for each action.                                              *)
LEMMA StepKeeps == Before /\ [Next]_vars => Keeps
<1> SUFFICES ASSUME Before, [Next]_vars PROVE Keeps
  OBVIOUS
<1>1. CASE UNCHANGED vars
  <2>1. UNCHANGED <<entries, proc, target, told, created>> /\ Lives /\ file' \in [Inodes -> File]
    BY <1>1, SameLives DEF vars, entries, Before, Sound, TypeOK
  <2> QED
    BY <2>1, WorldStep, SilentKeeps
<1>2. ASSUME NEW p \in Processes, Work(p), overtaken' = (overtaken \/ Overtakes)
      PROVE  Keeps
  BY <1>2, CreateKeeps, FindLockKeeps, LookKeeps, CheckClaimsKeeps, SignKeeps,
     TryAgainKeeps, SignedKeeps, LockedKeeps, CheckClaimKeeps, LinkClaimKeeps, ClaimedKeeps,
     ReplayKeeps, CheckLinkKeeps, LinkKeeps, PublishedKeeps, RenewKeeps, RollbackKeeps,
     UnlinkTargetKeeps, ReleaseKeeps, TakeDownKeeps, ConfirmKeeps, RecheckKeeps,
     LookToUnlinkKeeps, UnlinkKeeps, LookAgainKeeps DEF Work
<1>3. ASSUME NEW p \in Processes,
             Put(p) \/ Heartbeat(p) \/ CheckFails(p) \/ Crash(p) \/ Restart(p)
      PROVE  Keeps
  BY <1>3, PutKeeps, HeartbeatKeeps, CheckFailsKeeps, CrashKeeps, RestartKeeps
<1>4. ASSUME NEW i \in Inodes, Expire(i)
      PROVE  Keeps
  BY <1>4, ExpireKeeps
<1> QED
  BY <1>1, <1>2, <1>3, <1>4 DEF Next

(* Only an unlink overtakes; it changes nothing of the object.             *)
LEMMA OvertakingStep ==
    ASSUME Sound, [Next]_vars, Overtakes
    PROVE  UNCHANGED <<target, told, created>>
<1>1. PICK r \in Processes : At(r, "unlinkTarget") /\ lock = proc[r].inode /\ lock' # lock
  BY DEF Overtakes
<1>2. lock # None
  BY <1>1 DEF Sound, Stands, Holding, Claiming, At
<1>3. \A p \in Processes : /\ ~Create(p) /\ ~FindLock(p) /\ ~Look(p) /\ ~CheckClaims(p) /\ ~Sign(p)
                           /\ ~TryAgain(p) /\ ~Signed(p) /\ ~Locked(p) /\ ~CheckClaim(p)
                           /\ ~LinkClaim(p) /\ ~Claimed(p)
  BY <1>1, <1>2 DEF Create, FindLock, Look, CheckClaims, Sign, TryAgain, Signed, Locked, CheckClaim,
     LinkClaim, Claimed, Only, Unchanged, entries
<1>4. \A p \in Processes : /\ ~Replay(p) /\ ~CheckLink(p) /\ ~Link(p) /\ ~Published(p) /\ ~Renew(p)
                           /\ ~Rollback(p) /\ ~UnlinkTarget(p) /\ ~Release(p) /\ ~TakeDown(p)
                           /\ ~Confirm(p) /\ ~Recheck(p) /\ ~LookToUnlink(p) /\ ~LookAgain(p)
  BY <1>1 DEF Replay, CheckLink, Link, Published, Renew, Rollback, UnlinkTarget, Release, TakeDown,
     Confirm, Recheck, LookToUnlink, LookAgain, Only, Unchanged, entries
<1>5. \A p \in Processes : ~Put(p) /\ ~Heartbeat(p) /\ ~CheckFails(p) /\ ~Crash(p) /\ ~Restart(p)
  BY <1>1 DEF Put, Heartbeat, CheckFails, Crash, Restart, Only, Unchanged, entries
<1>6. \A i \in Inodes : ~Expire(i)
  BY <1>1 DEF Expire, entries
<1>7. PICK p \in Processes : Unlink(p)
  BY <1>1, <1>3, <1>4, <1>5, <1>6 DEF Next, Work, vars
<1>8. Named(PathOf(proc[p])) # None
  BY <1>1, <1>2, <1>7 DEF Unlink, Named
<1> QED
  BY <1>7, <1>8 DEF Unlink, Moves, Kept

(* Who was overtaken stays so.                                             *)
LEMMA InvStep == IInv /\ [Next]_vars => IInv' /\ (overtaken \/ [Object!ObjectNext]_(Object!object))
<1> SUFFICES ASSUME IInv, [Next]_vars
             PROVE  IInv' /\ (overtaken \/ [Object!ObjectNext]_(Object!object))
  OBVIOUS
<1>1. overtaken' = overtaken \/ overtaken' = (overtaken \/ Overtakes)
  BY DEF Next, vars
<1>2. CASE overtaken
  BY <1>1, <1>2 DEF IInv
<1>3. CASE ~overtaken
  <2>1. Sound /\ overtaken = FALSE
    BY <1>3 DEF IInv, Sound, TypeOK
  <2>2. CASE overtaken' = FALSE
    BY <2>1, <2>2, StepKeeps DEF Before, Keeps, IInv
  <2>3. CASE overtaken' # FALSE
    <3>1. overtaken' /\ Overtakes
      BY <1>1, <2>1, <2>3
    <3>2. UNCHANGED Object!object
      BY <2>1, <3>1, OvertakingStep DEF Object!object, Present
    <3> QED
      BY <3>1, <3>2 DEF IInv
  <2> QED
    BY <2>2, <2>3
<1> QED
  BY <1>2, <1>3

(* The bookkeeping of the lock protocol holds together until a process     *)
(* that is about to take the object back is overtaken: processes and files *)
(* are of their types, no two processes have the same lock file for their  *)
(* own, who creates the object is alone with it until its caller is told,  *)
(* and nobody is told of an object that is not there, whichever lock or    *)
(* claim an unlink meets that comes late.                                  *)
THEOREM StoreStaysSound == Spec => []IInv
<1>1. Init => IInv
  BY InvInit DEF IInv
<1>2. IInv /\ [Next]_vars => IInv'
  BY InvStep
<1> QED
  BY <1>1, <1>2, PTL DEF Spec

(* The lock protocol keeps the promise of the store: one creator, and an   *)
(* object that a caller was told of stays, for any hosts, leases, crashes  *)
(* and stalls, until a process loses its lock between the last check of    *)
(* its rollback and the unlink that follows it.                            *)
THEOREM ProtocolRefinement == Spec => ImplementsObject
<1>1. Init => IInv /\ Object!ObjectInit
  BY InvInit DEF Init, IInv, Object!ObjectInit, Present
<1>2. IInv /\ [Next]_vars => IInv' /\ [overtaken \/ Object!ObjectNext]_(Object!object)
  BY InvStep
<1> QED
  BY <1>1, <1>2, PTL DEF Spec, ImplementsObject
=============================================================================

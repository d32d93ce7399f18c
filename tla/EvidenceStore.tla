--------------------------- MODULE EvidenceStore ----------------------------
(***************************************************************************)
(* One evidence object of the API's store and the processes that put it.   *)
(* A process publishes the object by a hard link while it holds a lock     *)
(* file with a lease record, and marks the publication itself with a       *)
(* second link to the lock file, the publication claim.  Who removes a     *)
(* lock file, its owner or one who finds it stale, first links it as the   *)
(* reclaim claim.                                                          *)
(*                                                                         *)
(* A step is one operation that changes the directory or a lease record,   *)
(* or the checks that come before it; reads in a row without an operation  *)
(* between them are one step.  No check is one step with the operation it  *)
(* is for: a process may stall between the two, for any time.  Time is not *)
(* counted: a lease may run out, and the grace period of an abandoned      *)
(* claim pass, at any moment.  An inode is not used again while a path or  *)
(* a process names it.                                                     *)
(***************************************************************************)
EXTENDS Naturals, FiniteSets

CONSTANTS Processes,   \* API processes with the same evidence directory
          Host,        \* the host each runs on
          Inodes,      \* lock files
          MaxCrashes,  \* bound: crashes of processes
          MaxPuts,     \* bound: puts
          None

ASSUME NoneAssumption == None \notin Processes \cup Inodes

ASSUME BoundsAssumption == MaxCrashes \in Nat /\ MaxPuts \in Nat

VARIABLES
    lock, publish, reclaim,  \* the three directory entries of the object
    target,   \* who linked the object's file, or None while there is none
    file,     \* lock files
    proc,     \* the put each process is at
    life,     \* whether a process runs, its pid and its instance id
    told, created,  \* history: a put succeeded; a put said it created the object
    overtaken,      \* history: a lock was taken from a process that is taking the object back
    puts, crashes

vars == <<lock, publish, reclaim, target, file, proc, life, told, created, overtaken, puts, crashes>>

entries == <<lock, publish, reclaim>>

Maybe(S) == S \cup {None}

Life == [up : BOOLEAN, pid : 0..MaxCrashes, instance : 0..MaxCrashes]

Owner == [process : Processes, pid : 0..MaxCrashes, instance : 0..MaxCrashes]

(* `owner` is of the last lease record, `fresh` while the lease runs.      *)
File == [owner : Maybe(Owner), fresh : BOOLEAN]

Steps == {"idle", "open", "look", "created", "sign", "drop", "clearing", "signed", "locked",
          "claim", "linkClaim", "claimed", "undoClaim", "replay", "link", "linking",
          "published", "renew", "rollback", "unlinkTarget", "release",
          "takeDown", "confirm", "unlinkPublish", "recheck", "unlinkLock", "unlinkReclaim"}

(* The steps that call unlinkMatchingFile, and how far the call is: its    *)
(* look, the unlink, and its look afterwards.                              *)
Unlinking == {"drop", "clearing", "undoClaim", "unlinkPublish", "unlinkLock", "unlinkReclaim"}

Stages == {"look", "unlink", "lookAgain"}

Paths == {"publish", "reclaim"}

Outcomes == {"created", "existing", "error", "again"}

(* `inode` is the process's own lock file, `seen` what it found of         *)
(* another's; `for` why a lock is taken down, `clear` the abandoned claims *)
(* to remove, `outcome` what the caller will be told, or that the put      *)
(* begins again.                                                           *)
Proc == [at      : Steps,
         stage   : Stages,
         inode   : Maybe(Inodes),
         held    : BOOLEAN,
         lost    : BOOLEAN,
         seen    : [lock : Maybe(Inodes), signed : BOOLEAN, claim : Maybe(Inodes)],
         for     : {"reclaim", "release", "discard"},
         mark    : Maybe(Inodes),
         clear   : [Paths -> Maybe(Inodes)],
         outcome : Outcomes]

Unused == [owner |-> None, fresh |-> FALSE]

NothingSeen == [lock |-> None, signed |-> FALSE, claim |-> None]

NoClaims == [path \in Paths |-> None]

Idle == [at |-> "idle", stage |-> "look", inode |-> None, held |-> FALSE, lost |-> FALSE, seen |-> NothingSeen,
         for |-> "reclaim", mark |-> None, clear |-> NoClaims, outcome |-> "error"]

(* The loop of an acquisition turns.                                       *)
Again == [Idle EXCEPT !.at = "open"]

Init ==
    /\ lock = None /\ publish = None /\ reclaim = None /\ target = None
    /\ file = [i \in Inodes |-> Unused]
    /\ proc = [p \in Processes |-> Idle]
    /\ life = [p \in Processes |-> [up |-> TRUE, pid |-> 0, instance |-> 0]]
    /\ told = FALSE /\ created = FALSE /\ overtaken = FALSE
    /\ puts = 0 /\ crashes = 0

-----------------------------------------------------------------------------
(* Processes and files.                                                    *)

At(p, step) == proc[p].at = step

Becomes(p, q) == proc' = [proc EXCEPT ![p] = q]

Goes(p, step) == Becomes(p, [proc[p] EXCEPT !.at = step])

(* A put that fails has to release its lock before it says so.             *)
Fails(p) == Becomes(p, [proc[p] EXCEPT !.at = "release", !.outcome = "error"])

Self(p) == [process |-> p, pid |-> life[p].pid, instance |-> life[p].instance]

Remembered(p) ==
    {proc[p].inode, proc[p].seen.lock, proc[p].seen.claim, proc[p].mark}
        \cup {proc[p].clear[path] : path \in Paths}

Free == {i \in Inodes : i \notin {lock, publish, reclaim} \cup UNION {Remembered(p) : p \in Processes}}

Kept == UNCHANGED <<target, life, told, created, puts, crashes>>

Only(changes) == changes /\ Kept

Unchanged == UNCHANGED <<lock, publish, reclaim, file>>

(* A signal to the pid tells.                                              *)
Runs(o) == life[o.process].up /\ life[o.process].pid = o.pid

(* What q makes of the process in a lease record: another host's cannot be *)
(* asked, and a pid that runs may be of another process.                   *)
Alive(q, o) ==
    IF o = None \/ Host[o.process] # Host[q] THEN "unknown"
    ELSE IF o.process = q /\ o.pid = life[q].pid
         THEN IF o.instance = life[q].instance THEN "yes" ELSE "no"
         ELSE IF Runs(o) THEN "yes" ELSE "no"

LockStale(q, i) == Alive(q, file[i].owner) = "no" \/ ~file[i].fresh

(* A publication is not taken from a process that runs, however long it    *)
(* takes.                                                                  *)
ClaimStale(q, i) ==
    \/ Alive(q, file[i].owner) = "no"
    \/ Alive(q, file[i].owner) = "unknown" /\ ~file[i].fresh

Stale(q, i, claim) == IF claim = None THEN LockStale(q, i) ELSE ClaimStale(q, i)

(* requirePublicationLockOwnershipNow.                                     *)
Owns(p) ==
    LET i == proc[p].inode
    IN  /\ lock = i
        /\ file[i].owner = Self(p)
        /\ publish = IF proc[p].held THEN i ELSE None
        /\ reclaim # i

Sure(p) == ~proc[p].lost /\ Owns(p)

-----------------------------------------------------------------------------
(* acquirePublicationLock.                                                 *)

Put(p) ==
    /\ At(p, "idle") /\ life[p].up
    /\ puts < MaxPuts /\ puts' = puts + 1
    /\ Goes(p, "open")
    /\ Unchanged /\ UNCHANGED <<target, life, told, created, crashes>>

Create(p) ==
    /\ At(p, "open") /\ lock = None /\ Free # {}
    /\ LET i == CHOOSE i \in Free : TRUE
       IN  /\ lock' = i
           /\ file' = [j \in Inodes |-> IF j = i THEN [owner |-> None, fresh |-> TRUE]
                                        ELSE IF j \in Free THEN Unused ELSE file[j]]
           /\ Becomes(p, [Idle EXCEPT !.at = "created", !.inode = i])
    /\ Only(UNCHANGED <<publish, reclaim>>)

FindLock(p) ==
    /\ At(p, "open") /\ lock # None
    /\ Becomes(p, [Idle EXCEPT !.at = "look", !.seen = [lock |-> lock, claim |-> None,
                                       signed |-> file[lock].owner # None]])
    /\ Only(Unchanged)

(* A claim on another file is abandoned; a stale lock is taken down; else  *)
(* the process waits and tries again.                                      *)
Look(p) ==
    /\ At(p, "look")
    /\ LET seen == [proc[p].seen EXCEPT !.claim = publish]
       IN  IF publish \notin {None, seen.lock}
           THEN Becomes(p, [Idle EXCEPT !.at = "clearing", !.clear = [@ EXCEPT !["publish"] = publish]])
           ELSE IF Stale(p, seen.lock, seen.claim)
           THEN Becomes(p, [Idle EXCEPT !.at = "takeDown", !.for = "reclaim", !.seen = seen, !.outcome = "again"])
           ELSE Becomes(p, Again)
    /\ Only(Unchanged)

Blocking == [path \in Paths |-> IF path = "publish" THEN publish ELSE reclaim]

(* A new lock signs on only when no claim of an old one is left.           *)
CheckClaims(p) ==
    /\ At(p, "created")
    /\ IF Blocking = NoClaims THEN Goes(p, "sign")
       ELSE Becomes(p, [proc[p] EXCEPT !.at = "drop", !.clear = Blocking])
    /\ Only(Unchanged)

Sign(p) ==
    /\ At(p, "sign")
    /\ file' = [file EXCEPT ![proc[p].inode] = [owner |-> Self(p), fresh |-> TRUE]]
    /\ Goes(p, "signed")
    /\ Only(UNCHANGED entries)

Cleared(q) == q.clear = NoClaims

TryAgain(p) ==
    /\ At(p, "clearing") /\ Cleared(proc[p])
    /\ Becomes(p, Again)
    /\ Only(Unchanged)

Signed(p) ==
    /\ At(p, "signed")
    /\ IF Owns(p) THEN Goes(p, "locked")
       ELSE Becomes(p, [proc[p] EXCEPT !.at = "takeDown", !.for = "discard"])
    /\ Only(Unchanged)

(* refreshPublicationLock: a check, a lease record, and the check again.   *)
(* The first check may be long past when the record is written.            *)
Renews(p) == file' = [file EXCEPT ![proc[p].inode] = [@ EXCEPT !.fresh = TRUE]]

(* The heartbeat while the put lasts; one that finds the lock lost is      *)
(* remembered, and is the last.                                            *)
Heartbeat(p) ==
    /\ proc[p].at \in {"locked", "claim", "replay", "link", "linking", "published", "renew",
                       "rollback", "unlinkTarget"}
    /\ ~proc[p].lost
    /\ Renews(p) \/ (~Owns(p) /\ file' = file)
    /\ Becomes(p, [proc[p] EXCEPT !.lost = ~Owns(p)])
    /\ Only(UNCHANGED entries)

-----------------------------------------------------------------------------
(* putWithPublicationLock.                                                 *)

Present == target # None

(* Whether the object is there decides what the claim is for.              *)
Locked(p) ==
    /\ At(p, "locked")
    /\ IF Sure(p)
       THEN Becomes(p, [proc[p] EXCEPT !.at = "claim",
                                       !.outcome = IF Present THEN "existing" ELSE "created"])
       ELSE Fails(p)
    /\ Only(Unchanged)

CheckClaim(p) ==
    /\ At(p, "claim")
    /\ IF Sure(p) THEN Goes(p, "linkClaim") ELSE Fails(p)
    /\ Only(Unchanged)

(* The claim is a link to whatever the lock's path names by now.           *)
LinkClaim(p) ==
    /\ At(p, "linkClaim")
    /\ IF publish = None /\ lock # None
       THEN publish' = lock /\ Goes(p, "claimed")
       ELSE UNCHANGED publish /\ Fails(p)
    /\ Only(UNCHANGED <<lock, reclaim, file>>)

Claimed(p) ==
    /\ At(p, "claimed")
    /\ LET q == [proc[p] EXCEPT !.held = TRUE]
       IN  IF publish = q.inode /\ lock = q.inode /\ reclaim # q.inode
           THEN Becomes(p, [q EXCEPT !.at = IF q.outcome = "existing" THEN "replay" ELSE "link"])
           ELSE Goes(p, "undoClaim")
    /\ Only(Unchanged)

Replay(p) ==
    /\ At(p, "replay")
    /\ IF Sure(p) /\ Present
       THEN Becomes(p, [proc[p] EXCEPT !.at = "renew", !.outcome = "existing"])
       ELSE Fails(p)
    /\ Only(Unchanged)

CheckLink(p) ==
    /\ At(p, "link")
    /\ IF Sure(p) THEN Goes(p, "linking") ELSE Fails(p)
    /\ Only(Unchanged)

Link(p) ==
    /\ At(p, "linking")
    /\ IF Present
       THEN Goes(p, "replay") /\ target' = target
       ELSE Goes(p, "published") /\ target' = p
    /\ Unchanged /\ UNCHANGED <<life, told, created, puts, crashes>>

Published(p) ==
    /\ At(p, "published")
    /\ IF ~Sure(p) THEN Fails(p)
       ELSE IF target = p
       THEN Becomes(p, [proc[p] EXCEPT !.at = "renew", !.outcome = "created"])
       ELSE Goes(p, "rollback")
    /\ Only(Unchanged)

(* The last renewal of the lease, after which the put has its outcome.     *)
Renew(p) ==
    /\ At(p, "renew")
    /\ \/ Renews(p) /\ (IF Sure(p) THEN Goes(p, "release") ELSE Fails(p))
       \/ ~Sure(p) /\ file' = file /\ Fails(p)
    /\ Only(UNCHANGED entries)

(* A directory or file is not the one it was: an error that takes the      *)
(* object back, unless the lock is lost.  Other errors leave it.           *)
CheckFails(p) ==
    /\ At(p, "published") \/ (At(p, "renew") /\ proc[p].outcome = "created")
    /\ Goes(p, "rollback") \/ Fails(p)
    /\ Only(Unchanged)

RollbackUnchecked(p) ==
    /\ At(p, "rollback")
    /\ IF target = p THEN Goes(p, "unlinkTarget") ELSE Fails(p)
    /\ Only(Unchanged)

(* rollbackPublishedLink, up to the last check that the lock is held.      *)
Rollback(p) ==
    /\ At(p, "rollback")
    /\ IF Sure(p) /\ proc[p].held /\ target = p THEN Goes(p, "unlinkTarget") ELSE Fails(p)
    /\ Only(Unchanged)

(* The unlink itself, of whatever the path names by now.                   *)
UnlinkTarget(p) ==
    /\ At(p, "unlinkTarget")
    /\ target' = None /\ Fails(p)
    /\ Unchanged /\ UNCHANGED <<life, told, created, puts, crashes>>

-----------------------------------------------------------------------------
(* A lock is taken down: releasePublicationLock by its owner,              *)
(* reclaimPublicationLock, or removePublicationLockByIdentity after an     *)
(* acquisition that failed.                                                *)

(* An acquisition that failed takes its lock file back, of which it asks   *)
(* less than the others do.                                                *)
Discards(p) == proc[p].for = "discard"

Down(q) == IF q.for = "reclaim" THEN q.seen.lock ELSE q.inode

Ended(p, outcome) ==
    /\ Becomes(p, Idle)
    /\ told' = (told \/ outcome # "error")
    /\ created' = (created \/ outcome = "created")
    /\ UNCHANGED <<target, life, puts, crashes>>

(* A lock that was to be reclaimed is tried again, unless an error was     *)
(* thrown; only who releases its lock has something to tell.               *)
Finishes(p) ==
    IF proc[p].outcome = "again" THEN Becomes(p, Again) /\ Kept
    ELSE Ended(p, IF proc[p].for = "release" THEN proc[p].outcome ELSE "error")

Release(p) ==
    /\ At(p, "release")
    /\ IF Owns(p)
       THEN Becomes(p, [proc[p] EXCEPT !.at = "takeDown", !.for = "release"]) /\ Kept
       ELSE Ended(p, "error")
    /\ Unchanged

(* A reclaim claim that is there already may be abandoned.                 *)
TakeDown(p) ==
    /\ At(p, "takeDown")
    /\ IF lock # None /\ reclaim = None
       THEN reclaim' = lock /\ Goes(p, "confirm") /\ Kept
       ELSE /\ reclaim' = reclaim
            /\ IF proc[p].for # "reclaim" THEN Ended(p, "error")
               ELSE /\ Becomes(p, IF lock = None THEN Again
                                  ELSE [Idle EXCEPT !.at = "clearing", !.clear = [@ EXCEPT !["reclaim"] = reclaim]])
                    /\ Kept
    /\ UNCHANGED <<lock, publish, file>>

(* The lock and its claim are what they were, and still stale.             *)
StillStale(p) ==
    LET seen == proc[p].seen
    IN  /\ lock = seen.lock
        /\ seen.signed <=> file[lock].owner # None
        /\ publish = seen.claim
        /\ Stale(p, lock, publish)

Confirmed(p) ==
    CASE proc[p].for = "reclaim" -> StillStale(p)
      [] proc[p].for = "release" -> /\ lock = proc[p].inode
                                    /\ publish = IF proc[p].held THEN lock ELSE None
      [] OTHER                   -> TRUE

(* `mark` is the reclaim claim to be removed at the end.                   *)
GivesUp(p, mark, thrown) ==
    Becomes(p, [proc[p] EXCEPT !.at = "unlinkReclaim", !.stage = "look", !.mark = mark,
                               !.outcome = IF @ = "again" /\ ~thrown THEN @ ELSE "error"])

Confirm(p) ==
    /\ At(p, "confirm")
    /\ IF reclaim = None THEN Ended(p, "error")
       ELSE /\ IF reclaim # Down(proc[p]) \/ ~Confirmed(p) THEN GivesUp(p, reclaim, FALSE)
               ELSE Becomes(p, [proc[p] EXCEPT !.mark = reclaim,
                                               !.at = IF publish = reclaim THEN "unlinkPublish"
                                                      ELSE IF Discards(p) THEN "unlinkLock"
                                                      ELSE "recheck"])
            /\ Kept
    /\ Unchanged

(* What unlinkMatchingFile is not called for unless it holds: the files    *)
(* are the ones that were seen.                                            *)
Recheck(p) ==
    /\ At(p, "recheck")
    /\ LET seen == proc[p].seen
           mark == proc[p].mark
       IN  IF /\ lock = mark /\ reclaim = mark
              /\ proc[p].for = "reclaim" => publish = None /\ (seen.signed <=> file[lock].owner # None)
           THEN Goes(p, "unlinkLock")
           ELSE GivesUp(p, mark, reclaim # mark)
    /\ Only(Unchanged)

-----------------------------------------------------------------------------
(* unlinkMatchingFile: a look at the path, the unlink of whatever the path *)
(* names by then, and another look.                                        *)

PathOf(q) ==
    CASE q.at \in {"drop", "unlinkLock"}         -> "lock"
      [] q.at \in {"undoClaim", "unlinkPublish"} -> "publish"
      [] q.at = "clearing" /\ q.clear["publish"] # None -> "publish"
      [] OTHER                                   -> "reclaim"

FileOf(q) ==
    CASE q.at \in {"drop", "undoClaim"} -> q.inode
      [] q.at = "clearing"              -> q.clear[PathOf(q)]
      [] OTHER                          -> q.mark

Named(path) == CASE path = "lock" -> lock [] path = "publish" -> publish [] OTHER -> reclaim

(* What each caller makes of the result: the file was removed, the path    *)
(* named another one, or an error was thrown.                              *)
After(p, result) ==
    LET q == [proc[p] EXCEPT !.stage = "look"]
        mark == proc[p].mark
    IN  \/ /\ At(p, "drop")
           /\ Becomes(p, [Idle EXCEPT !.at = "clearing", !.clear = q.clear]) /\ Kept
        \/ /\ At(p, "clearing")
           /\ IF result = "error" THEN Ended(p, "error")
              ELSE Becomes(p, [q EXCEPT !.clear = [@ EXCEPT ![PathOf(q)] = None]]) /\ Kept
        \/ /\ At(p, "undoClaim")
           /\ Becomes(p, [q EXCEPT !.at = "release", !.outcome = "error"]) /\ Kept
        \/ /\ At(p, "unlinkPublish") /\ Kept
           /\ IF result = "error" \/ (result = "other" /\ ~Discards(p)) THEN GivesUp(p, mark, result = "error")
              ELSE Becomes(p, [q EXCEPT !.at = IF Discards(p) THEN "unlinkLock" ELSE "recheck", !.held = FALSE])
        \/ /\ At(p, "unlinkLock") /\ Kept
           /\ IF result = "removed" THEN Becomes(p, [q EXCEPT !.at = "unlinkReclaim"])
              ELSE GivesUp(p, mark, result = "error")
        \/ At(p, "unlinkReclaim") /\ Finishes(p)

Moves(p, stage) == Becomes(p, [proc[p] EXCEPT !.stage = stage]) /\ Kept

(* Who takes a lock down requires both claims to be the ones it saw before *)
(* it looks to unlink the publication claim, and throws if they are not.   *)
Requires(q) == q.at = "unlinkPublish" /\ q.for # "discard"

(* An abandoned claim is left alone until its grace period is over.        *)
LookToUnlink(p) ==
    /\ proc[p].at \in Unlinking /\ proc[p].stage = "look"
    /\ At(p, "clearing") => ~Cleared(proc[p])
    /\ LET named == Named(PathOf(proc[p])) = FileOf(proc[p])
           required == Requires(proc[p]) => reclaim = proc[p].mark
       IN  \/ required /\ named /\ Moves(p, "unlink")
           \/ required /\ (~named \/ At(p, "clearing")) /\ After(p, "other")
           \/ ~(required /\ named) /\ Requires(proc[p]) /\ After(p, "error")
    /\ Unchanged

Unlink(p) ==
    /\ proc[p].at \in Unlinking /\ proc[p].stage = "unlink"
    /\ LET path == PathOf(proc[p])
       IN  /\ IF Named(path) = None THEN After(p, "error") ELSE Moves(p, "lookAgain")
           /\ lock' = IF path = "lock" THEN None ELSE lock
           /\ publish' = IF path = "publish" THEN None ELSE publish
           /\ reclaim' = IF path = "reclaim" THEN None ELSE reclaim
    /\ UNCHANGED file

LookAgain(p) ==
    /\ proc[p].at \in Unlinking /\ proc[p].stage = "lookAgain"
    /\ After(p, IF Named(PathOf(proc[p])) = FileOf(proc[p]) THEN "error" ELSE "removed")
    /\ Unchanged

-----------------------------------------------------------------------------
(* The world.                                                              *)

Expire(i) ==
    /\ file[i].fresh /\ i \notin Free
    /\ file' = [file EXCEPT ![i] = [@ EXCEPT !.fresh = FALSE]]
    /\ UNCHANGED <<entries, proc>> /\ Kept

Crash(p) ==
    /\ life[p].up /\ crashes < MaxCrashes
    /\ crashes' = crashes + 1
    /\ life' = [life EXCEPT ![p] = [@ EXCEPT !.up = FALSE]]
    /\ Becomes(p, Idle)
    /\ Unchanged /\ UNCHANGED <<target, told, created, puts>>

(* A new instance, which may get the pid of the old one.                   *)
Restart(p) ==
    /\ ~life[p].up
    /\ \E pid \in {life[p].pid, life[p].pid + 1} :
          life' = [life EXCEPT ![p] = [up |-> TRUE, pid |-> pid, instance |-> @.instance + 1]]
    /\ Unchanged /\ UNCHANGED <<target, proc, told, created, puts, crashes>>

Work(p) ==
    \/ Create(p) \/ FindLock(p) \/ Look(p) \/ CheckClaims(p) \/ Sign(p) \/ TryAgain(p) \/ Signed(p)
    \/ Locked(p) \/ CheckClaim(p) \/ LinkClaim(p) \/ Claimed(p)
    \/ Replay(p) \/ CheckLink(p) \/ Link(p) \/ Published(p) \/ Renew(p)
    \/ Rollback(p) \/ UnlinkTarget(p)
    \/ Release(p) \/ TakeDown(p) \/ Confirm(p) \/ Recheck(p)
    \/ LookToUnlink(p) \/ Unlink(p) \/ LookAgain(p)

(* A lock is taken from a process that has checked for the last time that  *)
(* it holds it, and is about to take the object back.                      *)
Overtakes ==
    \E p \in Processes : At(p, "unlinkTarget") /\ lock = proc[p].inode /\ lock' # lock

Next ==
    /\ \/ \E p \in Processes :
             Work(p) \/ Put(p) \/ Heartbeat(p) \/ CheckFails(p) \/ Crash(p) \/ Restart(p)
       \/ \E i \in Inodes : Expire(i)
    /\ overtaken' = (overtaken \/ Overtakes)

Spec == Init /\ [][Next]_vars

-----------------------------------------------------------------------------
(* Properties.                                                             *)

(* The types, and that a put links the object, or takes it back, only      *)
(* after it confirmed a publication claim of its own.                      *)
TypeOK ==
    /\ lock \in Maybe(Inodes) /\ publish \in Maybe(Inodes) /\ reclaim \in Maybe(Inodes)
    /\ target \in Maybe(Processes)
    /\ file \in [Inodes -> File]
    /\ proc \in [Processes -> Proc]
    /\ life \in [Processes -> Life]
    /\ told \in BOOLEAN /\ created \in BOOLEAN /\ overtaken \in BOOLEAN
    /\ puts \in 0..MaxPuts /\ crashes \in 0..MaxCrashes
    /\ \A p \in Processes : proc[p].at \in {"linking", "published", "rollback", "unlinkTarget"} => proc[p].held

Object == INSTANCE EvidenceObject WITH present <- Present

(* The protocol keeps the store's promise: one creator, and nothing a      *)
(* caller was told of disappears, crashes, taken locks and stalls at every *)
(* unlink of a lock or a claim included.  It is kept until a lock is taken *)
(* from a process that is past the last check of a rollback.               *)
ImplementsObject ==
    /\ Object!ObjectInit
    /\ [][overtaken \/ Object!ObjectNext]_(Object!object)

(* What the test "does not expose a final object to another store until    *)
(* publication cleanup completes" says: a store that was told of an object *)
(* has it.                                                                 *)
ToldObjectStays == told => Present
=============================================================================

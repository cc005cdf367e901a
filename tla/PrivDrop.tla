------------------------------ MODULE PrivDrop ------------------------------
(***************************************************************************)
(* Giving the privileges up (internal/dataplane/capture/privdrop_linux.go).*)
(* Linux keeps credentials per thread.  Those of a thread are a record;    *)
(* each system call is an operator from credentials to credentials, with   *)
(* the kernel's rule for when it is permitted, or Refused.  Setgroups,     *)
(* setgid and setuid go through AllThreadsSyscall; every other call and    *)
(* every read acts on the thread the goroutine happens to run on, and      *)
(* nothing locks it to one.  Capabilities are sets of names.               *)
(***************************************************************************)
EXTENDS Naturals

CONSTANTS
    Refused,       \* the answer of a call the kernel does not permit
    Threads        \* the threads of the process

Credentials ==
    [uid : Nat, gid : Nat, groups : SUBSET Nat, permitted : SUBSET STRING, effective : SUBSET STRING,
     bounding : SUBSET STRING, keepcaps : BOOLEAN, nnp : BOOLEAN]

SetKeepCaps(c, on) == [c EXCEPT !.keepcaps = on]

SetGroups(c, gids) == IF "SETGID" \in c.effective THEN [c EXCEPT !.groups = gids] ELSE Refused

SetGID(c, gid) ==
    IF "SETGID" \in c.effective \/ gid = c.gid THEN [c EXCEPT !.gid = gid] ELSE Refused

\* Without SETUID a thread may take its own user only.  Leaving user 0 clears the effective set, and the permitted one as well
\* unless KEEPCAPS is on.
SetUID(c, uid) ==
    IF "SETUID" \notin c.effective /\ uid # c.uid THEN Refused
    ELSE LET leaves == c.uid = 0 /\ uid # 0
         IN  [c EXCEPT !.uid = uid,
                       !.effective = IF leaves THEN {} ELSE @,
                       !.permitted = IF leaves /\ ~c.keepcaps THEN {} ELSE @]

SetCaps(c, caps) ==
    IF caps \subseteq c.permitted
    THEN [c EXCEPT !.permitted = caps, !.effective = caps] ELSE Refused

DropBoundingCaps(c, keep) ==
    IF c.bounding \subseteq keep THEN c
    ELSE IF "SETPCAP" \in c.effective THEN [c EXCEPT !.bounding = @ \cap keep] ELSE Refused

SetNoNewPrivs(c) == [c EXCEPT !.nnp = TRUE]

WithSetpcap(keep) == keep \cup {"SETPCAP"}

\* The reads of verifyDrop, in order, on the thread they are made on: every
\* identity, set and flag is exactly the target, and user 0 is out of reach:
\* setuid(0) must answer EPERM.
Verified(c, cfg, i) ==
    CASE i = 10 -> c.uid = cfg.uid /\ c.gid = cfg.gid /\ c.groups = cfg.groups
      [] i = 11 -> c.effective = cfg.keep
      [] i = 12 -> c.bounding = cfg.keep
      [] i = 13 -> ~c.keepcaps
      [] i = 14 -> cfg.nnp => c.nnp
      [] i = 15 -> SetUID(c, 0) = Refused

DropLength == 15

\* All of verifyDrop finds the target on one thread.
VerifyDrop(c, cfg) == \A i \in 10 .. DropLength : Verified(c, cfg, i)

\* Mutant of DropSteps: the group list is set after the user.
DropStepsUserFirst(c, cfg, i) ==
    CASE i = 1 -> SetKeepCaps(c, TRUE)
      [] i = 2 -> SetUID(c, cfg.uid)
      [] i = 3 -> SetGID(c, cfg.gid)
      [] i = 4 -> SetGroups(c, cfg.groups)
      [] i = 5 -> SetCaps(c, WithSetpcap(cfg.keep))
      [] i = 6 -> DropBoundingCaps(c, cfg.keep)
      [] i = 7 -> SetCaps(c, cfg.keep)
      [] i = 8 -> SetKeepCaps(c, FALSE)
      [] i = 9 -> IF cfg.nnp THEN SetNoNewPrivs(c) ELSE c
      [] i \in 10 .. DropLength -> IF Verified(c, cfg, i) THEN c ELSE Refused

\* The calls of DropPrivileges, in order, as each acts on one thread.
DropSteps(c, cfg, i) ==
    CASE i = 1 -> SetKeepCaps(c, TRUE)
      [] i = 2 -> SetGroups(c, cfg.groups)
      [] i = 3 -> SetGID(c, cfg.gid)
      [] i = 4 -> SetUID(c, cfg.uid)
      [] i = 5 -> SetCaps(c, WithSetpcap(cfg.keep))
      [] i = 6 -> DropBoundingCaps(c, cfg.keep)
      [] i = 7 -> SetCaps(c, cfg.keep)
      [] i = 8 -> SetKeepCaps(c, FALSE)
      [] i = 9 -> IF cfg.nnp THEN SetNoNewPrivs(c) ELSE c
      [] i \in 10 .. DropLength -> IF Verified(c, cfg, i) THEN c ELSE Refused

\* The calls made with AllThreadsSyscall that change credentials.
OnAllThreads == {2, 3, 4}

\* The i-th call, made on thread t, is refused there: DropPrivileges returns.
Refuses(c, cfg, i, t) == DropSteps(c[t], cfg, i) = Refused

\* The calling thread's answer to an AllThreadsSyscall is not a refusal and
\* another thread's differs: the Go runtime ends the process.  At the probe the
\* answer that is not a refusal is the one that fails the verification.
Aborts(c, cfg, i, t) ==
    \/ i \in OnAllThreads /\ ~Refuses(c, cfg, i, t) /\ \E u \in Threads : Refuses(c, cfg, i, u)
    \/ i = DropLength /\ Refuses(c, cfg, i, t) /\ \E u \in Threads : ~Refuses(c, cfg, i, u)

\* The credentials of every thread after the i-th call, made on thread t.
After(c, cfg, i, t) ==
    [u \in Threads |-> IF u = t \/ i \in OnAllThreads THEN DropSteps(c[u], cfg, i) ELSE c[u]]
=============================================================================

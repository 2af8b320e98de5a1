------------------------------- MODULE Lockout -------------------------------
(***************************************************************************)
(* The account lockout in front of the credential login: LockoutService    *)
(* and the /sign-in/email branch of mountBetterAuth (fastify-mount.ts).    *)
(* One account; any number of sign-ins race for it, on any number of API   *)
(* processes, and Redis holds one counter with an optional expiry.         *)
(***************************************************************************)
EXTENDS Naturals, FiniteSets

CONSTANTS
  SignIns,       \* the sign-in requests that may be in flight together
  MaxAttempts,   \* LockoutService.MAX_ATTEMPTS
  LockFaults,    \* the kinds of fault that happen
  MaxLockFaults, \* bound: how many faults happen in one behaviour
  MaxTries       \* bound: how many sign-ins are made in one behaviour

ASSUME LockoutAssumption ==
  /\ IsFiniteSet(SignIns)
  /\ MaxAttempts \in Nat \ {0}
  /\ LockFaults \subseteq {"redis", "crash"}
  /\ MaxLockFaults \in Nat
  /\ MaxTries \in Nat

VARIABLES
  failures,  \* the counter under mos:auth:lockout:<email>, 0 when the key is absent
  expiring,  \* the key has an expiry
  login,     \* [SignIns -> Login]: where each request is
  guesses,   \* history: wrong passwords the account answered since the key last went
  uncounted, \* history: those of them that a fault kept out of the counter
  lockFaults,  \* history: faults so far
  tries        \* history: sign-ins made so far

lockVars == <<failures, expiring, login, guesses, uncounted, lockFaults, tries>>

Login == {"none", "checked", "right", "wrong", "first"}

LockoutInit ==
  /\ failures = 0
  /\ expiring = FALSE
  /\ login = [r \in SignIns |-> "none"]
  /\ guesses = 0
  /\ uncounted = 0
  /\ lockFaults = 0
  /\ tries = 0

\* Seeded fault: the account is frozen one failure too late.
LockedLate(count) == count > MaxAttempts
Locked(count) == count >= MaxAttempts

Trouble(kind) ==
  /\ kind \in LockFaults
  /\ lockFaults < MaxLockFaults
  /\ lockFaults' = lockFaults + 1

\* isLocked(): a frozen account answers 429 before the credential is looked at.
Check(r) ==
  /\ login[r] = "none"
  /\ tries < MaxTries
  /\ ~ Locked(failures)
  /\ login' = [login EXCEPT ![r] = "checked"]
  /\ tries' = tries + 1
  /\ UNCHANGED <<failures, expiring, guesses, uncounted, lockFaults>>

\* auth.instance.handler(): the password is right, wrong (401 or 403), or the
\* answer is another one, which the lockout ignores.
Verify(r) ==
  /\ login[r] = "checked"
  /\ \E answer \in {"right", "wrong", "none"} :
       /\ login' = [login EXCEPT ![r] = answer]
       /\ guesses' = IF answer = "wrong" THEN guesses + 1 ELSE guesses
  /\ UNCHANGED <<failures, expiring, uncounted, lockFaults, tries>>

\* The key goes, and what was guessed so far no longer counts.
KeyGone ==
  /\ failures' = 0
  /\ expiring' = FALSE
  /\ guesses' = 0
  /\ uncounted' = 0

\* clear() after a successful login.
Clear(r) ==
  /\ login[r] = "right"
  /\ KeyGone
  /\ login' = [login EXCEPT ![r] = "none"]
  /\ UNCHANGED <<lockFaults, tries>>

\* Seeded fault: the count before the increment is compared.
StartsWindowBefore(count) == count = 0

\* recordFailure() expires the key when INCR returned one.
StartsWindow(count) == count = 1

\* recordFailure(): INCR, which creates a key without an expiry or keeps the one
\* it has.
Count(r) ==
  /\ login[r] = "wrong"
  /\ failures' = failures + 1
  /\ login' = [login EXCEPT ![r] = IF StartsWindow(failures') THEN "first" ELSE "none"]
  /\ UNCHANGED <<expiring, guesses, uncounted, lockFaults, tries>>

\* recordFailure(): EXPIRE, which does nothing to a key that went meanwhile.
Expire(r) ==
  /\ login[r] = "first"
  /\ expiring' = (failures > 0)
  /\ login' = [login EXCEPT ![r] = "none"]
  /\ UNCHANGED <<failures, guesses, uncounted, lockFaults, tries>>

\* The window of WINDOW_SECONDS ends and Redis drops the key.
WindowEnds ==
  /\ expiring
  /\ KeyGone
  /\ UNCHANGED <<login, lockFaults, tries>>

\* A Redis call throws, which the handler answers with a 500, or the process dies.
Break(r) ==
  /\ \/ login[r] \in {"right", "wrong", "first"} /\ Trouble("redis")
     \/ login[r] # "none" /\ Trouble("crash")
  /\ uncounted' = IF login[r] = "wrong" /\ guesses > 0 THEN uncounted + 1 ELSE uncounted
  /\ login' = [login EXCEPT ![r] = "none"]
  /\ UNCHANGED <<failures, expiring, guesses, tries>>

SignInStep(r) == Verify(r) \/ Clear(r) \/ Count(r) \/ Expire(r)

LockoutNext ==
  \/ WindowEnds
  \/ \E r \in SignIns : Check(r) \/ SignInStep(r) \/ Break(r)

\* Redis drops an expired key, and a request whose process lives goes on to its end.
LockoutFairness ==
  /\ WF_lockVars(WindowEnds)
  /\ \A r \in SignIns : WF_lockVars(SignInStep(r))

LockoutSpec == LockoutInit /\ [][LockoutNext]_lockVars /\ LockoutFairness

(***************************************************************************)
(* Properties                                                              *)
(***************************************************************************)
\* Every variable keeps its type, and what a fault left uncounted was guessed.
LockoutTypeOK ==
  /\ failures \in Nat
  /\ expiring \in BOOLEAN
  /\ login \in [SignIns -> Login]
  /\ guesses \in Nat
  /\ uncounted \in Nat
  /\ lockFaults <= MaxLockFaults
  /\ tries <= MaxTries
  /\ expiring => failures > 0

\* Between two moments at which the key goes, an account answers at most
\* MaxAttempts - 1 wrong passwords and those of the requests that had passed the
\* check together (the counter is read before the credential is verified and
\* written after it), and those a fault kept from being counted.
GuessesBounded == guesses <= MaxAttempts - 1 + Cardinality(SignIns) + uncounted

\* Without a fault between INCR and EXPIRE, "a locked account unlocks after the
\* cooldown with no cleanup job" (lockout.service.ts): whatever the races of
\* clear(), INCR and EXPIRE, no key is left that never expires.
Open == ~ Locked(failures) \/ lockFaults > 0
Unlocks == []<>Open
=============================================================================

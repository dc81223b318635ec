---------------------------- MODULE ClientPuzzle ----------------------------
(***************************************************************************)
(* The anti-DoS gate in front of the write routes: request counting and    *)
(* puzzles (EnclaveClientPuzzleEngine) and the Express middleware          *)
(* (AntiDosMiddleware), with the two ways it is mounted.  The bootstrapper *)
(* calls the factory and mounts what it returns; EscrowRouter mounts the   *)
(* factory itself on /lock and two consensus routes, so that for a request *)
(* there the factory is called with (req, res, next) as its configuration, *)
(* returns a function nobody calls, and neither answers nor goes on.       *)
(*                                                                         *)
(* A challenge is its seed and its expiry; a solution names a client and a *)
(* seed, and its nonce is good or not.                                     *)
(***************************************************************************)
EXTENDS Integers, FiniteSets, Functions

CONSTANTS
    Client,
    Limit,      \* maxRequestsPerWindow
    Window,     \* windowMs
    Ttl,        \* challengeTtlMs
    Idle, NoSolution, NoChallenge,
    MaxClock,   \* bound: the clock
    MaxTotal,   \* bound: requests in one window
    MaxSeed     \* bound: challenges created

ASSUME PuzzleAssumption ==
    /\ {Limit, Window, Ttl} \subseteq Nat \ {0}
    /\ {MaxClock, MaxTotal, MaxSeed} \subseteq Nat /\ IsFiniteSet(Client)

Route == {"submit", "lock"}
Solution == [clientId : Client, seed : 1..MaxSeed, good : BOOLEAN]

VARIABLES
    clock,       \* Date.now()
    windowStart, \* currentWindowStartMs
    windowCounts,\* per client; totalRequestsThisWindow is their sum
    challenges,  \* activeChallenges
    seeds,       \* challenges created so far
    inbox,       \* the request of each client that has no answer yet
    free,        \* history: requests of this window let through without a puzzle
    uses         \* history: requests a solution of each seed let through

engineVars == <<windowStart, windowCounts, challenges, seeds, free, uses>>
puzzleVars == <<clock, inbox, engineVars>>


PuzzleInit ==
    /\ clock = 0 /\ windowStart = 0 /\ seeds = 0
    /\ windowCounts = [c \in Client |-> 0]
    /\ challenges = [c \in Client |-> NoChallenge]
    /\ inbox = [c \in Client |-> Idle]
    /\ free = [c \in Client |-> 0]
    /\ uses = [s \in 1..MaxSeed |-> 0]

-----------------------------------------------------------------------------
(* The engine, for one request at one time: what it is before and after.   *)

WindowOver == clock - windowStart >= Window

\* advanceWindowIfNeeded, then the count of recordRequest.
CountedIn(c) ==
    [(IF WindowOver THEN [d \in Client |-> 0] ELSE windowCounts) EXCEPT ![c] = @ + 1]

OpenChallenges == IF WindowOver THEN [d \in Client |-> NoChallenge] ELSE challenges

FreeSoFar == IF WindowOver THEN [d \in Client |-> 0] ELSE free

\* Mutant of IsUnderPressure: judged by the count before this request.
IsUnderPressureEarly(c, counts) == counts[c] > Limit + 1 \/ SumFunction(counts) > 3 * Limit + 1

IsUnderPressure(c, counts) == counts[c] > Limit \/ SumFunction(counts) > 3 * Limit

\* verifyPuzzleSolution: the solution is of the challenge its client now has.
Names(sol, open) ==
    /\ sol # NoSolution
    /\ open[sol.clientId] # NoChallenge
    /\ open[sol.clientId].seed = sol.seed

Solves(sol, open) ==
    Names(sol, open) /\ clock <= open[sol.clientId].expiresAt /\ sol.good

\* Mutant of AfterVerify: a challenge that was solved stays.
AfterVerifyKeeps(sol, open) ==
    IF Names(sol, open) /\ clock > open[sol.clientId].expiresAt
    THEN [open EXCEPT ![sol.clientId] = NoChallenge] ELSE open

\* A challenge that was solved, or found expired, is deleted.
AfterVerify(sol, open) ==
    IF Solves(sol, open) \/ (Names(sol, open) /\ clock > open[sol.clientId].expiresAt)
    THEN [open EXCEPT ![sol.clientId] = NoChallenge] ELSE open

\* Mutant of HasCurrent: every refusal makes a new challenge.
HasCurrentNever(c, open) == FALSE

\* getOrCreateChallenge finds one.
HasCurrent(c, open) == open[c] # NoChallenge /\ open[c].expiresAt > clock

CreateChallenge(c, open) ==
    [open EXCEPT ![c] = [seed |-> seeds + 1, expiresAt |-> clock + Ttl]]

-----------------------------------------------------------------------------
(* Requests *)

Waiting == {c \in Client : inbox[c] # Idle}

\* A client sends a request to a route, with any solution or none.
Send(c, route, sol) ==
    /\ inbox[c] = Idle
    /\ seeds + Cardinality(Waiting) < MaxSeed
    /\ SumFunction(windowCounts) + Cardinality(Waiting) < MaxTotal
    /\ sol # NoSolution => sol.seed <= seeds
    /\ inbox' = [inbox EXCEPT ![c] = [route |-> route, solution |-> sol]]
    /\ UNCHANGED <<clock, engineVars>>

TimePasses ==
    /\ clock < MaxClock
    /\ clock' = clock + 1
    /\ UNCHANGED <<inbox, engineVars>>

\* Every call of the engine: the window first, then the count.
Record(c) ==
    /\ windowStart' = IF WindowOver THEN clock ELSE windowStart
    /\ windowCounts' = CountedIn(c)
    /\ inbox' = [inbox EXCEPT ![c] = Idle]
    /\ UNCHANGED clock

\* The middleware lets a request through: no pressure on its client.
PassFree(c) ==
    /\ inbox[c] # Idle /\ inbox[c].route = "submit"
    /\ ~IsUnderPressure(c, CountedIn(c))
    /\ Record(c)
    /\ challenges' = OpenChallenges
    /\ free' = [FreeSoFar EXCEPT ![c] = @ + 1]
    /\ UNCHANGED <<seeds, uses>>

\* Under pressure it lets through a request with a solution.
PassSolved(c) ==
    LET sol == inbox[c].solution IN
    /\ inbox[c] # Idle /\ inbox[c].route = "submit"
    /\ IsUnderPressure(c, CountedIn(c))
    /\ Solves(sol, OpenChallenges)
    /\ Record(c)
    /\ challenges' = AfterVerify(sol, OpenChallenges)
    /\ uses' = [uses EXCEPT ![sol.seed] = @ + 1]
    /\ free' = FreeSoFar
    /\ UNCHANGED seeds

\* And answers any other with status 429 and the client's challenge.
Challenge(c) ==
    LET sol  == inbox[c].solution
        open == AfterVerify(sol, OpenChallenges)
    IN
    /\ inbox[c] # Idle /\ inbox[c].route = "submit"
    /\ IsUnderPressure(c, CountedIn(c))
    /\ ~Solves(sol, OpenChallenges)
    /\ Record(c)
    /\ challenges' = IF HasCurrent(c, open) THEN open ELSE CreateChallenge(c, open)
    /\ seeds' = IF HasCurrent(c, open) THEN seeds ELSE seeds + 1
    /\ free' = FreeSoFar
    /\ UNCHANGED uses

\* The request of a route that mounts the factory: called, returned, dropped.
FactoryCalled(c) ==
    /\ inbox[c] # Idle /\ inbox[c].route = "lock"
    /\ UNCHANGED puzzleVars

Middleware(c) == PassFree(c) \/ PassSolved(c) \/ Challenge(c) \/ FactoryCalled(c)

PuzzleNext ==
    \/ TimePasses
    \/ \E c \in Client :
        \/ \E r \in Route, sol \in Solution \cup {NoSolution} : Send(c, r, sol)
        \/ Middleware(c)

\* Express runs the middleware of every request that has arrived.
PuzzleSpec ==
    /\ PuzzleInit /\ [][PuzzleNext]_puzzleVars
    /\ \A c \in Client : WF_puzzleVars(Middleware(c))

-----------------------------------------------------------------------------
(* Properties *)

\* Within a window a client gets no more than the limit, and all clients
\* together no more than three times the limit, without paying with a puzzle:
\* the counting of recordRequest, whatever solutions, refusals and windows come
\* between.
FreeAdmissionsBounded ==
    SumFunction(free) <= 3 * Limit /\ \A c \in Client : free[c] <= Limit

\* A solution lets one request through, though anyone may send it again, under
\* any client, before and after its expiry or the end of the window.
SolutionUsedOnce == \A s \in 1..MaxSeed : uses[s] <= 1

\* A client at work on its puzzle is not given another one: until the challenge
\* is solved, expires, or its window ends, no request of its own or of another
\* client changes it.  (getOrCreateChallenge)
ChallengeSurvives ==
    [][\A c \in Client :
        /\ challenges[c] # NoChallenge /\ challenges[c].expiresAt > clock
        /\ windowStart' = windowStart /\ uses' = uses
        => challenges'[c] = challenges[c]]_puzzleVars

\* Every request is answered.  (Refuted: a route that mounts the factory does not.)
RequestsAnswered == \A c \in Client : inbox[c] # Idle ~> inbox[c] = Idle
=============================================================================

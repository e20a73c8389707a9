------------------------------- MODULE SignIn -------------------------------
(* The credential gateway's sign-in: a person submits values on a page, the  *)
(* gateway checks them upstream without a lock and draws a subject for them, *)
(* and the submission that wins the pending request stores them under that   *)
(* subject and gets a code, which buys the token that names it.  Later calls *)
(* are authorised one by one and carry the stored values; an upstream 401    *)
(* forgets them.  Expiries are ticks still to run.                           *)
EXTENDS Integers, FiniteSets, FiniteSetsExt

CONSTANTS
    LoginIds,     \* ids of pending sign-in requests
    Submissions,  \* form submissions
    Jtis,         \* ids of the assertions the authorization server issues
    MaxPending, MaxAttempts, StoreMax,
    RequestTTL, CodeTTL, TokenTTL, StoreTTL,
    MaxSubjects   \* bound: subjects minted

ASSUME SignInAssumption ==
    {MaxPending, MaxAttempts, StoreMax, RequestTTL, CodeTTL, TokenTTL, StoreTTL, MaxSubjects} \subseteq Nat \ {0}

VARIABLES
    requests,   \* pending sign-ins: attempts made, ticks left (0: none)
    forms,      \* submissions: the request they answer, phase and subject
    codes,      \* authorization codes: submission, subject and ticks left
    grants,     \* access tokens: subject and ticks left
    stored,     \* the store: subject, whose values, age rank and ticks left
    minted,     \* subjects minted so far
    calls,      \* calls under way: subject and the values sent upstream
    seen,       \* assertion ids consumed and not yet expired
    commits,    \* request -> submissions that stored values for it
    tries,      \* request -> validations made upstream for it
    redeemed,   \* submission -> how often its code was redeemed
    wrongly     \* was an entry forgotten for an answer to other values?
signInVars == <<requests, forms, codes, grants, stored, minted, calls, seen, commits, tries, redeemed, wrongly>>

NoRequest == [attempts |-> 0, left |-> 0]
NoForm == [id |-> "none", phase |-> "none", subject |-> 0]
SignedIn == 1..MaxSubjects
Ranks == {e.rank : e \in stored}
NextRank == IF stored = {} THEN 1 ELSE Max(Ranks) + 1

SignInInit ==
    /\ requests = [i \in LoginIds |-> NoRequest]
    /\ forms = [f \in Submissions |-> NoForm]
    /\ codes = {} /\ grants = {} /\ stored = {}
    /\ minted = 0
    /\ calls = {} /\ seen = {}
    /\ commits = [i \in LoginIds |-> 0]
    /\ tries = [i \in LoginIds |-> 0]
    /\ redeemed = [f \in Submissions |-> 0]
    /\ wrongly = FALSE

Open(i) == requests[i].left > 0

--------------------------------------------------------------------------------
(* The sign-in page. *)

(* A new request, unless too many are pending.  Ids are random: an id that   *)
(* was used stands for none again.                                           *)
authorize(i) ==
    /\ ~Open(i) /\ tries[i] = 0
    /\ Cardinality({x \in LoginIds : Open(x)}) < MaxPending
    /\ requests' = [requests EXCEPT ![i] = [attempts |-> 0, left |-> RequestTTL]]
    /\ UNCHANGED <<forms, codes, grants, stored, minted, calls, seen, commits, tries, redeemed, wrongly>>

(* An attempt is counted under the lock, before the upstream is asked. *)
Attempt(i) ==
    /\ requests[i].attempts < MaxAttempts
    /\ requests' = [requests EXCEPT ![i].attempts = @ + 1]

approve(f, i) ==
    /\ forms[f] = NoForm /\ Open(i)
    /\ Attempt(i)
    /\ tries' = [tries EXCEPT ![i] = @ + 1]
    /\ forms' = [forms EXCEPT ![f] = [id |-> i, phase |-> "validating", subject |-> 0]]
    /\ UNCHANGED <<codes, grants, stored, minted, calls, seen, commits, redeemed, wrongly>>

(* A random subject for every accepted form, unlike any before it. *)
NewSubject == minted + 1

(* validateForm: the upstream accepts the values, and a subject is drawn for *)
(* them; or it refuses, or is away, or a field was missing to begin with.    *)
validateForm(f) ==
    /\ forms[f].phase = "validating"
    /\ \/ /\ minted < MaxSubjects
          /\ minted' = NewSubject
          /\ forms' = [forms EXCEPT ![f] = [id |-> @.id, phase |-> "accepted", subject |-> NewSubject]]
       \/ /\ forms' = [forms EXCEPT ![f].phase = "refused"]
          /\ UNCHANGED minted
    /\ UNCHANGED <<requests, codes, grants, stored, calls, seen, commits, tries, redeemed, wrongly>>

(* Store.Put: expired entries go, then the oldest until the store fits. *)
Put(s, f) ==
    LET live == {e \in stored : e.left > 0 /\ e.subject # s}
                  \cup {[subject |-> s, values |-> f, rank |-> NextRank, left |-> StoreTTL]}
    IN  IF Cardinality(live) <= StoreMax THEN live
        ELSE live \ {CHOOSE e \in live : \A x \in live : e.rank <= x.rank}

\* Mutant: the request is not looked up again under the lock.
MutWins(f) == TRUE

(* The request is consumed under the lock: only one submission wins it. *)
Wins(f) == Open(forms[f].id)

commit(f) ==
    /\ forms[f].phase = "accepted"
    /\ Wins(f)
    /\ Cardinality(codes) < MaxPending
    /\ stored' = Put(forms[f].subject, f)
    /\ codes' = codes \cup {[subject |-> forms[f].subject, form |-> f, left |-> CodeTTL]}
    /\ requests' = [requests EXCEPT ![forms[f].id].left = 0]
    /\ commits' = [commits EXCEPT ![forms[f].id] = @ + 1]
    /\ forms' = [forms EXCEPT ![f].phase = "done"]
    /\ UNCHANGED <<grants, minted, calls, seen, tries, redeemed, wrongly>>

(* The page is shown again, or the sign-in is over for this submission. *)
giveUp(f) ==
    /\ forms[f].phase \in {"accepted", "refused"}
    /\ forms[f].phase = "accepted" => ~Wins(f) \/ Cardinality(codes) >= MaxPending
    /\ forms' = [forms EXCEPT ![f].phase = "done"]
    /\ UNCHANGED <<requests, codes, grants, stored, minted, calls, seen, commits, tries, redeemed, wrongly>>

(* A code works once. *)
Spend(c) == codes' = codes \ {c}

token(c) ==
    /\ Cardinality(grants) < MaxPending
    /\ Spend(c)
    /\ grants' = grants \cup {[subject |-> c.subject, left |-> TokenTTL]}
    /\ redeemed' = [redeemed EXCEPT ![c.form] = @ + 1]
    /\ UNCHANGED <<requests, forms, stored, minted, calls, seen, commits, tries, wrongly>>

--------------------------------------------------------------------------------
(* Calls. *)

(* An assertion is consumed once; consumed ids are kept until they expire. *)
consume(j) == j \notin seen /\ seen' = seen \cup {j}

(* Authorize spends the assertion, and the handler then reads the store: it  *)
(* sends the values of exactly this subject.  A call that fails on the way   *)
(* (its body, its session id, values that are gone) has spent it all the     *)
(* same.  Spending and reading are one step: no other call can tell.         *)
Authorize(s, j) ==
    /\ \E f \in Submissions : redeemed[f] > 0 /\ forms[f].subject = s
    /\ consume(j)
    /\ \/ UNCHANGED calls
       \/ \E e \in stored : /\ e.subject = s /\ e.left > 0
                            /\ calls' = calls \cup {[subject |-> s, values |-> e.values, jti |-> j]}
    /\ UNCHANGED <<requests, forms, codes, grants, stored, minted, commits, tries, redeemed, wrongly>>

(* The upstream answers (the stream ends, the client leaves) ... *)
finish(c) ==
    /\ calls' = calls \ {c}
    /\ UNCHANGED <<requests, forms, codes, grants, stored, minted, seen, commits, tries, redeemed, wrongly>>

(* ... or rejects the values: the subject's entry is forgotten. *)
rejectedUpstream(c) ==
    /\ calls' = calls \ {c}
    /\ stored' = {e \in stored : e.subject # c.subject}
    /\ wrongly' = (wrongly \/ \E e \in stored : e.subject = c.subject /\ e.values # c.values)
    /\ UNCHANGED <<requests, forms, codes, grants, minted, seen, commits, tries, redeemed>>

(* Time passes; what expired is pruned by the next request that looks. *)
Aged(set) == {[e EXCEPT !.left = @ - 1] : e \in {x \in set : x.left > 1}}
SignInTick ==
    /\ requests' = [i \in LoginIds |-> [requests[i] EXCEPT !.left = IF @ > 0 THEN @ - 1 ELSE 0]]
    /\ codes' = Aged(codes) /\ grants' = Aged(grants) /\ stored' = Aged(stored)
    /\ UNCHANGED <<forms, minted, calls, seen, commits, tries, redeemed, wrongly>>

SignInNext ==
    \/ \E i \in LoginIds : authorize(i) \/ \E f \in Submissions : approve(f, i)
    \/ \E f \in Submissions : validateForm(f) \/ commit(f) \/ giveUp(f)
    \/ \E c \in codes : token(c)
    \/ \E s \in SignedIn, j \in Jtis : Authorize(s, j)
    \/ \E c \in calls : finish(c) \/ rejectedUpstream(c)
    \/ SignInTick

SignInSpec == SignInInit /\ [][SignInNext]_signInVars

--------------------------------------------------------------------------------
(* Counts and lifetimes in range; the store holds no more than it may. *)
SignInTypeOK ==
    /\ \A i \in LoginIds : requests[i].attempts \in 0..MaxAttempts /\ requests[i].left \in 0..RequestTTL
    /\ Cardinality(stored) <= StoreMax
    /\ minted \in 0..MaxSubjects

(* However many submissions of one form run in parallel, one stores values   *)
(* and gets a code, and the upstream is asked no more often than allowed.    *)
OneWinner == \A i \in LoginIds : commits[i] <= 1 /\ tries[i] <= MaxAttempts

(* A code buys one token, and an assertion authorises one call.              *)
SingleUse ==
    /\ \A f \in Submissions : redeemed[f] <= 1
    /\ \A c, d \in calls : c.jti = d.jti => c = d

(* A late rejection of an earlier sign-in's values never forgets the values  *)
(* of a sign-in made since.                                                  *)
NewSignInKept == ~wrongly
(* A sign-in to an upstream happens once: parallel forms have one winner,    *)
(* codes and assertions are spent once, and a late rejection of the old      *)
(* values leaves the new ones alone.                                         *)
SignInSound == SignInTypeOK /\ OneWinner /\ SingleUse /\ NewSignInKept
=============================================================================

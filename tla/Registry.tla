------------------------------ MODULE Registry ------------------------------
(***************************************************************************)
(* What the vendor registry promises to those who read it (db/models.py    *)
(* AdRep, BankMerchantString, AdRepMerchantLink): a set of                 *)
(* representatives, a catalogue of merchant strings, and links between     *)
(* them that never outlive their ends.  A request or a scan asks for some  *)
(* keys, and perhaps for a link.  What it finds is there; what it does not *)
(* find comes in one step, all of it, with the link, or not at all.        *)
(***************************************************************************)
CONSTANTS Emails, Norms, Procs

VARIABLES reps, strings, links,
          open,      \* the requests and scans being served
          missing,   \* missing[p]: the keys p asks for and has not found
          pairing    \* those that ask for a link and have not found it

tables == <<reps, strings, links>>
vars   == <<tables, open, missing, pairing>>

Init ==
    /\ reps = {} /\ strings = {} /\ links = {}
    /\ open = {} /\ missing = [p \in Procs |-> {}] /\ pairing = {}

AtMostOne(S) == \A x, y \in S : x = y

\* Senders, or merchant strings.
Ask(p) ==
    /\ p \notin open /\ open' = open \union {p}
    /\ \E keys \in (SUBSET Emails) \union (SUBSET Norms) :
          missing' = [missing EXCEPT ![p] = keys]
    /\ UNCHANGED <<tables, pairing>>

\* A link of two ends: an end that exists already may be named by its id, and
\* then it is no key to look for.
AskPair(p) ==
    /\ p \notin open /\ open' = open \union {p}
    /\ pairing' = pairing \union {p}
    /\ \E keys \in SUBSET (Emails \union Norms) :
          /\ AtMostOne(keys \intersect Emails) /\ AtMostOne(keys \intersect Norms)
          /\ missing' = [missing EXCEPT ![p] = keys]
    /\ UNCHANGED tables

Find(p, k) ==
    /\ k \in missing[p] \intersect (reps \union strings)
    /\ missing' = [missing EXCEPT ![p] = @ \ {k}]
    /\ UNCHANGED <<tables, open, pairing>>

\* The link was there before, hence so were its ends.  Which ends are meant
\* is known only as far as they are keys that are still missing.
FindPair(p) ==
    /\ p \in pairing /\ pairing' = pairing \ {p}
    /\ missing[p] = {} /\ links # {}
    /\ UNCHANGED <<tables, open, missing>>

Close(p) ==
    /\ p \in open /\ open' = open \ {p}
    /\ pairing' = pairing \ {p}
    /\ missing' = [missing EXCEPT ![p] = {}]

\* Every key that is missing, and no other, and none of them a second time.
Enter(p) ==
    /\ missing[p] \intersect (reps \union strings) = {}
    /\ reps' = reps \union (missing[p] \intersect Emails)
    /\ strings' = strings \union (missing[p] \intersect Norms)

Register(p) == p \notin pairing /\ Close(p) /\ Enter(p) /\ UNCHANGED links

\* A link comes together with the ends that did not exist, and with no other.
Pair(p) ==
    /\ p \in pairing /\ Close(p) /\ Enter(p)
    /\ \E e \in reps', n \in strings' :
          /\ missing[p] \subseteq {e, n}
          /\ <<e, n>> \notin links
          /\ links' = links \union {<<e, n>>}

\* Refused, failed, killed or cancelled: nothing of it stays.
Cancel(p) == Close(p) /\ UNCHANGED tables

DropRep(e) ==
    /\ reps' = reps \ {e}
    /\ links' = {l \in links : l[1] # e}
    /\ UNCHANGED <<strings, open, missing, pairing>>

DropString(n) ==
    /\ strings' = strings \ {n}
    /\ links' = {l \in links : l[2] # n}
    /\ UNCHANGED <<reps, open, missing, pairing>>

Unpair(l) ==
    /\ links' = links \ {l}
    /\ UNCHANGED <<reps, strings, open, missing, pairing>>

\* A new address keeps the links of the representative.
Readdress(e, f) ==
    /\ e \in reps /\ f \notin reps
    /\ reps' = (reps \ {e}) \union {f}
    /\ links' = {<<IF l[1] = e THEN f ELSE l[1], l[2]>> : l \in links}
    /\ UNCHANGED <<strings, open, missing, pairing>>

Serve(p) ==
    \/ Ask(p) \/ AskPair(p)
    \/ FindPair(p) \/ \E k \in Emails \union Norms : Find(p, k)
    \/ Register(p) \/ Pair(p) \/ Cancel(p)

Next ==
    \/ \E p \in Procs : Serve(p)
    \/ \E e \in Emails : DropRep(e)
    \/ \E n \in Norms : DropString(n)
    \/ \E l \in links : Unpair(l)
    \/ \E e, f \in Emails : Readdress(e, f)

Spec == Init /\ [][Next]_vars
=============================================================================

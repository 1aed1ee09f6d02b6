------------------------------ MODULE Pairing ------------------------------
(***************************************************************************)
(* Who is signed in as a learner: bearer tokens, and the one-time codes    *)
(* that move a learner from one device to another. Each request is split   *)
(* where its handler awaits the database, and its answer may be lost.      *)
(*                                                                         *)
(* A token is 256 random bits, a code 40: both are modelled as fresh. The  *)
(* token of a learner is its generation, 0 for the one join_session gave.  *)
(***************************************************************************)
EXTENDS Integers

CONSTANTS
    Learners,   \* participants, already joined
    Devices,    \* browsers: one localStorage each, shared by its tabs
    Home,       \* Home[l]: the device on which l joined
    Requests,   \* slots for in-flight requests
    Ttl,        \* PAIRING_CODE_TTL_SECS
    LastSecond, \* bound: the last second the clock reaches
    MaxCodes,   \* bound: pairing codes issued
    MaxFaults,  \* bound: failed statements, dropped handlers, lost answers
    None        \* no credentials, no learner

ASSUME ConstantsAssumption ==
    /\ Home \in [Learners -> Devices]
    /\ \A l, m \in Learners : Home[l] = Home[m] => l = m
    /\ Ttl \in Nat /\ LastSecond \in Nat /\ MaxCodes \in Nat /\ MaxFaults \in Nat
    /\ Devices # {}
    /\ None \notin Learners \cup [who : Learners, gen : Nat]

VARIABLES
    second,    \* the server's clock
    token,     \* participants.auth_token_hash: the generation that resolves
    codes,     \* pairing_codes: rows, and the generation that asked for them
    nextCode,  \* the next fresh code
    device,    \* the credentials in each device's localStorage, or None
    shown,     \* codes that were displayed on the device that asked
    req,       \* the local variables of each request
    redeemed,  \* history: how often each code was redeemed
    lost,      \* history: tokens whose answer never arrived
    wiped,     \* history: tokens the learner removed from a device
    faults     \* history: faults so far, for MaxFaults

vars == <<second, token, codes, nextCode, device, shown, req, redeemed, lost, wiped, faults>>

Codes == 1..MaxCodes
Mistyped == 0  \* a code that was never issued
Tokens == [who : Learners, gen : Nat]
Credentials(l, gen) == [who |-> l, gen |-> gen]

Stages == {"idle", "auth", "create", "created", "redeem", "load", "ok", "failed"}

Idle == [pc |-> "idle", device |-> CHOOSE d \in Devices : TRUE, who |-> None,
         gen |-> 0, code |-> Mistyped, stamp |-> 0]

-----------------------------------------------------------------------------
Init ==
    /\ second = 0
    /\ token = [l \in Learners |-> 0]
    /\ codes = {}
    /\ nextCode = 1
    /\ device = [d \in Devices |->
                    IF \E l \in Learners : Home[l] = d
                    THEN Credentials(CHOOSE l \in Learners : Home[l] = d, 0)
                    ELSE None]
    /\ shown = {}
    /\ req = [r \in Requests |-> Idle]
    /\ redeemed = [c \in Codes |-> 0]
    /\ lost = {} /\ wiped = {} /\ faults = 0

At(r, pc) == req[r].pc = pc

\* Only r's local variables change.
Local(r, state) ==
    /\ req' = [req EXCEPT ![r] = state]
    /\ UNCHANGED <<second, token, codes, nextCode, device, shown, redeemed, lost, wiped, faults>>

Fault == faults < MaxFaults /\ faults' = faults + 1

\* The token that r would carry to its device.
Carried(r) == Credentials(req[r].who, req[r].gen)
Carries(r) == req[r].pc \in {"load", "ok"}

-----------------------------------------------------------------------------
(* POST /api/participants/me/pairing-code.                                 *)

\* The handler's generate_pairing_code is a fresh code: it is drawn here.
AskCode(r, d) ==
    /\ At(r, "idle") /\ device[d] # None /\ nextCode <= MaxCodes
    /\ req' = [req EXCEPT ![r] = [Idle EXCEPT !.pc = "auth", !.device = d, !.code = nextCode,
                                              !.who = device[d].who, !.gen = device[d].gen]]
    /\ nextCode' = nextCode + 1
    /\ UNCHANGED <<second, token, codes, device, shown, redeemed, lost, wiped, faults>>

\* require_participant looks the token up; the handler then reads the clock
\* and waits for the write lock, without looking again.
Authenticate(r) ==
    /\ At(r, "auth") /\ token[req[r].who] = req[r].gen
    /\ Local(r, [req[r] EXCEPT !.pc = "create", !.stamp = second])

Unauthorized(r) ==
    /\ At(r, "auth") /\ token[req[r].who] # req[r].gen
    /\ Local(r, [req[r] EXCEPT !.pc = "failed"])

NewRow(r) ==
    [code |-> req[r].code, who |-> req[r].who, expires |-> req[r].stamp + Ttl]

\* One transaction: DELETE the learner's codes, INSERT the new one.
Create(r) ==
    /\ At(r, "create")
    /\ codes' = {c \in codes : c.who # req[r].who} \cup {NewRow(r)}
    /\ req' = [req EXCEPT ![r].pc = "created"]
    /\ UNCHANGED <<second, token, nextCode, device, shown, redeemed, lost, wiped, faults>>

ShowCode(r) ==
    /\ At(r, "created")
    /\ shown' = shown \cup {req[r].code}
    /\ req' = [req EXCEPT ![r] = Idle]
    /\ UNCHANGED <<second, token, codes, nextCode, device, redeemed, lost, wiped, faults>>

-----------------------------------------------------------------------------
(* POST /api/participants/pair.                                            *)

\* The clock is read before the handler waits for the write lock.
TypeCode(r, d, c) ==
    /\ At(r, "idle")
    /\ Local(r, [Idle EXCEPT !.pc = "redeem", !.device = d, !.code = c, !.stamp = second])

\* The rows that survive the sweep and the filter, which complement each
\* other: `expires_at < now` goes, `expires_at >= now` matches.
Matches(r, c) == c.code = req[r].code /\ c.expires >= req[r].stamp

Redemption(r, c, remaining, gen) ==
    /\ codes' = remaining
    /\ token' = [token EXCEPT ![c.who] = gen]
    /\ req' = [req EXCEPT ![r].pc = "load", ![r].who = c.who, ![r].gen = gen]
    /\ redeemed' = [redeemed EXCEPT ![c.code] = @ + 1]
    /\ UNCHANGED <<second, nextCode, device, shown, lost, wiped, faults>>

Unexpired(r) == {o \in codes : o.expires >= req[r].stamp}

\* Faulty: the code is left for another use.
RedeemKeepsCode(r) ==
    /\ At(r, "redeem")
    /\ \E c \in codes :
          /\ Matches(r, c)
          /\ Redemption(r, c, Unexpired(r), token[c.who] + 1)

\* Faulty: the new token is handed out but never stored.
RedeemWithoutUpdate(r) ==
    /\ At(r, "redeem")
    /\ \E c \in codes :
          /\ Matches(r, c)
          /\ codes' = Unexpired(r) \ {c}
          /\ req' = [req EXCEPT ![r].pc = "load", ![r].who = c.who,
                               ![r].gen = token[c.who] + 1]
          /\ redeemed' = [redeemed EXCEPT ![c.code] = @ + 1]
    /\ UNCHANGED <<second, token, nextCode, device, shown, lost, wiped, faults>>

\* Faulty: hands out the learner's token instead of a new one.
RedeemWithoutRotation(r) ==
    /\ At(r, "redeem")
    /\ \E c \in codes :
          /\ Matches(r, c)
          /\ Redemption(r, c, Unexpired(r) \ {c}, token[c.who])

\* One transaction: sweep, look up, DELETE the code, rotate the token.
Redeem(r) ==
    /\ At(r, "redeem")
    /\ \E c \in codes :
          /\ Matches(r, c)
          /\ Redemption(r, c, Unexpired(r) \ {c}, token[c.who] + 1)

\* Faulty: checks the expiry only after the rotation has been committed.
RefuseAfterRotation(r) ==
    /\ At(r, "redeem") /\ ~ \E c \in codes : Matches(r, c)
    /\ token' = [l \in Learners |->
                    IF \E c \in codes : c.code = req[r].code /\ c.who = l
                    THEN token[l] + 1 ELSE token[l]]
    /\ req' = [req EXCEPT ![r].pc = "failed"]
    /\ UNCHANGED <<second, codes, nextCode, device, shown, redeemed, lost, wiped, faults>>

\* Unknown, used, superseded or expired. The transaction is dropped, and the
\* sweep is rolled back with it.
Refuse(r) ==
    /\ At(r, "redeem") /\ ~ \E c \in codes : Matches(r, c)
    /\ Local(r, [req[r] EXCEPT !.pc = "failed"])

\* load_participant after the commit: the answer needs it.
Load(r) ==
    /\ At(r, "load")
    /\ Local(r, [req[r] EXCEPT !.pc = "ok"])

\* redeemPairingCode stores the credentials over those the device had.
SignIn(r) ==
    /\ At(r, "ok")
    /\ device' = [device EXCEPT ![req[r].device] = Carried(r)]
    /\ wiped' = wiped \cup ({device[req[r].device]} \ {None})
    /\ req' = [req EXCEPT ![r] = Idle]
    /\ UNCHANGED <<second, token, codes, nextCode, shown, redeemed, lost, faults>>

-----------------------------------------------------------------------------
(* Failures, and the rest of the world.                                    *)

\* A transaction or the read after it fails. After the commit of a redeem
\* the new token is gone with the handler's variables.
DatabaseFails(r) ==
    /\ req[r].pc \in {"auth", "create", "redeem", "load"}
    /\ Fault
    /\ lost' = IF At(r, "load") THEN lost \cup {Carried(r)} ELSE lost
    /\ req' = [req EXCEPT ![r].pc = "failed"]
    /\ UNCHANGED <<second, token, codes, nextCode, device, shown, redeemed, wiped>>

ShowError(r) ==
    /\ At(r, "failed")
    /\ Local(r, Idle)

\* The router's timeout, a crash, or a connection that breaks.
Drop(r) ==
    /\ ~At(r, "idle")
    /\ Fault
    /\ lost' = IF Carries(r) THEN lost \cup {Carried(r)} ELSE lost
    /\ req' = [req EXCEPT ![r] = Idle]
    /\ UNCHANGED <<second, token, codes, nextCode, device, shown, redeemed, wiped>>

\* "Exit", "Start fresh" or a new start: the device forgets its credentials.
Exit(d) ==
    /\ device[d] # None
    /\ device' = [device EXCEPT ![d] = None]
    /\ wiped' = wiped \cup {device[d]}
    /\ UNCHANGED <<second, token, codes, nextCode, shown, req, redeemed, lost, faults>>

Tick ==
    /\ second < LastSecond
    /\ second' = second + 1
    /\ UNCHANGED <<token, codes, nextCode, device, shown, req, redeemed, lost, wiped, faults>>

-----------------------------------------------------------------------------
Ask(r) == \E d \in Devices : AskCode(r, d) \/ \E c \in shown \cup {Mistyped} : TypeCode(r, d, c)

Handle(r) ==
    \/ Authenticate(r) \/ Unauthorized(r) \/ Create(r)
    \/ Redeem(r) \/ Refuse(r) \/ Load(r)

Answer(r) == ShowCode(r) \/ SignIn(r) \/ ShowError(r)

Next ==
    \/ \E r \in Requests : Ask(r) \/ Handle(r) \/ Answer(r) \/ DatabaseFails(r) \/ Drop(r)
    \/ \E d \in Devices : Exit(d)
    \/ Tick

Spec == Init /\ [][Next]_vars

-----------------------------------------------------------------------------
(* Properties.                                                             *)

Row == [code : Codes, who : Learners, expires : Nat]

Request == [pc : Stages, device : Devices, who : Learners \cup {None},
            gen : Nat, code : Codes \cup {Mistyped}, stamp : Nat]

RequestOK(x) ==
    /\ x.pc \in {"auth", "create", "created", "load", "ok"} => x.who \in Learners
    /\ x.pc \in {"auth", "create", "created"} => x.code \in Codes

\* Every variable keeps its type, and nobody holds or brings a token newer
\* than the one that resolves.
TypeOK ==
    /\ second \in 0..LastSecond
    /\ token \in [Learners -> Nat]
    /\ codes \subseteq Row
    /\ nextCode \in 1..(MaxCodes + 1)
    /\ device \in [Devices -> Tokens \cup {None}]
    /\ shown \subseteq Codes
    /\ req \in [Requests -> Request]
    /\ \A r \in Requests : RequestOK(req[r])
    /\ redeemed \in [Codes -> Nat]
    /\ lost \subseteq Tokens /\ wiped \subseteq Tokens
    /\ faults \in 0..MaxFaults
    /\ \A d \in Devices : device[d] # None => device[d].gen <= token[device[d].who]
    /\ \A r \in Requests : Carries(r) => req[r].gen <= token[req[r].who]

\* A code signs in one device at most, however many requests carry it.
SingleUse == \A c \in Codes : redeemed[c] <= 1

\* A learner has one code at most that still works: asking again, on any
\* device, kills the previous one. A redeemed code is dead.
OneActiveCode ==
    /\ \A c, e \in codes : c.who = e.who => c = e
    /\ \A c \in codes : redeemed[c.code] = 0 /\ c.code < nextCode

Holds(d, l) == device[d] # None /\ device[d] = Credentials(l, token[l])
Brings(r, l) == Carries(r) /\ Carried(r) = Credentials(l, token[l])

\* A hand-off moves the learner: the token that resolves is on one device, or
\* on its way to one, never on two.
OneDevice ==
    \A l \in Learners :
        /\ \A d, e \in Devices : Holds(d, l) /\ Holds(e, l) => d = e
        /\ \A r, q \in Requests : Brings(r, l) /\ Brings(q, l) => r = q
        /\ \A d \in Devices, r \in Requests : ~(Holds(d, l) /\ Brings(r, l))

\* Nobody is signed out by a refused code, a rejected request or a race: if
\* no device can act as the learner, an answer was lost after its commit or a
\* device was told to forget the token.
SignedInSomewhere ==
    \A l \in Learners :
        \/ \E d \in Devices : Holds(d, l)
        \/ \E r \in Requests : Brings(r, l)
        \/ Credentials(l, token[l]) \in lost \cup wiped

=============================================================================

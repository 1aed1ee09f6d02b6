--------------------------- MODULE PairingProofs ---------------------------
(***************************************************************************)
(* What Pairing guarantees for every number of learners, devices, requests *)
(* and codes, every lifetime of a code and any number of faults.           *)
(***************************************************************************)
EXTENDS Pairing, TLAPS

-----------------------------------------------------------------------------
(* Type correctness.                                                       *)

LEMMA Bounds == Ttl \in Nat /\ LastSecond \in Nat /\ MaxCodes \in Nat /\ MaxFaults \in Nat
  BY ConstantsAssumption

LEMMA IdleType == Idle \in Request /\ RequestOK(Idle) /\ Idle.pc = "idle"
  BY ConstantsAssumption DEF Idle, Request, RequestOK, Stages, Mistyped

\* A step that replaces one request by a well-formed one keeps the requests.
LEMMA RequestsType ==
    ASSUME TypeOK, NEW r \in Requests, NEW x \in Request, RequestOK(x),
           req' = [req EXCEPT ![r] = x]
    PROVE  /\ req' \in [Requests -> Request]
           /\ \A q \in Requests : RequestOK(req'[q])
           /\ req'[r] = x
           /\ \A q \in Requests \ {r} : req'[q] = req[q]
  BY DEF TypeOK

\* Moving on to pc keeps the request well-formed where pc asks for no more
\* than the request holds.
LEMMA GoToType ==
    ASSUME TypeOK, NEW r \in Requests, NEW pc \in Stages,
           req' = [req EXCEPT ![r].pc = pc],
           RequestOK([req[r] EXCEPT !.pc = pc])
    PROVE  /\ req' \in [Requests -> Request]
           /\ \A q \in Requests : RequestOK(req'[q])
           /\ req' = [req EXCEPT ![r] = [req[r] EXCEPT !.pc = pc]]
<1>1. [req[r] EXCEPT !.pc = pc] \in Request
  BY DEF TypeOK, Request
<1>2. req' = [req EXCEPT ![r] = [req[r] EXCEPT !.pc = pc]]
  BY DEF TypeOK
<1> QED
  BY <1>1, <1>2, RequestsType

\* A request that starts to carry a token brings one that is not too new.
LEMMA LocalType ==
    ASSUME TypeOK, NEW r \in Requests, NEW x \in Request, RequestOK(x), Local(r, x),
           x.pc \in {"load", "ok"} => x.gen <= token[x.who]
    PROVE  TypeOK'
<1>1. /\ req' \in [Requests -> Request]
      /\ \A q \in Requests : RequestOK(req'[q])
      /\ req'[r] = x
      /\ \A q \in Requests \ {r} : req'[q] = req[q]
  BY RequestsType DEF Local
<1> QED
  BY <1>1 DEF TypeOK, Local, RequestOK, Carries

LEMMA ClockType == TypeOK => second \in Nat
  BY Bounds DEF TypeOK

LEMMA InitType == Init => TypeOK
<1> SUFFICES ASSUME Init PROVE TypeOK
  OBVIOUS
<1>1. /\ second \in 0..LastSecond /\ faults \in 0..MaxFaults
      /\ nextCode \in 1..(MaxCodes + 1)
  <2>1. second = 0 /\ faults = 0 /\ nextCode = 1
    BY DEF Init
  <2> QED
    BY <2>1, Bounds
<1>2. /\ req \in [Requests -> Request] /\ \A r \in Requests : RequestOK(req[r])
      /\ \A r \in Requests : ~Carries(r)
  BY IdleType DEF Init, Carries
<1>3. /\ device \in [Devices -> Tokens \cup {None}]
      /\ \A d \in Devices : device[d] # None => device[d].gen = 0 /\ device[d].who \in Learners
  BY DEF Init, Tokens, Credentials
<1>4. /\ token \in [Learners -> Nat] /\ \A l \in Learners : token[l] = 0
      /\ codes \subseteq Row /\ shown \subseteq Codes
      /\ redeemed \in [Codes -> Nat]
      /\ lost \subseteq Tokens /\ wiped \subseteq Tokens
  BY DEF Init
<1> QED
  BY <1>1, <1>2, <1>3, <1>4 DEF TypeOK

LEMMA AskType ==
    ASSUME TypeOK, NEW r \in Requests, Ask(r)
    PROVE  TypeOK'
<1> PICK d \in Devices : AskCode(r, d) \/ \E c \in shown \cup {Mistyped} : TypeCode(r, d, c)
  BY DEF Ask
<1>1. CASE AskCode(r, d)
  <2> DEFINE x == [Idle EXCEPT !.pc = "auth", !.device = d, !.code = nextCode,
                               !.who = device[d].who, !.gen = device[d].gen]
  <2>1. nextCode \in Codes /\ nextCode + 1 \in 1..(MaxCodes + 1)
    BY <1>1, Bounds DEF AskCode, TypeOK, Codes
  <2>2. device[d].who \in Learners /\ device[d].gen \in Nat
    BY <1>1 DEF AskCode, TypeOK, Tokens
  <2>3. x \in Request /\ RequestOK(x) /\ x.pc = "auth"
    BY <2>1, <2>2 DEF Idle, Request, RequestOK, Stages
  <2> HIDE DEF x
  <2>4. req' = [req EXCEPT ![r] = x]
    BY <1>1 DEF AskCode, x
  <2>5. /\ req' \in [Requests -> Request]
        /\ \A q \in Requests : RequestOK(req'[q])
        /\ req'[r] = x
        /\ \A q \in Requests \ {r} : req'[q] = req[q]
    BY <2>3, <2>4, RequestsType
  <2> QED
    BY <1>1, <2>1, <2>3, <2>5 DEF AskCode, TypeOK, RequestOK, Carries
<1>2. ASSUME NEW c \in shown \cup {Mistyped}, TypeCode(r, d, c)
      PROVE  TypeOK'
  <2> DEFINE x == [Idle EXCEPT !.pc = "redeem", !.device = d, !.code = c, !.stamp = second]
  <2>1. x \in Request /\ RequestOK(x) /\ x.pc = "redeem"
    BY ClockType, IdleType DEF Idle, Request, RequestOK, Stages, TypeOK
  <2> HIDE DEF x
  <2>2. Local(r, x)
    BY <1>2 DEF TypeCode, x
  <2> QED
    BY <2>1, <2>2, LocalType
<1> QED
  BY <1>1, <1>2

\* What a redemption leaves behind: the code's learner has a new token, and r
\* carries it.
LEMMA RedemptionType ==
    ASSUME TypeOK, NEW r \in Requests, NEW c \in codes,
           Redemption(r, c, Unexpired(r) \ {c}, token[c.who] + 1)
    PROVE  /\ TypeOK'
           /\ c.who \in Learners /\ c.code \in Codes
           /\ token' = [token EXCEPT ![c.who] = @ + 1]
           /\ req'[r].pc = "load" /\ req'[r].who = c.who /\ req'[r].gen = token'[c.who]
           /\ \A q \in Requests \ {r} : req'[q] = req[q]
<1> DEFINE gen == token[c.who] + 1
           x == [req[r] EXCEPT !.pc = "load", !.who = c.who, !.gen = gen]
<1>1. /\ c.who \in Learners /\ c.code \in Codes
      /\ token[c.who] \in Nat /\ gen \in Nat
  BY DEF TypeOK, Row
<1> HIDE DEF gen
<1>2. /\ x \in Request /\ RequestOK(x)
      /\ x.pc = "load" /\ x.who = c.who /\ x.gen = gen
  BY <1>1 DEF TypeOK, Request, RequestOK, Stages
<1>3. req' = [req EXCEPT ![r] = x]
  BY DEF Redemption, TypeOK, gen
<1> HIDE DEF x
<1>4. /\ req' \in [Requests -> Request]
      /\ \A q \in Requests : RequestOK(req'[q])
      /\ req'[r] = x
      /\ \A q \in Requests \ {r} : req'[q] = req[q]
  BY <1>2, <1>3, RequestsType
<1>5. /\ token' = [token EXCEPT ![c.who] = @ + 1]
      /\ token' \in [Learners -> Nat]
      /\ token'[c.who] = gen
      /\ \A l \in Learners : token[l] <= token'[l]
  BY <1>1 DEF Redemption, TypeOK, gen
<1>6. codes' \subseteq Row /\ redeemed' \in [Codes -> Nat]
  BY <1>1 DEF Redemption, Unexpired, TypeOK
<1>7. \A d \in Devices : device'[d] # None => device'[d].gen <= token'[device'[d].who]
  BY <1>5 DEF Redemption, TypeOK, Tokens
<1>8. \A q \in Requests : Carries(q)' => req'[q].gen <= token'[req'[q].who]
  <2> SUFFICES ASSUME NEW q \in Requests, req'[q].pc \in {"load", "ok"}
               PROVE  req'[q].gen <= token'[req'[q].who]
    BY DEF Carries
  <2>1. CASE q = r
    BY <1>2, <1>4, <1>5, <2>1 DEF TypeOK
  <2>2. CASE q # r
    <3>1. req'[q] = req[q] /\ req[q].who \in Learners /\ req[q].gen \in Nat
      BY <1>4, <2>2 DEF TypeOK, RequestOK, Request
    <3>2. req[q].gen <= token[req[q].who]
      BY <3>1 DEF TypeOK, Carries
    <3> QED
      BY <3>1, <3>2, <1>5 DEF TypeOK
  <2> QED
    BY <2>1, <2>2
<1>9. TypeOK'
  BY <1>4, <1>5, <1>6, <1>7, <1>8 DEF TypeOK, Redemption
<1> QED
  BY <1>1, <1>2, <1>4, <1>5, <1>9

LEMMA HandleType ==
    ASSUME TypeOK, NEW r \in Requests, Handle(r)
    PROVE  TypeOK'
<1> USE DEF At
<1>1. CASE Authenticate(r)
  <2> DEFINE x == [req[r] EXCEPT !.pc = "create", !.stamp = second]
  <2>1. x \in Request /\ RequestOK(x) /\ x.pc = "create"
    BY <1>1, ClockType DEF Authenticate, TypeOK, Request, RequestOK, Stages
  <2> HIDE DEF x
  <2>2. Local(r, x)
    BY <1>1 DEF Authenticate, x
  <2> QED
    BY <2>1, <2>2, LocalType
<1>2. ASSUME Local(r, [req[r] EXCEPT !.pc = "failed"])
      PROVE  TypeOK'
  <2> DEFINE x == [req[r] EXCEPT !.pc = "failed"]
  <2>1. x \in Request /\ RequestOK(x) /\ x.pc = "failed"
    BY DEF TypeOK, Request, RequestOK, Stages
  <2> HIDE DEF x
  <2>2. Local(r, x)
    BY <1>2 DEF x
  <2> QED
    BY <2>1, <2>2, LocalType
<1>3. CASE Create(r)
  <2>1. /\ RequestOK([req[r] EXCEPT !.pc = "created"])
        /\ NewRow(r) \in Row
    BY <1>3, Bounds DEF Create, TypeOK, Request, RequestOK, NewRow, Row
  <2>2. /\ req' \in [Requests -> Request]
        /\ \A q \in Requests : RequestOK(req'[q])
        /\ req' = [req EXCEPT ![r] = [req[r] EXCEPT !.pc = "created"]]
    BY <1>3, <2>1, GoToType DEF Create, Stages
  <2>3. codes' \subseteq Row
    BY <1>3, <2>1 DEF Create, TypeOK
  <2> QED
    BY <1>3, <2>2, <2>3 DEF Create, TypeOK, Request, RequestOK, Carries
<1>4. CASE Redeem(r)
  BY <1>4, RedemptionType DEF Redeem
<1>5. CASE Load(r)
  <2> DEFINE x == [req[r] EXCEPT !.pc = "ok"]
  <2>1. /\ x \in Request /\ RequestOK(x) /\ x.gen <= token[x.who]
    BY <1>5 DEF Load, TypeOK, Request, RequestOK, Stages, Carries
  <2> HIDE DEF x
  <2>2. Local(r, x)
    BY <1>5 DEF Load, x
  <2> QED
    BY <2>1, <2>2, LocalType
<1> QED
  BY <1>1, <1>2, <1>3, <1>4, <1>5 DEF Handle, Unauthorized, Refuse

\* Answers and failures. The credentials of a request reach a device or are
\* lost; a request that ends is idle again.
LEMMA CarriedType ==
    ASSUME TypeOK, NEW r \in Requests, Carries(r)
    PROVE  /\ Carried(r) \in Tokens
           /\ Carried(r).who = req[r].who /\ Carried(r).gen = req[r].gen
           /\ req[r].gen <= token[req[r].who]
  BY DEF TypeOK, Carries, Carried, Credentials, Tokens, Request, RequestOK

LEMMA EndType ==
    ASSUME TypeOK, NEW r \in Requests, req' = [req EXCEPT ![r] = Idle]
    PROVE  /\ req' \in [Requests -> Request]
           /\ \A q \in Requests : RequestOK(req'[q])
           /\ \A q \in Requests : Carries(q)' => Carries(q) /\ req'[q] = req[q]
           /\ ~Carries(r)'
           /\ \A q \in Requests \ {r} : req'[q] = req[q]
  BY IdleType, RequestsType DEF Carries

LEMMA AnswerType ==
    ASSUME TypeOK, NEW r \in Requests, Answer(r)
    PROVE  TypeOK'
<1> USE DEF At
<1>1. req' = [req EXCEPT ![r] = Idle]
  BY DEF Answer, ShowCode, SignIn, ShowError, Local
<1>2. /\ req' \in [Requests -> Request]
      /\ \A q \in Requests : RequestOK(req'[q])
      /\ \A q \in Requests : Carries(q)' => Carries(q) /\ req'[q] = req[q]
  BY <1>1, EndType
<1>3. CASE ShowCode(r)
  <2>1. req[r].code \in Codes
    BY <1>3 DEF ShowCode, TypeOK, RequestOK
  <2> QED
    BY <1>2, <1>3, <2>1 DEF ShowCode, TypeOK
<1>4. CASE SignIn(r)
  <2>1. /\ Carried(r) \in Tokens
        /\ Carried(r).gen <= token[Carried(r).who]
    BY <1>4, CarriedType DEF SignIn, Carries
  <2>2. req[r].device \in Devices
    BY DEF TypeOK, Request
  <2>3. /\ device' \in [Devices -> Tokens \cup {None}]
        /\ wiped' \subseteq Tokens
        /\ \A d \in Devices : device'[d] # None => device'[d].gen <= token[device'[d].who]
    BY <1>4, <2>1, <2>2 DEF SignIn, TypeOK
  <2> QED
    BY <1>2, <1>4, <2>3 DEF SignIn, TypeOK
<1>5. CASE ShowError(r)
  BY <1>2, <1>5 DEF ShowError, Local, TypeOK
<1> QED
  BY <1>3, <1>4, <1>5 DEF Answer

LEMMA FailType ==
    ASSUME TypeOK, NEW r \in Requests, DatabaseFails(r) \/ Drop(r)
    PROVE  TypeOK'
<1> USE DEF At
<1>1. faults' \in 0..MaxFaults
  BY Bounds DEF DatabaseFails, Drop, Fault, TypeOK
<1>2. lost' \subseteq Tokens
  BY CarriedType DEF DatabaseFails, Drop, Carries, TypeOK
<1>3. CASE DatabaseFails(r)
  <2>1. RequestOK([req[r] EXCEPT !.pc = "failed"])
    BY DEF TypeOK, Request, RequestOK
  <2>2. /\ req' \in [Requests -> Request]
        /\ \A q \in Requests : RequestOK(req'[q])
        /\ req' = [req EXCEPT ![r] = [req[r] EXCEPT !.pc = "failed"]]
    BY <1>3, <2>1, GoToType DEF DatabaseFails, Stages
  <2>3. \A q \in Requests : Carries(q)' => Carries(q) /\ req'[q] = req[q]
    BY <2>2 DEF Carries, TypeOK, Request
  <2> QED
    BY <1>1, <1>2, <1>3, <2>2, <2>3 DEF DatabaseFails, TypeOK
<1>4. CASE Drop(r)
  <2>1. /\ req' \in [Requests -> Request]
        /\ \A q \in Requests : RequestOK(req'[q])
        /\ \A q \in Requests : Carries(q)' => Carries(q) /\ req'[q] = req[q]
    BY <1>4, EndType DEF Drop
  <2> QED
    BY <1>1, <1>2, <1>4, <2>1 DEF Drop, TypeOK
<1> QED
  BY <1>3, <1>4

LEMMA StepType == TypeOK /\ [Next]_vars => TypeOK'
<1> SUFFICES ASSUME TypeOK, [Next]_vars PROVE TypeOK'
  OBVIOUS
<1>1. ASSUME NEW r \in Requests,
             Ask(r) \/ Handle(r) \/ Answer(r) \/ DatabaseFails(r) \/ Drop(r)
      PROVE  TypeOK'
  BY <1>1, AskType, HandleType, AnswerType, FailType
<1>2. ASSUME NEW d \in Devices, Exit(d)
      PROVE  TypeOK'
  BY <1>2 DEF Exit, TypeOK, Carries
<1>3. CASE Tick
  BY <1>3, Bounds DEF Tick, TypeOK, Carries
<1>4. CASE UNCHANGED vars
  BY <1>4 DEF vars, TypeOK, Carries
<1> QED
  BY <1>1, <1>2, <1>3, <1>4 DEF Next

\* Every variable keeps its type, and no device or answer holds a token newer
\* than the one the server resolves, whatever is minted, redeemed or lost.
THEOREM TypeCorrect == Spec => []TypeOK
  BY InitType, StepType, PTL DEF Spec

-----------------------------------------------------------------------------
(* Who is signed in. Both properties are inductive given TypeOK: nobody    *)
(* holds the token a redemption is about to make.                          *)

LEMMA InitHolds ==
    ASSUME Init, NEW l \in Learners
    PROVE  /\ Home[l] \in Devices
           /\ \A d \in Devices : Holds(d, l) <=> d = Home[l]
           /\ \A r \in Requests : ~Carries(r)
<1>1. Home[l] \in Devices
  BY ConstantsAssumption
<1>2. \A d \in Devices : d # Home[l] => ~Holds(d, l)
  <2> SUFFICES ASSUME NEW d \in Devices, d # Home[l] PROVE ~Holds(d, l)
    OBVIOUS
  <2>1. CASE \E m \in Learners : Home[m] = d
    <3>1. PICK m \in Learners : Home[m] = d /\ m = CHOOSE n \in Learners : Home[n] = d
      BY <2>1
    <3>2. device[d] = Credentials(m, 0) /\ m # l
      BY <2>1, <3>1 DEF Init
    <3> QED
      BY <3>2 DEF Holds, Credentials
  <2>2. CASE ~ \E m \in Learners : Home[m] = d
    BY <2>2 DEF Holds, Init
  <2> QED
    BY <2>1, <2>2
<1>3. Holds(Home[l], l)
  <2>1. l = CHOOSE n \in Learners : Home[n] = Home[l]
    BY ConstantsAssumption
  <2>2. device[Home[l]] = Credentials(l, 0) /\ token[l] = 0
    BY <1>1, <2>1 DEF Init
  <2>3. Credentials(l, 0) \in [who : Learners, gen : Nat]
    BY DEF Credentials
  <2> QED
    BY <2>2, <2>3, ConstantsAssumption DEF Holds
<1>4. \A r \in Requests : ~Carries(r)
  BY IdleType DEF Init, Carries
<1> QED
  BY <1>1, <1>2, <1>3, <1>4

\* A redemption puts the learner's new token on the way of r, and nowhere
\* else; other learners do not notice.
LEMMA RedeemMoves ==
    ASSUME TypeOK, NEW r \in Requests, NEW c \in codes, At(r, "redeem"),
           Redemption(r, c, Unexpired(r) \ {c}, token[c.who] + 1), NEW l \in Learners
    PROVE  /\ l = c.who => /\ Brings(r, l)'
                           /\ \A d \in Devices : ~Holds(d, l)'
                           /\ \A q \in Requests : q # r => ~Brings(q, l)'
           /\ l # c.who => /\ ~Brings(r, l)'
                           /\ Credentials(l, token[l])' = Credentials(l, token[l])
                           /\ \A d \in Devices : Holds(d, l)' <=> Holds(d, l)
                           /\ \A q \in Requests : q # r => (Brings(q, l)' <=> Brings(q, l))
           /\ ~Brings(r, l)
<1> DEFINE gen == token[c.who] + 1
<1>1. /\ TypeOK' /\ c.who \in Learners
      /\ token' = [token EXCEPT ![c.who] = @ + 1]
      /\ req'[r].pc = "load" /\ req'[r].who = c.who /\ req'[r].gen = token'[c.who]
      /\ \A q \in Requests \ {r} : req'[q] = req[q]
      /\ device' = device
  BY RedemptionType DEF Redemption
<1>2. /\ token \in [Learners -> Nat]
      /\ token'[c.who] = token[c.who] + 1
      /\ \A m \in Learners : m # c.who => token'[m] = token[m]
  BY <1>1 DEF TypeOK
<1>3. ~Brings(r, l)
  BY DEF Brings, Carries, At
<1>4. ASSUME l = c.who
      PROVE  /\ Brings(r, l)'
             /\ \A d \in Devices : ~Holds(d, l)'
             /\ \A q \in Requests : q # r => ~Brings(q, l)'
  <2>1. Brings(r, l)'
    BY <1>1, <1>4 DEF Brings, Carries, Carried, Credentials
  <2>2. \A d \in Devices : ~Holds(d, l)'
    <3> SUFFICES ASSUME NEW d \in Devices, device[d] # None,
                        device[d] = Credentials(l, token'[l])
                 PROVE  FALSE
      BY <1>1 DEF Holds
    <3>1. device[d].who = l /\ device[d].gen = token'[l]
      BY DEF Credentials
    <3>2. device[d].gen <= token[l]
      BY <3>1 DEF TypeOK
    <3> QED
      BY <3>1, <3>2, <1>2, <1>4
  <2>3. \A q \in Requests : q # r => ~Brings(q, l)'
    <3> SUFFICES ASSUME NEW q \in Requests, q # r, Carries(q),
                        Carried(q) = Credentials(l, token'[l])
                 PROVE  FALSE
      BY <1>1 DEF Brings, Carries, Carried
    <3>1. Carried(q).who = l /\ Carried(q).gen = token'[l]
      BY DEF Credentials
    <3>2. Carried(q).gen <= token[l]
      BY <3>1, CarriedType
    <3> QED
      BY <3>1, <3>2, <1>2, <1>4
  <2> QED
    BY <2>1, <2>2, <2>3
<1>5. ASSUME l # c.who
      PROVE  /\ ~Brings(r, l)'
             /\ Credentials(l, token[l])' = Credentials(l, token[l])
             /\ \A d \in Devices : Holds(d, l)' <=> Holds(d, l)
             /\ \A q \in Requests : q # r => (Brings(q, l)' <=> Brings(q, l))
  <2>1. token'[l] = token[l]
    BY <1>2, <1>5
  <2>2. ~Brings(r, l)'
    BY <1>1, <1>5 DEF Brings, Carried, Credentials
  <2> QED
    BY <1>1, <2>1, <2>2 DEF Holds, Brings, Carries, Carried, Credentials
<1> QED
  BY <1>3, <1>4, <1>5

\* What every other step does to the tokens that resolve: none changes, no
\* request starts to bring one, and only SignIn puts one on a device.
Undisturbed ==
    /\ \A l \in Learners, q \in Requests : Brings(q, l)' => Brings(q, l)
    /\ \A l \in Learners : Credentials(l, token[l])' = Credentials(l, token[l])
    /\ lost \subseteq lost' /\ wiped \subseteq wiped'

\* A step that leaves the devices alone loses no token silently.
Quiet ==
    /\ Undisturbed /\ device' = device
    /\ \A l \in Learners, q \in Requests :
          Brings(q, l) /\ ~Brings(q, l)' => Credentials(l, token[l]) \in lost'

LEMMA QuietLocal ==
    ASSUME TypeOK, NEW r \in Requests,
           UNCHANGED <<token, device, wiped>>, lost \subseteq lost',
           \A q \in Requests \ {r} : req'[q] = req[q],
           Carries(r)' => Carries(r) /\ Carried(r)' = Carried(r),
           Carries(r) /\ ~Carries(r)' => Carried(r) \in lost'
    PROVE  Quiet
  BY DEF Quiet, Undisturbed, Brings, Carries, Carried, Credentials

LEMMA QuietSteps ==
    ASSUME TypeOK, NEW r \in Requests,
           \/ Ask(r) \/ Authenticate(r) \/ Unauthorized(r) \/ Create(r) \/ Refuse(r)
           \/ Load(r) \/ ShowCode(r) \/ ShowError(r) \/ DatabaseFails(r) \/ Drop(r)
    PROVE  Quiet
<1> USE DEF At
<1>0. req \in [Requests -> Request]
  BY DEF TypeOK
<1>1. CASE Ask(r)
  <2>1. \A q \in Requests \ {r} : req'[q] = req[q]
    BY <1>0, <1>1 DEF Ask, AskCode, TypeCode, Local
  <2>2. req'[r].pc \in {"auth", "redeem"}
    <3>1. ASSUME NEW d \in Devices, AskCode(r, d) PROVE req'[r].pc = "auth"
      BY <1>0, <3>1, IdleType DEF AskCode, Request
    <3>2. ASSUME NEW d \in Devices, NEW c \in shown \cup {Mistyped}, TypeCode(r, d, c)
          PROVE  req'[r].pc = "redeem"
      BY <1>0, <3>2, IdleType DEF TypeCode, Local, Request
    <3> QED
      BY <1>1, <3>1, <3>2 DEF Ask
  <2>3. ~Carries(r) /\ ~Carries(r)'
    BY <1>1, <2>2 DEF Ask, AskCode, TypeCode, Carries
  <2>4. UNCHANGED <<token, device, lost, wiped>>
    BY <1>1 DEF Ask, AskCode, TypeCode, Local
  <2> QED
    BY <2>1, <2>3, <2>4, QuietLocal
<1>2. CASE Authenticate(r) \/ Unauthorized(r) \/ Refuse(r)
  <2>1. \A q \in Requests \ {r} : req'[q] = req[q]
    BY <1>0, <1>2 DEF Authenticate, Unauthorized, Refuse, Local
  <2>2. ~Carries(r) /\ ~Carries(r)'
    BY <1>0, <1>2 DEF Authenticate, Unauthorized, Refuse, Local, Carries, Request
  <2>3. UNCHANGED <<token, device, lost, wiped>>
    BY <1>2 DEF Authenticate, Unauthorized, Refuse, Local
  <2> QED
    BY <2>1, <2>2, <2>3, QuietLocal
<1>3. CASE Create(r)
  BY <1>0, <1>3, QuietLocal DEF Create, Carries, Request
<1>4. CASE Load(r)
  BY <1>0, <1>4, QuietLocal DEF Load, Local, Carries, Carried, Request
<1>5. CASE ShowCode(r) \/ ShowError(r)
  BY <1>0, <1>5, QuietLocal, EndType DEF ShowCode, ShowError, Local, Carries
<1>6. CASE DatabaseFails(r)
  <2>1. Carries(r) => At(r, "load")
    BY <1>6 DEF DatabaseFails, Carries
  <2>2. /\ \A q \in Requests \ {r} : req'[q] = req[q]
        /\ ~Carries(r)'
    BY <1>0, <1>6 DEF DatabaseFails, Carries
  <2> QED
    BY <1>6, <2>1, <2>2, QuietLocal DEF DatabaseFails
<1>7. CASE Drop(r)
  <2>1. /\ \A q \in Requests \ {r} : req'[q] = req[q]
        /\ ~Carries(r)'
    BY <1>7, EndType DEF Drop
  <2> QED
    BY <1>7, <2>1, QuietLocal DEF Drop
<1> QED
  BY <1>1, <1>2, <1>3, <1>4, <1>5, <1>6, <1>7

\* SignIn moves the token of r to its device.
LEMMA SignInMoves ==
    ASSUME TypeOK, NEW r \in Requests, SignIn(r), NEW l \in Learners
    PROVE  /\ req[r].device \in Devices
           /\ \A d \in Devices : Holds(d, l)' <=>
                 IF d = req[r].device THEN Brings(r, l) ELSE Holds(d, l)
           /\ \A q \in Requests : Brings(q, l)' <=> Brings(q, l) /\ q # r
           /\ Holds(req[r].device, l) => Credentials(l, token[l]) \in wiped'
           /\ token' = token /\ lost' = lost /\ wiped \subseteq wiped'
<1>1. /\ req[r].device \in Devices
      /\ device' = [device EXCEPT ![req[r].device] = Carried(r)]
      /\ device \in [Devices -> Tokens \cup {None}]
      /\ req' = [req EXCEPT ![r] = Idle]
      /\ Carries(r) /\ Carried(r) \in Tokens /\ Carried(r) # None
      /\ token' = token /\ lost' = lost
      /\ wiped' = wiped \cup ({device[req[r].device]} \ {None})
  <2>1. Carries(r)
    BY DEF SignIn, Carries, At
  <2> QED
    BY <2>1, CarriedType, ConstantsAssumption DEF SignIn, TypeOK, Request, Tokens
<1>2. \A d \in Devices : Holds(d, l)' <=>
         IF d = req[r].device THEN Brings(r, l) ELSE Holds(d, l)
  BY <1>1 DEF Holds, Brings
<1>3. \A q \in Requests : Brings(q, l)' <=> Brings(q, l) /\ q # r
  <2>1. ~Carries(r)' /\ \A q \in Requests \ {r} : req'[q] = req[q]
    BY <1>1, EndType
  <2> QED
    BY <1>1, <2>1 DEF Brings, Carries, Carried, Credentials
<1>4. Holds(req[r].device, l) => Credentials(l, token[l]) \in wiped'
  BY <1>1 DEF Holds
<1> QED
  BY <1>1, <1>2, <1>3, <1>4

LEMMA OneDeviceStep == TypeOK /\ OneDevice /\ [Next]_vars => OneDevice'
<1> SUFFICES ASSUME TypeOK, OneDevice, [Next]_vars, NEW l \in Learners
             PROVE  /\ \A d, e \in Devices : Holds(d, l)' /\ Holds(e, l)' => d = e
                    /\ \A r, q \in Requests : Brings(r, l)' /\ Brings(q, l)' => r = q
                    /\ \A d \in Devices, r \in Requests : ~(Holds(d, l)' /\ Brings(r, l)')
  BY DEF OneDevice
<1> DEFINE Goal == /\ \A d, e \in Devices : Holds(d, l)' /\ Holds(e, l)' => d = e
                   /\ \A r, q \in Requests : Brings(r, l)' /\ Brings(q, l)' => r = q
                   /\ \A d \in Devices, r \in Requests : ~(Holds(d, l)' /\ Brings(r, l)')
<1>0. /\ \A d, e \in Devices : Holds(d, l) /\ Holds(e, l) => d = e
      /\ \A r, q \in Requests : Brings(r, l) /\ Brings(q, l) => r = q
      /\ \A d \in Devices, r \in Requests : ~(Holds(d, l) /\ Brings(r, l))
  BY DEF OneDevice
\* Nothing but SignIn and Redeem adds a holder or a carrier.
<1>1. ASSUME /\ \A d \in Devices : Holds(d, l)' => Holds(d, l)
             /\ \A q \in Requests : Brings(q, l)' => Brings(q, l)
      PROVE  Goal
  BY <1>0, <1>1
<1>2. ASSUME Quiet PROVE Goal
  <2>1. \A d \in Devices : Holds(d, l)' => Holds(d, l)
    BY <1>2 DEF Quiet, Undisturbed, Holds
  <2> QED
    BY <1>1, <1>2, <2>1 DEF Quiet, Undisturbed
<1>3. ASSUME NEW r \in Requests, SignIn(r) PROVE Goal
  BY <1>0, <1>3, SignInMoves
<1>4. ASSUME NEW r \in Requests, Redeem(r) PROVE Goal
  <2> PICK c \in codes : Redemption(r, c, Unexpired(r) \ {c}, token[c.who] + 1)
    BY <1>4 DEF Redeem
  <2>1. At(r, "redeem")
    BY <1>4 DEF Redeem
  <2> QED
    BY <1>0, <2>1, RedeemMoves
<1>5. ASSUME NEW d \in Devices, Exit(d) PROVE Goal
  <2>1. \A e \in Devices : Holds(e, l)' => Holds(e, l)
    BY <1>5 DEF Exit, Holds, TypeOK
  <2>2. \A q \in Requests : Brings(q, l)' <=> Brings(q, l)
    BY <1>5 DEF Exit, Brings, Carries, Carried
  <2> QED
    BY <1>1, <2>1, <2>2
<1>6. CASE Tick \/ UNCHANGED vars
  <2>1. /\ \A d \in Devices : Holds(d, l)' <=> Holds(d, l)
        /\ \A q \in Requests : Brings(q, l)' <=> Brings(q, l)
    BY <1>6 DEF Tick, vars, Holds, Brings, Carries, Carried
  <2> QED
    BY <1>1, <2>1
<1>7. ASSUME NEW r \in Requests,
             Ask(r) \/ Handle(r) \/ Answer(r) \/ DatabaseFails(r) \/ Drop(r)
      PROVE  Goal
  BY <1>2, <1>3, <1>4, <1>7, QuietSteps DEF Handle, Answer
<1> QED
  BY <1>5, <1>6, <1>7 DEF Next

\* A hand-off moves the learner: the token that resolves is on one device or
\* on its way to one, and never in two places, for any number of concurrent
\* redemptions, late answers and expired codes.
THEOREM NeverOnTwoDevices == Spec => []OneDevice
<1>1. Init => OneDevice
  BY InitHolds DEF OneDevice, Brings
<1> QED
  BY <1>1, InitType, StepType, OneDeviceStep, PTL DEF Spec

-----------------------------------------------------------------------------
(* Nobody is signed out unnoticed.                                         *)

Reachable(l) ==
    \/ \E d \in Devices : Holds(d, l)
    \/ \E r \in Requests : Brings(r, l)
    \/ Credentials(l, token[l]) \in lost \cup wiped

LEMMA SignedInStep == TypeOK /\ SignedInSomewhere /\ [Next]_vars => SignedInSomewhere'
<1> SUFFICES ASSUME TypeOK, SignedInSomewhere, [Next]_vars, NEW l \in Learners
             PROVE  Reachable(l)'
  BY DEF SignedInSomewhere, Reachable
<1>0. Reachable(l)
  BY DEF SignedInSomewhere, Reachable
<1>1. ASSUME Quiet PROVE Reachable(l)'
  <2>1. CASE \E d \in Devices : Holds(d, l)
    BY <1>1, <2>1 DEF Quiet, Undisturbed, Reachable, Holds
  <2>2. CASE \E r \in Requests : Brings(r, l)
    BY <1>1, <2>2 DEF Quiet, Undisturbed, Reachable
  <2>3. CASE Credentials(l, token[l]) \in lost \cup wiped
    BY <1>1, <2>3 DEF Quiet, Undisturbed, Reachable
  <2> QED
    BY <1>0, <2>1, <2>2, <2>3 DEF Reachable
<1>2. ASSUME NEW r \in Requests, SignIn(r) PROVE Reachable(l)'
  <2>1. CASE \E d \in Devices : Holds(d, l)
    <3> PICK d \in Devices : Holds(d, l)
      BY <2>1
    <3>1. CASE d = req[r].device
      <4>1. Credentials(l, token[l]) \in wiped' /\ token' = token
        BY <1>2, <3>1, SignInMoves
      <4> QED
        BY <4>1 DEF Reachable, Credentials
    <3>2. CASE d # req[r].device
      <4>1. Holds(d, l)'
        BY <1>2, <3>2, SignInMoves
      <4> QED
        BY <4>1 DEF Reachable
    <3> QED
      BY <3>1, <3>2
  <2>2. CASE \E q \in Requests : Brings(q, l)
    <3> PICK q \in Requests : Brings(q, l)
      BY <2>2
    <3>1. CASE q = r
      <4> PICK d \in Devices : d = req[r].device
        BY <1>2, SignInMoves
      <4>1. Holds(d, l)'
        BY <1>2, <3>1, SignInMoves
      <4> QED
        BY <4>1 DEF Reachable
    <3>2. CASE q # r
      <4>1. Brings(q, l)'
        BY <1>2, <3>2, SignInMoves
      <4> QED
        BY <4>1 DEF Reachable
    <3> QED
      BY <3>1, <3>2
  <2>3. CASE Credentials(l, token[l]) \in lost \cup wiped
    <3>1. token' = token /\ lost' = lost /\ wiped \subseteq wiped'
      BY <1>2, SignInMoves
    <3> QED
      BY <2>3, <3>1 DEF Reachable, Credentials
  <2> QED
    BY <1>0, <2>1, <2>2, <2>3 DEF Reachable
<1>3. ASSUME NEW r \in Requests, Redeem(r) PROVE Reachable(l)'
  <2> PICK c \in codes : Redemption(r, c, Unexpired(r) \ {c}, token[c.who] + 1)
    BY <1>3 DEF Redeem
  <2>0. At(r, "redeem")
    BY <1>3 DEF Redeem
  <2>1. CASE l = c.who
    <3>1. Brings(r, l)'
      BY <2>0, <2>1, RedeemMoves
    <3> QED
      BY <3>1 DEF Reachable
  <2>2. CASE l # c.who
    <3>1. /\ ~Brings(r, l)
          /\ Credentials(l, token[l])' = Credentials(l, token[l])
          /\ \A d \in Devices : Holds(d, l)' <=> Holds(d, l)
          /\ \A q \in Requests : q # r => (Brings(q, l)' <=> Brings(q, l))
      BY <2>0, <2>2, RedeemMoves
    <3>2. lost' = lost /\ wiped' = wiped
      BY DEF Redemption
    <3> QED
      BY <1>0, <3>1, <3>2 DEF Reachable
  <2> QED
    BY <2>1, <2>2
<1>4. ASSUME NEW d \in Devices, Exit(d) PROVE Reachable(l)'
  <2>1. \A e \in Devices : Holds(e, l) => Holds(e, l)' \/ e = d
    BY <1>4 DEF Exit, Holds, TypeOK
  <2>2. Holds(d, l) => Credentials(l, token[l]) \in wiped'
    BY <1>4 DEF Exit, Holds
  <2>3. /\ \A q \in Requests : Brings(q, l)' <=> Brings(q, l)
        /\ Credentials(l, token[l])' = Credentials(l, token[l])
        /\ lost' = lost /\ wiped \subseteq wiped'
    BY <1>4 DEF Exit, Brings, Carries, Carried, Credentials
  <2> QED
    BY <1>0, <2>1, <2>2, <2>3 DEF Reachable
<1>5. CASE Tick \/ UNCHANGED vars
  <2>1. /\ \A d \in Devices : Holds(d, l)' <=> Holds(d, l)
        /\ \A q \in Requests : Brings(q, l)' <=> Brings(q, l)
        /\ Credentials(l, token[l])' = Credentials(l, token[l])
        /\ lost' = lost /\ wiped' = wiped
    BY <1>5 DEF Tick, vars, Holds, Brings, Carries, Carried, Credentials
  <2> QED
    BY <1>0, <2>1 DEF Reachable
<1>6. ASSUME NEW r \in Requests,
             Ask(r) \/ Handle(r) \/ Answer(r) \/ DatabaseFails(r) \/ Drop(r)
      PROVE  Reachable(l)'
  BY <1>1, <1>2, <1>3, <1>6, QuietSteps DEF Handle, Answer
<1> QED
  BY <1>4, <1>5, <1>6 DEF Next

\* As long as no answer was lost after its commit and no device was told to
\* forget the token, a learner is signed in: refusals, expiries, failures
\* before the commit and races sign nobody out.
THEOREM NeverSignedOutUnseen == Spec => []SignedInSomewhere
<1>1. Init => SignedInSomewhere
  BY InitHolds DEF SignedInSomewhere
<1> QED
  BY <1>1, InitType, StepType, SignedInStep, PTL DEF Spec

-----------------------------------------------------------------------------
(* The life of a code. That a redeemed code is gone for good needs the     *)
(* requests that have drawn a code but not stored it yet: no two have the  *)
(* same one, and none has a code that was stored or redeemed before.       *)

Minting(r) == req[r].pc \in {"auth", "create"}

CodesApart ==
    /\ \A c, e \in codes : c.code = e.code => c = e
    /\ \A r \in Requests : Minting(r) =>
          /\ req[r].code < nextCode /\ redeemed[req[r].code] = 0
          /\ \A c \in codes : c.code # req[r].code
    /\ \A r, q \in Requests : Minting(r) /\ Minting(q) /\ req[r].code = req[q].code => r = q
    /\ \A c \in Codes : c >= nextCode => redeemed[c] = 0

CodesInv == SingleUse /\ OneActiveCode /\ CodesApart

LEMMA InitCodes == Init => CodesInv
<1> SUFFICES ASSUME Init PROVE CodesInv
  OBVIOUS
<1>1. codes = {} /\ \A c \in Codes : redeemed[c] = 0
  BY DEF Init
<1>2. \A r \in Requests : ~Minting(r)
  BY IdleType DEF Init, Minting
<1> QED
  BY <1>1, <1>2 DEF CodesInv, SingleUse, OneActiveCode, CodesApart

\* A step that stores, redeems and draws nothing.
LEMMA CodesQuiet ==
    ASSUME CodesInv, UNCHANGED <<codes, redeemed, nextCode>>,
           \A q \in Requests : Minting(q)' => Minting(q) /\ req'[q].code = req[q].code
    PROVE  CodesInv'
<1>1. SingleUse' /\ OneActiveCode'
  BY DEF CodesInv, SingleUse, OneActiveCode
<1>2. CodesApart'
  BY DEF CodesInv, CodesApart
<1> QED
  BY <1>1, <1>2 DEF CodesInv

LEMMA AskCodes ==
    ASSUME TypeOK, CodesInv, NEW r \in Requests, Ask(r)
    PROVE  CodesInv'
<1>1. ASSUME NEW d \in Devices, AskCode(r, d) PROVE CodesInv'
  <2>1. /\ req'[r].code = nextCode /\ nextCode' = nextCode + 1 /\ nextCode \in Codes
        /\ \A q \in Requests \ {r} : req'[q] = req[q]
        /\ codes' = codes /\ redeemed' = redeemed
    BY <1>1, IdleType, Bounds DEF AskCode, TypeOK, Codes, Request
  <2>2. /\ codes \subseteq Row /\ redeemed[nextCode] = 0
        /\ \A q \in Requests : Minting(q) => req[q].code \in Codes /\ req[q].code < nextCode
        /\ \A c \in codes : c.code < nextCode /\ c.code \in Codes
    BY <2>1 DEF TypeOK, Row, CodesInv, CodesApart, OneActiveCode, Minting, RequestOK
  <2>3. SingleUse' /\ OneActiveCode'
    BY <2>1, <2>2 DEF CodesInv, SingleUse, OneActiveCode, Codes
  <2>4. \A q \in Requests : Minting(q)' =>
           /\ req'[q].code < nextCode' /\ redeemed[req'[q].code] = 0
           /\ \A c \in codes : c.code # req'[q].code
    BY <2>1, <2>2 DEF CodesInv, CodesApart, Minting, Codes
  <2>5. \A p, q \in Requests : Minting(p)' /\ Minting(q)' /\ req'[p].code = req'[q].code => p = q
    BY <2>1, <2>2 DEF CodesInv, CodesApart, Minting, Codes
  <2>6. CodesApart'
    BY <2>1, <2>4, <2>5 DEF CodesInv, CodesApart, Codes
  <2> QED
    BY <2>3, <2>6 DEF CodesInv
<1>2. ASSUME NEW d \in Devices, NEW c \in shown \cup {Mistyped}, TypeCode(r, d, c)
      PROVE  CodesInv'
  <2>1. req'[r].pc = "redeem" /\ \A q \in Requests \ {r} : req'[q] = req[q]
    BY <1>2, IdleType DEF TypeCode, Local, TypeOK, Request
  <2> QED
    BY <1>2, <2>1, CodesQuiet DEF TypeCode, Local, Minting
<1> QED
  BY <1>1, <1>2 DEF Ask

LEMMA CreateCodes ==
    ASSUME TypeOK, CodesInv, NEW r \in Requests, Create(r)
    PROVE  CodesInv'
<1> DEFINE kept == {c \in codes : c.who # req[r].who}
<1>1. /\ codes' = kept \cup {NewRow(r)}
      /\ NewRow(r).code = req[r].code /\ NewRow(r).who = req[r].who
      /\ redeemed' = redeemed /\ nextCode' = nextCode
  BY DEF Create, NewRow
<1>2. /\ Minting(r) /\ ~Minting(r)'
      /\ \A q \in Requests \ {r} : req'[q] = req[q]
  BY DEF Create, Minting, At, TypeOK, Request
<1>3. /\ req[r].code < nextCode /\ redeemed[req[r].code] = 0
      /\ \A c \in kept : c.code # req[r].code /\ c.who # req[r].who
      /\ \A q \in Requests \ {r} : Minting(q) => req[q].code # req[r].code
  BY <1>2 DEF CodesInv, CodesApart
<1>4. OneActiveCode'
  BY <1>1, <1>3 DEF CodesInv, OneActiveCode
<1>5. CodesApart'
  BY <1>1, <1>2, <1>3 DEF CodesInv, CodesApart, Minting
<1>6. SingleUse'
  BY <1>1 DEF CodesInv, SingleUse
<1> QED
  BY <1>4, <1>5, <1>6 DEF CodesInv

LEMMA RedeemCodes ==
    ASSUME TypeOK, CodesInv, NEW r \in Requests, Redeem(r)
    PROVE  CodesInv'
<1> PICK c \in codes : Redemption(r, c, Unexpired(r) \ {c}, token[c.who] + 1)
  BY DEF Redeem
<1>1. /\ codes' \subseteq codes \ {c} /\ nextCode' = nextCode
      /\ redeemed' = [redeemed EXCEPT ![c.code] = @ + 1]
  BY DEF Redemption, Unexpired
<1>2. /\ c.code \in Codes /\ redeemed \in [Codes -> Nat]
      /\ redeemed[c.code] = 0 /\ c.code < nextCode
      /\ \A e \in codes \ {c} : e.code # c.code
      /\ \A q \in Requests : Minting(q) => req[q].code # c.code
  BY DEF TypeOK, Row, CodesInv, CodesApart, OneActiveCode
<1>3. redeemed'[c.code] = 1 /\ \A e \in Codes : e # c.code => redeemed'[e] = redeemed[e]
  BY <1>1, <1>2
<1>4. \A q \in Requests : Minting(q)' =>
         Minting(q) /\ req'[q].code = req[q].code /\ req[q].code \in Codes
  <2>1. req'[r].pc = "load" /\ \A q \in Requests \ {r} : req'[q] = req[q]
    BY DEF Redemption, TypeOK, Request
  <2> QED
    BY <2>1 DEF Minting, TypeOK, RequestOK
<1>5. SingleUse'
  BY <1>3 DEF CodesInv, SingleUse
<1>6. OneActiveCode'
  BY <1>1, <1>2, <1>3 DEF CodesInv, OneActiveCode, TypeOK, Row
<1>7. CodesApart'
  <2>1. \A q \in Requests : Minting(q)' =>
           /\ req'[q].code < nextCode' /\ redeemed'[req'[q].code] = 0
           /\ \A e \in codes' : e.code # req'[q].code
    BY <1>1, <1>2, <1>3, <1>4 DEF CodesInv, CodesApart
  <2>2. \A p, q \in Requests : Minting(p)' /\ Minting(q)' /\ req'[p].code = req'[q].code => p = q
    BY <1>4 DEF CodesInv, CodesApart
  <2>3. \A e \in Codes : e >= nextCode' => redeemed'[e] = 0
    BY <1>1, <1>2, <1>3 DEF CodesInv, CodesApart, Codes, TypeOK
  <2>4. \A d, e \in codes' : d.code = e.code => d = e
    BY <1>1 DEF CodesInv, CodesApart
  <2> QED
    BY <2>1, <2>2, <2>3, <2>4 DEF CodesApart
<1> QED
  BY <1>5, <1>6, <1>7 DEF CodesInv

LEMMA OtherCodes ==
    ASSUME TypeOK, CodesInv, NEW r \in Requests,
           \/ Authenticate(r) \/ Unauthorized(r) \/ Refuse(r) \/ Load(r)
           \/ Answer(r) \/ DatabaseFails(r) \/ Drop(r)
    PROVE  CodesInv'
<1> USE DEF At
<1>0. req \in [Requests -> Request]
  BY DEF TypeOK
<1>1. UNCHANGED <<codes, redeemed, nextCode>>
  BY DEF Authenticate, Unauthorized, Refuse, Load, Answer, ShowCode, SignIn, ShowError,
         DatabaseFails, Drop, Local
<1>2. \A q \in Requests : Minting(q)' => Minting(q) /\ req'[q].code = req[q].code
  <2>1. CASE Authenticate(r) \/ Unauthorized(r) \/ Refuse(r) \/ Load(r)
    <3>1. /\ \A q \in Requests \ {r} : req'[q] = req[q]
          /\ req'[r].code = req[r].code
      BY <1>0, <2>1 DEF Authenticate, Unauthorized, Refuse, Load, Local, Request
    <3>2. Minting(r)' => Minting(r)
      BY <1>0, <2>1 DEF Authenticate, Unauthorized, Refuse, Load, Local, Minting, Request
    <3> QED
      BY <3>1, <3>2 DEF Minting
  <2>2. CASE DatabaseFails(r)
    BY <1>0, <2>2 DEF DatabaseFails, Minting, Request
  <2>3. CASE Answer(r) \/ Drop(r)
    <3>1. req' = [req EXCEPT ![r] = Idle]
      BY <2>3 DEF Answer, ShowCode, SignIn, ShowError, Drop, Local
    <3> QED
      BY <1>0, <3>1, IdleType DEF Minting
  <2> QED
    BY <2>1, <2>2, <2>3
<1> QED
  BY <1>1, <1>2, CodesQuiet

LEMMA CodesStep == TypeOK /\ CodesInv /\ [Next]_vars => CodesInv'
<1> SUFFICES ASSUME TypeOK, CodesInv, [Next]_vars PROVE CodesInv'
  OBVIOUS
<1>1. ASSUME NEW r \in Requests,
             Ask(r) \/ Handle(r) \/ Answer(r) \/ DatabaseFails(r) \/ Drop(r)
      PROVE  CodesInv'
  BY <1>1, AskCodes, CreateCodes, RedeemCodes, OtherCodes DEF Handle
<1>2. CASE (\E d \in Devices : Exit(d)) \/ Tick \/ UNCHANGED vars
  <2>1. UNCHANGED <<codes, redeemed, nextCode, req>>
    BY <1>2 DEF Exit, Tick, vars
  <2> QED
    BY <2>1, CodesQuiet DEF Minting
<1> QED
  BY <1>1, <1>2 DEF Next

\* A code signs in one device at most, however many requests carry it.
THEOREM CodeUsedOnce == Spec => []SingleUse
<1>1. CodesInv => SingleUse
  BY DEF CodesInv
<1> QED
  BY <1>1, InitType, StepType, InitCodes, CodesStep, PTL DEF Spec

\* A learner has one working code at most, and a redeemed code is dead.
THEOREM OneCodePerLearner == Spec => []OneActiveCode
<1>1. CodesInv => OneActiveCode
  BY DEF CodesInv
<1> QED
  BY <1>1, InitType, StepType, InitCodes, CodesStep, PTL DEF Spec
=============================================================================

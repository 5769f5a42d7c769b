------------------------ MODULE CustomerSessionProofs ------------------------
(***************************************************************************)
(* CustomerSession for every set of customers, addresses, sessions and     *)
(* requests.                                                               *)
(*                                                                         *)
(* What the five properties rest on: a handler is at a step of its own     *)
(* (RightStep), for a customer that exists or has existed (RightCustomer), *)
(* sessions were opened by such customers (OpenedByCustomers), whoever is  *)
(* past AccountSecret holds the stored key (HoldsSecret), and a barred     *)
(* request has not been served and its account is still closed             *)
(* (BarredIsShut).                                                         *)
(***************************************************************************)
EXTENDS CustomerSession, TLAPS

RightStep ==
    \A r \in Requests :
        /\ op[r] = "none" <=> pc[r] = "idle"
        /\ pc[r] = "insert" => op[r] = "signup"
        /\ pc[r] \in {"secret", "fill", "reread"} => op[r] \in {"signin", "cabinet"}
        /\ pc[r] = "add" => op[r] = "signin"
        /\ pc[r] \in {"session", "account", "serve"} => op[r] = "cabinet"
        /\ pc[r] = "set" => op[r] \in {"block", "unblock", "reset"}
        /\ pc[r] = "revoke" => op[r] \in {"block", "reset", "delete"}
        /\ pc[r] = "drop" => op[r] = "delete"

RightCustomer ==
    \A r \in Requests :
        /\ op[r] \in {"signin", "block", "unblock", "reset", "delete"}
              => on[r] \in Customers /\ row[on[r]] # "none"
        /\ op[r] = "signup" => on[r] \in Addresses
        /\ op[r] = "cabinet" => sid[r] \in Sessions /\ signed[sid[r]] # NoKey
        /\ pc[r] \in {"account", "serve"} => on[r] = owner[sid[r]]

OpenedByCustomers ==
    \A s \in Sessions :
        /\ signed[s] # NoKey => owner[s] \in Customers /\ row[owner[s]] # "none"
        /\ s \in live => signed[s] # NoKey

HoldsSecret ==
    \A r \in Requests :
        /\ pc[r] = "fill" => key[r] \in Requests
        /\ pc[r] = "reread" => secret # NoKey
        /\ pc[r] \in {"add", "session"} => key[r] = secret /\ secret # NoKey

BarredIsShut ==
    \A r \in barred :
        /\ op[r] = "cabinet"
        /\ pc[r] # "serve"
        /\ row[owner[sid[r]]] # "active"

IInv ==
    /\ TypeOK
    /\ RightStep
    /\ RightCustomer
    /\ OpenedByCustomers
    /\ HoldsSecret
    /\ TokensVerify
    /\ BarredIsShut
    /\ OneAccountPerAddress
    /\ OnlyRacesSurvive

-----------------------------------------------------------------------------
(* The statements of the operator's handlers.                              *)

LEMMA Plans ==
    /\ Plan("unblock")[1] = "set" /\ Len(Plan("unblock")) = 1
    /\ Plan("delete")[1] = "revoke" /\ Plan("delete")[2] = "drop" /\ Len(Plan("delete")) = 2
    /\ \A h \in {"block", "reset"} :
          Plan(h)[1] = "set" /\ Plan(h)[2] = "revoke" /\ Len(Plan(h)) = 2
BY DEF Plan

LEMMA Proceeds ==
    ASSUME NEW r \in Requests, RightStep, Proceed(r), pc[r] \in {"set", "revoke"}
    PROVE  IF op[r] \in {"block", "reset"} /\ pc[r] = "set"
           THEN GoTo(r, "revoke") /\ UNCHANGED <<op, on, saw, key, sid>>
           ELSE IF op[r] = "delete"
           THEN GoTo(r, "drop") /\ UNCHANGED <<op, on, saw, key, sid>>
           ELSE End(r)
BY Plans DEF Proceed, RightStep

-----------------------------------------------------------------------------
(* Types.                                                                  *)

LEMMA TypeStep == IInv /\ [Next]_vars => TypeOK'
<1> SUFFICES ASSUME TypeOK, RightStep, RightCustomer, HoldsSecret, OpenedByCustomers, [Next]_vars
             PROVE  TypeOK'
  BY DEF IInv
<1>1. ASSUME NEW r \in Requests, NEW a \in Addresses, CustomerSignUp(r, a) PROVE TypeOK'
  BY <1>1 DEF CustomerSignUp, Taken, Begin, customer, session, history,
      Registered, TypeOK, Ops, Steps
<1>2. ASSUME NEW r \in Requests, InsertCustomer(r) PROVE TypeOK'
  BY <1>2, ResetsAssumption DEF InsertCustomer, UniqueAddress, customer, End,
      session, history, Taken, Registered, TypeOK, RightStep, RightCustomer,
      Ops, Steps
<1>3. ASSUME NEW r \in Requests, ReadSecret(r) PROVE TypeOK'
  BY <1>3 DEF ReadSecret, GoTo, AfterSecret, customer, session, history,
      TypeOK, RightStep, RightCustomer, Ops, Steps
<1>4. ASSUME NEW r \in Requests, FillSecret(r) PROVE TypeOK'
  BY <1>4 DEF FillSecret, SecretIsEmpty, GoTo, customer, session, history,
      TypeOK, RightStep, RightCustomer, HoldsSecret, Ops, Steps
<1>5. ASSUME NEW r \in Requests, RereadSecret(r) PROVE TypeOK'
  BY <1>5 DEF RereadSecret, GoTo, AfterSecret, customer, session, history,
      TypeOK, RightStep, RightCustomer, HoldsSecret, Ops, Steps
<1>6. ASSUME NEW r \in Requests, NEW i \in Customers, CustomerSignIn(r, i) PROVE TypeOK'
  BY <1>6 DEF CustomerSignIn, Begin, customer, session, history, TypeOK, Ops,
      Steps
<1>7. ASSUME NEW r \in Requests, NEW s \in Sessions, AddSession(r, s) PROVE TypeOK'
  BY <1>7, ResetsAssumption DEF AddSession, Outdated, End, customer, TypeOK,
      RightStep, RightCustomer, Ops, Steps
<1>8. ASSUME NEW r \in Requests, NEW s \in Sessions, Cabinet(r, s) PROVE TypeOK'
  BY <1>8 DEF Cabinet, Begin, Shut, customer, session, TypeOK, RightCustomer,
      Ops, Steps
<1>9. ASSUME NEW r \in Requests, GetSession(r) PROVE TypeOK'
  BY <1>9, ResetsAssumption DEF GetSession, session, GoTo, Answer, customer,
      End, TypeOK, RightStep, RightCustomer, OpenedByCustomers, Ops, Steps
<1>10. ASSUME NEW r \in Requests, CustomerByID(r) PROVE TypeOK'
  BY <1>10, ResetsAssumption DEF CustomerByID, Unblocked, GoTo, Answer,
      customer, session, End, TypeOK, RightStep, RightCustomer, Ops, Steps
<1>11. ASSUME NEW r \in Requests, Serve(r) PROVE TypeOK'
  BY <1>11, ResetsAssumption DEF Serve, Answer, customer, End, TypeOK,
      RightStep, RightCustomer, Ops, Steps
<1>12. ASSUME NEW r \in Requests, NEW i \in Customers, UpdateCustomerActive(r, i) PROVE TypeOK'
  BY <1>12, Plans DEF UpdateCustomerActive, Registered, Operate, Begin,
      customer, session, history, TypeOK, Ops, Steps
<1>13. ASSUME NEW r \in Requests, NEW i \in Customers, UpdateCustomerPassword(r, i) PROVE TypeOK'
  BY <1>13, Plans DEF UpdateCustomerPassword, Registered, Operate, Begin,
      customer, session, history, TypeOK, Ops, Steps
<1>14. ASSUME NEW r \in Requests, NEW i \in Customers, DeleteCustomer(r, i) PROVE TypeOK'
  BY <1>14, Plans DEF DeleteCustomer, Operate, Begin, customer, session,
      history, TypeOK, Ops, Steps
<1>15. ASSUME NEW r \in Requests, SetCustomerActive(r) PROVE TypeOK'
  <2>1. row' \in [Customers -> {"none", "active", "blocked", "gone"}]
    BY <1>15 DEF SetCustomerActive, TypeOK
  <2>2. barred' \subseteq Requests
    BY <1>15 DEF SetCustomerActive, TypeOK
  <2>3. pc[r] = "set" /\ UNCHANGED <<address, version, secret, session, raced, spoiled>>
    BY <1>15 DEF SetCustomerActive
  <2>4. CASE GoTo(r, "revoke") /\ UNCHANGED <<op, on, saw, key, sid>>
    BY <2>1, <2>2, <2>3, <2>4 DEF GoTo, session, TypeOK, Steps
  <2>5. CASE GoTo(r, "drop") /\ UNCHANGED <<op, on, saw, key, sid>>
    BY <2>1, <2>2, <2>3, <2>5 DEF GoTo, session, TypeOK, Steps
  <2>6. CASE End(r)
    BY <2>1, <2>2, <2>3, <2>6, ResetsAssumption DEF End, session, TypeOK, Ops, Steps
  <2>7. Proceed(r)
    BY <1>15 DEF SetCustomerActive
  <2>8. QED
    BY <2>3, <2>4, <2>5, <2>6, <2>7, Proceeds
<1>16. ASSUME NEW r \in Requests, SetCustomerPassword(r) PROVE TypeOK'
  BY <1>16, Proceeds, ResetsAssumption DEF SetCustomerPassword, GoTo, End,
      Registered, session, history, TypeOK, RightStep, RightCustomer, Ops,
      Steps
<1>17. ASSUME NEW r \in Requests, RevokeCustomerSessions(r) PROVE TypeOK'
  <2>1. spoiled' \subseteq Customers /\ live' \subseteq live
    BY <1>17 DEF RevokeCustomerSessions, TypeOK
  <2>2. QED
    BY <1>17, <2>1, Proceeds, ResetsAssumption DEF RevokeCustomerSessions, GoTo, End,
       customer, TypeOK, RightStep, RightCustomer, Ops, Steps
<1>18. ASSUME NEW r \in Requests, DropCustomer(r) PROVE TypeOK'
  BY <1>18, ResetsAssumption DEF DropCustomer, End, session, history, TypeOK,
      RightStep, RightCustomer, Ops, Steps
<1>19. ASSUME NEW r \in Requests, Fail(r) PROVE TypeOK'
  BY <1>19, ResetsAssumption DEF Fail, Answer, customer, session, End,
      TypeOK, RightStep, RightCustomer, Ops, Steps
<1>20. ASSUME NEW s \in Sessions, Expire(s) PROVE TypeOK'
  BY <1>20 DEF Expire, customer, request, history, TypeOK
<1>21. CASE UNCHANGED vars
  BY <1>21 DEF vars, customer, session, request, history, TypeOK
<1>22. QED
  BY <1>1, <1>2, <1>3, <1>4, <1>5, <1>6, <1>7, <1>8, <1>9, <1>10, <1>11,
     <1>12, <1>13, <1>14, <1>15, <1>16, <1>17, <1>18, <1>19, <1>20, <1>21 DEF
     Next, Shop, Panel, Arrive

-----------------------------------------------------------------------------
(* A handler is at a step of its own.                                      *)

LEMMA RightStepStep == IInv /\ [Next]_vars => RightStep'
<1> SUFFICES ASSUME TypeOK, RightStep, [Next]_vars
             PROVE  RightStep'
  BY DEF IInv
<1>1. ASSUME NEW r \in Requests, NEW a \in Addresses, CustomerSignUp(r, a) PROVE RightStep'
  BY <1>1 DEF CustomerSignUp, Taken, Begin, customer, session, history,
    Registered, RightStep, TypeOK
<1>2. ASSUME NEW r \in Requests, InsertCustomer(r) PROVE RightStep'
  BY <1>2 DEF InsertCustomer, UniqueAddress, customer, End, session,
    history, Taken, Registered, RightStep, TypeOK
<1>3. ASSUME NEW r \in Requests, ReadSecret(r) PROVE RightStep'
  BY <1>3 DEF ReadSecret, GoTo, AfterSecret, customer, session, history,
    RightStep, TypeOK
<1>4. ASSUME NEW r \in Requests, FillSecret(r) PROVE RightStep'
  BY <1>4 DEF FillSecret, SecretIsEmpty, GoTo, customer, session, history,
    RightStep, TypeOK
<1>5. ASSUME NEW r \in Requests, RereadSecret(r) PROVE RightStep'
  BY <1>5 DEF RereadSecret, GoTo, AfterSecret, customer, session, history,
    RightStep, TypeOK
<1>6. ASSUME NEW r \in Requests, NEW i \in Customers, CustomerSignIn(r, i) PROVE RightStep'
  BY <1>6 DEF CustomerSignIn, Begin, customer, session, history, RightStep,
    TypeOK
<1>7. ASSUME NEW r \in Requests, NEW s \in Sessions, AddSession(r, s) PROVE RightStep'
  BY <1>7 DEF AddSession, Outdated, End, customer, RightStep, TypeOK
<1>8. ASSUME NEW r \in Requests, NEW s \in Sessions, Cabinet(r, s) PROVE RightStep'
  BY <1>8 DEF Cabinet, Begin, Shut, customer, session, RightStep, TypeOK
<1>9. ASSUME NEW r \in Requests, GetSession(r) PROVE RightStep'
  BY <1>9 DEF GetSession, session, GoTo, Answer, customer, End, RightStep,
    TypeOK
<1>10. ASSUME NEW r \in Requests, CustomerByID(r) PROVE RightStep'
  BY <1>10 DEF CustomerByID, Unblocked, GoTo, Answer, customer, session,
    End, RightStep, TypeOK
<1>11. ASSUME NEW r \in Requests, Serve(r) PROVE RightStep'
  BY <1>11 DEF Serve, Answer, customer, End, RightStep, TypeOK
<1>12. ASSUME NEW r \in Requests, NEW i \in Customers, UpdateCustomerActive(r, i) PROVE RightStep'
  BY <1>12, Plans DEF UpdateCustomerActive, Registered, Operate, Begin,
    customer, session, history, RightStep, TypeOK
<1>13. ASSUME NEW r \in Requests, NEW i \in Customers, UpdateCustomerPassword(r, i) PROVE RightStep'
  BY <1>13, Plans DEF UpdateCustomerPassword, Registered, Operate, Begin,
    customer, session, history, RightStep, TypeOK
<1>14. ASSUME NEW r \in Requests, NEW i \in Customers, DeleteCustomer(r, i) PROVE RightStep'
  BY <1>14, Plans DEF DeleteCustomer, Operate, Begin, customer, session,
    history, RightStep, TypeOK
<1>15. ASSUME NEW r \in Requests, SetCustomerActive(r) PROVE RightStep'
  BY <1>15, Proceeds DEF SetCustomerActive, GoTo, End, Registered, session,
    RightStep, TypeOK
<1>16. ASSUME NEW r \in Requests, SetCustomerPassword(r) PROVE RightStep'
  BY <1>16, Proceeds DEF SetCustomerPassword, GoTo, End, Registered,
    session, history, RightStep, TypeOK
<1>17. ASSUME NEW r \in Requests, RevokeCustomerSessions(r) PROVE RightStep'
  BY <1>17, Proceeds DEF RevokeCustomerSessions, GoTo, End, customer,
    RightStep, TypeOK
<1>18. ASSUME NEW r \in Requests, DropCustomer(r) PROVE RightStep'
  BY <1>18 DEF DropCustomer, End, session, history, RightStep, TypeOK
<1>19. ASSUME NEW r \in Requests, Fail(r) PROVE RightStep'
  BY <1>19 DEF Fail, Answer, customer, session, End, RightStep, TypeOK
<1>20. ASSUME NEW s \in Sessions, Expire(s) PROVE RightStep'
  BY <1>20 DEF Expire, customer, request, history, RightStep, TypeOK
<1>21. CASE UNCHANGED vars
  BY <1>21 DEF vars, customer, session, request, history, RightStep, TypeOK
<1>22. QED
  BY <1>1, <1>2, <1>3, <1>4, <1>5, <1>6, <1>7, <1>8, <1>9, <1>10, <1>11,
     <1>12, <1>13, <1>14, <1>15, <1>16, <1>17, <1>18, <1>19, <1>20, <1>21 DEF
     Next, Shop, Panel, Arrive

-----------------------------------------------------------------------------
(* A handler is about a customer that exists or has existed.               *)

LEMMA RightCustomerStep == IInv /\ [Next]_vars => RightCustomer'
<1> SUFFICES ASSUME TypeOK, RightStep, RightCustomer, OpenedByCustomers, [Next]_vars
             PROVE  RightCustomer'
  BY DEF IInv
<1>1. ASSUME NEW r \in Requests, NEW a \in Addresses, CustomerSignUp(r, a) PROVE RightCustomer'
  BY <1>1 DEF CustomerSignUp, Taken, Begin, customer, session, history,
    Registered, RightStep, RightCustomer, TypeOK, OpenedByCustomers
<1>2. ASSUME NEW r \in Requests, InsertCustomer(r) PROVE RightCustomer'
  BY <1>2 DEF InsertCustomer, UniqueAddress, customer, End, session,
    history, Taken, Registered, RightStep, RightCustomer, TypeOK,
    OpenedByCustomers
<1>3. ASSUME NEW r \in Requests, ReadSecret(r) PROVE RightCustomer'
  BY <1>3 DEF ReadSecret, GoTo, AfterSecret, customer, session, history,
    RightStep, RightCustomer, TypeOK, OpenedByCustomers
<1>4. ASSUME NEW r \in Requests, FillSecret(r) PROVE RightCustomer'
  BY <1>4 DEF FillSecret, SecretIsEmpty, GoTo, customer, session, history,
    RightStep, RightCustomer, TypeOK, OpenedByCustomers
<1>5. ASSUME NEW r \in Requests, RereadSecret(r) PROVE RightCustomer'
  BY <1>5 DEF RereadSecret, GoTo, AfterSecret, customer, session, history,
    RightStep, RightCustomer, TypeOK, OpenedByCustomers
<1>6. ASSUME NEW r \in Requests, NEW i \in Customers, CustomerSignIn(r, i) PROVE RightCustomer'
  BY <1>6 DEF CustomerSignIn, Begin, customer, session, history, RightStep,
    RightCustomer, TypeOK, OpenedByCustomers
<1>7. ASSUME NEW r \in Requests, NEW s \in Sessions, AddSession(r, s) PROVE RightCustomer'
  BY <1>7 DEF AddSession, Outdated, End, customer, RightStep,
    RightCustomer, TypeOK, OpenedByCustomers
<1>8. ASSUME NEW r \in Requests, NEW s \in Sessions, Cabinet(r, s) PROVE RightCustomer'
  BY <1>8 DEF Cabinet, Begin, Shut, customer, session, RightStep,
    RightCustomer, TypeOK, OpenedByCustomers
<1>9. ASSUME NEW r \in Requests, GetSession(r) PROVE RightCustomer'
  BY <1>9 DEF GetSession, session, GoTo, Answer, customer, End, RightStep,
    RightCustomer, TypeOK, OpenedByCustomers
<1>10. ASSUME NEW r \in Requests, CustomerByID(r) PROVE RightCustomer'
  BY <1>10 DEF CustomerByID, Unblocked, GoTo, Answer, customer, session,
    End, RightStep, RightCustomer, TypeOK, OpenedByCustomers
<1>11. ASSUME NEW r \in Requests, Serve(r) PROVE RightCustomer'
  BY <1>11 DEF Serve, Answer, customer, End, RightStep, RightCustomer,
    TypeOK, OpenedByCustomers
<1>12. ASSUME NEW r \in Requests, NEW i \in Customers, UpdateCustomerActive(r, i) PROVE RightCustomer'
  BY <1>12, Plans DEF UpdateCustomerActive, Registered, Operate, Begin,
    customer, session, history, RightStep, RightCustomer, TypeOK,
    OpenedByCustomers
<1>13. ASSUME NEW r \in Requests, NEW i \in Customers, UpdateCustomerPassword(r, i) PROVE RightCustomer'
  BY <1>13, Plans DEF UpdateCustomerPassword, Registered, Operate, Begin,
    customer, session, history, RightStep, RightCustomer, TypeOK,
    OpenedByCustomers
<1>14. ASSUME NEW r \in Requests, NEW i \in Customers, DeleteCustomer(r, i) PROVE RightCustomer'
  BY <1>14, Plans DEF DeleteCustomer, Operate, Begin, customer, session,
    history, RightStep, RightCustomer, TypeOK, OpenedByCustomers
<1>15. ASSUME NEW r \in Requests, SetCustomerActive(r) PROVE RightCustomer'
  BY <1>15, Proceeds DEF SetCustomerActive, GoTo, End, Registered, session,
    RightStep, RightCustomer, TypeOK, OpenedByCustomers
<1>16. ASSUME NEW r \in Requests, SetCustomerPassword(r) PROVE RightCustomer'
  BY <1>16, Proceeds DEF SetCustomerPassword, GoTo, End, Registered,
    session, history, RightStep, RightCustomer, TypeOK, OpenedByCustomers
<1>17. ASSUME NEW r \in Requests, RevokeCustomerSessions(r) PROVE RightCustomer'
  BY <1>17, Proceeds DEF RevokeCustomerSessions, GoTo, End, customer,
    RightStep, RightCustomer, TypeOK, OpenedByCustomers
<1>18. ASSUME NEW r \in Requests, DropCustomer(r) PROVE RightCustomer'
  BY <1>18 DEF DropCustomer, End, session, history, RightStep,
    RightCustomer, TypeOK, OpenedByCustomers
<1>19. ASSUME NEW r \in Requests, Fail(r) PROVE RightCustomer'
  BY <1>19 DEF Fail, Answer, customer, session, End, RightStep,
    RightCustomer, TypeOK, OpenedByCustomers
<1>20. ASSUME NEW s \in Sessions, Expire(s) PROVE RightCustomer'
  BY <1>20 DEF Expire, customer, request, history, RightStep,
    RightCustomer, TypeOK, OpenedByCustomers, HoldsSecret
<1>21. CASE UNCHANGED vars
  BY <1>21 DEF vars, customer, session, request, history, RightStep,
    RightCustomer, TypeOK, OpenedByCustomers, HoldsSecret
<1>22. QED
  BY <1>1, <1>2, <1>3, <1>4, <1>5, <1>6, <1>7, <1>8, <1>9, <1>10, <1>11,
     <1>12, <1>13, <1>14, <1>15, <1>16, <1>17, <1>18, <1>19, <1>20, <1>21 DEF
     Next, Shop, Panel, Arrive

-----------------------------------------------------------------------------
(* Sessions were opened by customers that exist or have existed.           *)

LEMMA SessionStep == IInv /\ [Next]_vars => OpenedByCustomers'
<1> SUFFICES ASSUME TypeOK, RightStep, RightCustomer, OpenedByCustomers, HoldsSecret, [Next]_vars
             PROVE  OpenedByCustomers'
  BY DEF IInv
<1>1. ASSUME NEW r \in Requests, NEW a \in Addresses, CustomerSignUp(r, a) PROVE OpenedByCustomers'
  BY <1>1 DEF CustomerSignUp, Taken, Begin, customer, session, history,
    Registered, TypeOK, RightStep, RightCustomer, OpenedByCustomers,
    HoldsSecret
<1>2. ASSUME NEW r \in Requests, InsertCustomer(r) PROVE OpenedByCustomers'
  BY <1>2 DEF InsertCustomer, UniqueAddress, customer, End, session,
    history, Taken, Registered, TypeOK, RightStep, RightCustomer,
    OpenedByCustomers, HoldsSecret
<1>3. ASSUME NEW r \in Requests, ReadSecret(r) PROVE OpenedByCustomers'
  BY <1>3 DEF ReadSecret, GoTo, AfterSecret, customer, session, history,
    TypeOK, RightStep, RightCustomer, OpenedByCustomers, HoldsSecret
<1>4. ASSUME NEW r \in Requests, FillSecret(r) PROVE OpenedByCustomers'
  BY <1>4 DEF FillSecret, SecretIsEmpty, GoTo, customer, session, history,
    TypeOK, RightStep, RightCustomer, OpenedByCustomers, HoldsSecret
<1>5. ASSUME NEW r \in Requests, RereadSecret(r) PROVE OpenedByCustomers'
  BY <1>5 DEF RereadSecret, GoTo, AfterSecret, customer, session, history,
    TypeOK, RightStep, RightCustomer, OpenedByCustomers, HoldsSecret
<1>6. ASSUME NEW r \in Requests, NEW i \in Customers, CustomerSignIn(r, i) PROVE OpenedByCustomers'
  BY <1>6 DEF CustomerSignIn, Begin, customer, session, history, TypeOK,
    RightStep, RightCustomer, OpenedByCustomers, HoldsSecret
<1>7. ASSUME NEW r \in Requests, NEW s \in Sessions, AddSession(r, s) PROVE OpenedByCustomers'
  BY <1>7 DEF AddSession, Outdated, End, customer, TypeOK, RightStep,
    RightCustomer, OpenedByCustomers, HoldsSecret
<1>8. ASSUME NEW r \in Requests, NEW s \in Sessions, Cabinet(r, s) PROVE OpenedByCustomers'
  BY <1>8 DEF Cabinet, Begin, Shut, customer, session, TypeOK, RightStep,
    RightCustomer, OpenedByCustomers, HoldsSecret
<1>9. ASSUME NEW r \in Requests, GetSession(r) PROVE OpenedByCustomers'
  BY <1>9 DEF GetSession, session, GoTo, Answer, customer, End, TypeOK,
    RightStep, RightCustomer, OpenedByCustomers, HoldsSecret
<1>10. ASSUME NEW r \in Requests, CustomerByID(r) PROVE OpenedByCustomers'
  BY <1>10 DEF CustomerByID, Unblocked, GoTo, Answer, customer, session,
    End, TypeOK, RightStep, RightCustomer, OpenedByCustomers, HoldsSecret
<1>11. ASSUME NEW r \in Requests, Serve(r) PROVE OpenedByCustomers'
  BY <1>11 DEF Serve, Answer, customer, End, TypeOK, RightStep,
    RightCustomer, OpenedByCustomers, HoldsSecret
<1>12. ASSUME NEW r \in Requests, NEW i \in Customers, UpdateCustomerActive(r, i) PROVE OpenedByCustomers'
  BY <1>12, Plans DEF UpdateCustomerActive, Registered, Operate, Begin,
    customer, session, history, TypeOK, RightStep, RightCustomer,
    OpenedByCustomers, HoldsSecret
<1>13. ASSUME NEW r \in Requests, NEW i \in Customers, UpdateCustomerPassword(r, i) PROVE OpenedByCustomers'
  BY <1>13, Plans DEF UpdateCustomerPassword, Registered, Operate, Begin,
    customer, session, history, TypeOK, RightStep, RightCustomer,
    OpenedByCustomers, HoldsSecret
<1>14. ASSUME NEW r \in Requests, NEW i \in Customers, DeleteCustomer(r, i) PROVE OpenedByCustomers'
  BY <1>14, Plans DEF DeleteCustomer, Operate, Begin, customer, session,
    history, TypeOK, RightStep, RightCustomer, OpenedByCustomers,
    HoldsSecret
<1>15. ASSUME NEW r \in Requests, SetCustomerActive(r) PROVE OpenedByCustomers'
  BY <1>15, Proceeds DEF SetCustomerActive, GoTo, End, Registered, session,
    TypeOK, RightStep, RightCustomer, OpenedByCustomers, HoldsSecret
<1>16. ASSUME NEW r \in Requests, SetCustomerPassword(r) PROVE OpenedByCustomers'
  BY <1>16, Proceeds DEF SetCustomerPassword, GoTo, End, Registered,
    session, history, TypeOK, RightStep, RightCustomer, OpenedByCustomers,
    HoldsSecret
<1>17. ASSUME NEW r \in Requests, RevokeCustomerSessions(r) PROVE OpenedByCustomers'
  BY <1>17, Proceeds DEF RevokeCustomerSessions, GoTo, End, customer,
    TypeOK, RightStep, RightCustomer, OpenedByCustomers, HoldsSecret
<1>18. ASSUME NEW r \in Requests, DropCustomer(r) PROVE OpenedByCustomers'
  BY <1>18 DEF DropCustomer, End, session, history, TypeOK, RightStep,
    RightCustomer, OpenedByCustomers, HoldsSecret
<1>19. ASSUME NEW r \in Requests, Fail(r) PROVE OpenedByCustomers'
  BY <1>19 DEF Fail, Answer, customer, session, End, TypeOK, RightStep,
    RightCustomer, OpenedByCustomers, HoldsSecret
<1>20. ASSUME NEW s \in Sessions, Expire(s) PROVE OpenedByCustomers'
  BY <1>20 DEF Expire, customer, request, history, TypeOK, RightStep,
    RightCustomer, OpenedByCustomers, HoldsSecret
<1>21. CASE UNCHANGED vars
  BY <1>21 DEF vars, customer, session, request, history, TypeOK,
    RightStep, RightCustomer, OpenedByCustomers, HoldsSecret
<1>22. QED
  BY <1>1, <1>2, <1>3, <1>4, <1>5, <1>6, <1>7, <1>8, <1>9, <1>10, <1>11,
     <1>12, <1>13, <1>14, <1>15, <1>16, <1>17, <1>18, <1>19, <1>20, <1>21 DEF
     Next, Shop, Panel, Arrive

-----------------------------------------------------------------------------
(* The signing key: once it is stored it stays, and whoever signs holds it. *)

LEMMA SecretStep == IInv /\ [Next]_vars => HoldsSecret' /\ TokensVerify'
<1> SUFFICES ASSUME TypeOK, RightStep, HoldsSecret, TokensVerify, [Next]_vars
             PROVE  HoldsSecret' /\ TokensVerify'
  BY DEF IInv
<1>1. ASSUME NEW r \in Requests, NEW a \in Addresses, CustomerSignUp(r, a) PROVE HoldsSecret' /\ TokensVerify'
  BY <1>1 DEF CustomerSignUp, Taken, Begin, customer, session, history,
    Registered, TypeOK, RightStep, HoldsSecret, TokensVerify
<1>2. ASSUME NEW r \in Requests, InsertCustomer(r) PROVE HoldsSecret' /\ TokensVerify'
  BY <1>2 DEF InsertCustomer, UniqueAddress, customer, End, session,
    history, Taken, Registered, TypeOK, RightStep, HoldsSecret,
    TokensVerify
<1>3. ASSUME NEW r \in Requests, ReadSecret(r) PROVE HoldsSecret' /\ TokensVerify'
  BY <1>3 DEF ReadSecret, GoTo, AfterSecret, customer, session, history,
    TypeOK, RightStep, HoldsSecret, TokensVerify
<1>4. ASSUME NEW r \in Requests, FillSecret(r) PROVE HoldsSecret' /\ TokensVerify'
  BY <1>4, NoKeyAssumption DEF FillSecret, SecretIsEmpty, GoTo, customer,
    session, history, TypeOK, RightStep, HoldsSecret, TokensVerify
<1>5. ASSUME NEW r \in Requests, RereadSecret(r) PROVE HoldsSecret' /\ TokensVerify'
  BY <1>5 DEF RereadSecret, GoTo, AfterSecret, customer, session, history,
    TypeOK, RightStep, HoldsSecret, TokensVerify
<1>6. ASSUME NEW r \in Requests, NEW i \in Customers, CustomerSignIn(r, i) PROVE HoldsSecret' /\ TokensVerify'
  BY <1>6 DEF CustomerSignIn, Begin, customer, session, history, TypeOK,
    RightStep, HoldsSecret, TokensVerify
<1>7. ASSUME NEW r \in Requests, NEW s \in Sessions, AddSession(r, s) PROVE HoldsSecret' /\ TokensVerify'
  BY <1>7 DEF AddSession, Outdated, End, customer, TypeOK, RightStep,
    HoldsSecret, TokensVerify
<1>8. ASSUME NEW r \in Requests, NEW s \in Sessions, Cabinet(r, s) PROVE HoldsSecret' /\ TokensVerify'
  BY <1>8 DEF Cabinet, Begin, Shut, customer, session, TypeOK, RightStep,
    HoldsSecret, TokensVerify
<1>9. ASSUME NEW r \in Requests, GetSession(r) PROVE HoldsSecret' /\ TokensVerify'
  BY <1>9 DEF GetSession, session, GoTo, Answer, customer, End, TypeOK,
    RightStep, HoldsSecret, TokensVerify
<1>10. ASSUME NEW r \in Requests, CustomerByID(r) PROVE HoldsSecret' /\ TokensVerify'
  BY <1>10 DEF CustomerByID, Unblocked, GoTo, Answer, customer, session,
    End, TypeOK, RightStep, HoldsSecret, TokensVerify
<1>11. ASSUME NEW r \in Requests, Serve(r) PROVE HoldsSecret' /\ TokensVerify'
  BY <1>11 DEF Serve, Answer, customer, End, TypeOK, RightStep,
    HoldsSecret, TokensVerify
<1>12. ASSUME NEW r \in Requests, NEW i \in Customers, UpdateCustomerActive(r, i) PROVE HoldsSecret' /\ TokensVerify'
  BY <1>12, Plans DEF UpdateCustomerActive, Registered, Operate, Begin,
    customer, session, history, TypeOK, RightStep, HoldsSecret,
    TokensVerify
<1>13. ASSUME NEW r \in Requests, NEW i \in Customers, UpdateCustomerPassword(r, i) PROVE HoldsSecret' /\ TokensVerify'
  BY <1>13, Plans DEF UpdateCustomerPassword, Registered, Operate, Begin,
    customer, session, history, TypeOK, RightStep, HoldsSecret,
    TokensVerify
<1>14. ASSUME NEW r \in Requests, NEW i \in Customers, DeleteCustomer(r, i) PROVE HoldsSecret' /\ TokensVerify'
  BY <1>14, Plans DEF DeleteCustomer, Operate, Begin, customer, session,
    history, TypeOK, RightStep, HoldsSecret, TokensVerify
<1>15. ASSUME NEW r \in Requests, SetCustomerActive(r) PROVE HoldsSecret' /\ TokensVerify'
  BY <1>15, Proceeds DEF SetCustomerActive, GoTo, End, Registered, session,
    TypeOK, RightStep, HoldsSecret, TokensVerify
<1>16. ASSUME NEW r \in Requests, SetCustomerPassword(r) PROVE HoldsSecret' /\ TokensVerify'
  BY <1>16, Proceeds DEF SetCustomerPassword, GoTo, End, Registered,
    session, history, TypeOK, RightStep, HoldsSecret, TokensVerify
<1>17. ASSUME NEW r \in Requests, RevokeCustomerSessions(r) PROVE HoldsSecret' /\ TokensVerify'
  BY <1>17, Proceeds DEF RevokeCustomerSessions, GoTo, End, customer,
    TypeOK, RightStep, HoldsSecret, TokensVerify
<1>18. ASSUME NEW r \in Requests, DropCustomer(r) PROVE HoldsSecret' /\ TokensVerify'
  BY <1>18 DEF DropCustomer, End, session, history, TypeOK, RightStep,
    HoldsSecret, TokensVerify
<1>19. ASSUME NEW r \in Requests, Fail(r) PROVE HoldsSecret' /\ TokensVerify'
  BY <1>19 DEF Fail, Answer, customer, session, End, TypeOK, RightStep,
    HoldsSecret, TokensVerify
<1>20. ASSUME NEW s \in Sessions, Expire(s) PROVE HoldsSecret' /\ TokensVerify'
  BY <1>20 DEF Expire, customer, request, history, TypeOK, RightStep,
    HoldsSecret, TokensVerify
<1>21. CASE UNCHANGED vars
  BY <1>21 DEF vars, customer, session, request, history, TypeOK,
    RightStep, HoldsSecret, TokensVerify
<1>22. QED
  BY <1>1, <1>2, <1>3, <1>4, <1>5, <1>6, <1>7, <1>8, <1>9, <1>10, <1>11,
     <1>12, <1>13, <1>14, <1>15, <1>16, <1>17, <1>18, <1>19, <1>20, <1>21 DEF
     Next, Shop, Panel, Arrive

-----------------------------------------------------------------------------
(* A barred request: it was not served, and its account is still closed.   *)

LEMMA BarredStep == IInv /\ [Next]_vars => BarredIsShut'
<1> SUFFICES ASSUME TypeOK, RightStep, RightCustomer, OpenedByCustomers, BarredIsShut, [Next]_vars
             PROVE  BarredIsShut'
  BY DEF IInv
<1>1. ASSUME NEW r \in Requests, NEW a \in Addresses, CustomerSignUp(r, a) PROVE BarredIsShut'
  BY <1>1 DEF CustomerSignUp, Taken, Begin, customer, session, history,
    Registered, TypeOK, RightStep, RightCustomer, OpenedByCustomers,
    BarredIsShut
<1>2. ASSUME NEW r \in Requests, InsertCustomer(r) PROVE BarredIsShut'
  BY <1>2 DEF InsertCustomer, UniqueAddress, customer, End, session,
    history, Taken, Registered, TypeOK, RightStep, RightCustomer,
    OpenedByCustomers, BarredIsShut
<1>3. ASSUME NEW r \in Requests, ReadSecret(r) PROVE BarredIsShut'
  BY <1>3 DEF ReadSecret, GoTo, AfterSecret, customer, session, history,
    TypeOK, RightStep, RightCustomer, OpenedByCustomers, BarredIsShut
<1>4. ASSUME NEW r \in Requests, FillSecret(r) PROVE BarredIsShut'
  BY <1>4 DEF FillSecret, SecretIsEmpty, GoTo, customer, session, history,
    TypeOK, RightStep, RightCustomer, OpenedByCustomers, BarredIsShut
<1>5. ASSUME NEW r \in Requests, RereadSecret(r) PROVE BarredIsShut'
  BY <1>5 DEF RereadSecret, GoTo, AfterSecret, customer, session, history,
    TypeOK, RightStep, RightCustomer, OpenedByCustomers, BarredIsShut
<1>6. ASSUME NEW r \in Requests, NEW i \in Customers, CustomerSignIn(r, i) PROVE BarredIsShut'
  BY <1>6 DEF CustomerSignIn, Begin, customer, session, history, TypeOK,
    RightStep, RightCustomer, OpenedByCustomers, BarredIsShut
<1>7. ASSUME NEW r \in Requests, NEW s \in Sessions, AddSession(r, s) PROVE BarredIsShut'
  BY <1>7 DEF AddSession, Outdated, End, customer, TypeOK, RightStep,
    RightCustomer, OpenedByCustomers, BarredIsShut
<1>8. ASSUME NEW r \in Requests, NEW s \in Sessions, Cabinet(r, s) PROVE BarredIsShut'
  BY <1>8 DEF Cabinet, Begin, Shut, customer, session, TypeOK, RightStep,
    RightCustomer, OpenedByCustomers, BarredIsShut
<1>9. ASSUME NEW r \in Requests, GetSession(r) PROVE BarredIsShut'
  BY <1>9 DEF GetSession, session, GoTo, Answer, customer, End, TypeOK,
    RightStep, RightCustomer, OpenedByCustomers, BarredIsShut
<1>10. ASSUME NEW r \in Requests, CustomerByID(r) PROVE BarredIsShut'
  BY <1>10 DEF CustomerByID, Unblocked, GoTo, Answer, customer, session,
    End, TypeOK, RightStep, RightCustomer, OpenedByCustomers, BarredIsShut
<1>11. ASSUME NEW r \in Requests, Serve(r) PROVE BarredIsShut'
  BY <1>11 DEF Serve, Answer, customer, End, TypeOK, RightStep,
    RightCustomer, OpenedByCustomers, BarredIsShut
<1>12. ASSUME NEW r \in Requests, NEW i \in Customers, UpdateCustomerActive(r, i) PROVE BarredIsShut'
  BY <1>12, Plans DEF UpdateCustomerActive, Registered, Operate, Begin,
    customer, session, history, TypeOK, RightStep, RightCustomer,
    OpenedByCustomers, BarredIsShut
<1>13. ASSUME NEW r \in Requests, NEW i \in Customers, UpdateCustomerPassword(r, i) PROVE BarredIsShut'
  BY <1>13, Plans DEF UpdateCustomerPassword, Registered, Operate, Begin,
    customer, session, history, TypeOK, RightStep, RightCustomer,
    OpenedByCustomers, BarredIsShut
<1>14. ASSUME NEW r \in Requests, NEW i \in Customers, DeleteCustomer(r, i) PROVE BarredIsShut'
  BY <1>14, Plans DEF DeleteCustomer, Operate, Begin, customer, session,
    history, TypeOK, RightStep, RightCustomer, OpenedByCustomers,
    BarredIsShut
<1>15. ASSUME NEW r \in Requests, SetCustomerActive(r) PROVE BarredIsShut'
  BY <1>15, Proceeds DEF SetCustomerActive, GoTo, End, Registered, session,
    TypeOK, RightStep, RightCustomer, OpenedByCustomers, BarredIsShut
<1>16. ASSUME NEW r \in Requests, SetCustomerPassword(r) PROVE BarredIsShut'
  BY <1>16, Proceeds DEF SetCustomerPassword, GoTo, End, Registered,
    session, history, TypeOK, RightStep, RightCustomer, OpenedByCustomers,
    BarredIsShut
<1>17. ASSUME NEW r \in Requests, RevokeCustomerSessions(r) PROVE BarredIsShut'
  BY <1>17, Proceeds DEF RevokeCustomerSessions, GoTo, End, customer,
    TypeOK, RightStep, RightCustomer, OpenedByCustomers, BarredIsShut
<1>18. ASSUME NEW r \in Requests, DropCustomer(r) PROVE BarredIsShut'
  BY <1>18 DEF DropCustomer, End, session, history, TypeOK, RightStep,
    RightCustomer, OpenedByCustomers, BarredIsShut
<1>19. ASSUME NEW r \in Requests, Fail(r) PROVE BarredIsShut'
  BY <1>19 DEF Fail, Answer, customer, session, End, TypeOK, RightStep,
    RightCustomer, OpenedByCustomers, BarredIsShut
<1>20. ASSUME NEW s \in Sessions, Expire(s) PROVE BarredIsShut'
  BY <1>20 DEF Expire, customer, request, history, TypeOK, RightStep,
    RightCustomer, OpenedByCustomers, BarredIsShut
<1>21. CASE UNCHANGED vars
  BY <1>21 DEF vars, customer, session, request, history, TypeOK,
    RightStep, RightCustomer, OpenedByCustomers, BarredIsShut
<1>22. QED
  BY <1>1, <1>2, <1>3, <1>4, <1>5, <1>6, <1>7, <1>8, <1>9, <1>10, <1>11,
     <1>12, <1>13, <1>14, <1>15, <1>16, <1>17, <1>18, <1>19, <1>20, <1>21 DEF
     Next, Shop, Panel, Arrive

-----------------------------------------------------------------------------
(* Addresses: only InsertCustomer adds one, and it looks.                  *)

LEMMA AddressStep == IInv /\ [Next]_vars => OneAccountPerAddress'
<1> SUFFICES ASSUME TypeOK, RightStep, RightCustomer, OneAccountPerAddress, [Next]_vars
             PROVE  OneAccountPerAddress'
  BY DEF IInv
<1>1. ASSUME NEW r \in Requests, NEW a \in Addresses, CustomerSignUp(r, a) PROVE OneAccountPerAddress'
  BY <1>1 DEF CustomerSignUp, Taken, Begin, customer, session, history,
    Registered, TypeOK, RightStep, RightCustomer, OneAccountPerAddress
<1>2. ASSUME NEW r \in Requests, InsertCustomer(r) PROVE OneAccountPerAddress'
  BY <1>2 DEF InsertCustomer, UniqueAddress, customer, End, session,
    history, Taken, Registered, TypeOK, RightStep, RightCustomer,
    OneAccountPerAddress
<1>3. ASSUME NEW r \in Requests, ReadSecret(r) PROVE OneAccountPerAddress'
  BY <1>3 DEF ReadSecret, GoTo, AfterSecret, customer, session, history,
    TypeOK, RightStep, RightCustomer, OneAccountPerAddress, Registered
<1>4. ASSUME NEW r \in Requests, FillSecret(r) PROVE OneAccountPerAddress'
  BY <1>4 DEF FillSecret, SecretIsEmpty, GoTo, customer, session, history,
    TypeOK, RightStep, RightCustomer, OneAccountPerAddress, Registered
<1>5. ASSUME NEW r \in Requests, RereadSecret(r) PROVE OneAccountPerAddress'
  BY <1>5 DEF RereadSecret, GoTo, AfterSecret, customer, session, history,
    TypeOK, RightStep, RightCustomer, OneAccountPerAddress, Registered
<1>6. ASSUME NEW r \in Requests, NEW i \in Customers, CustomerSignIn(r, i) PROVE OneAccountPerAddress'
  BY <1>6 DEF CustomerSignIn, Begin, customer, session, history, TypeOK,
    RightStep, RightCustomer, OneAccountPerAddress, Registered
<1>7. ASSUME NEW r \in Requests, NEW s \in Sessions, AddSession(r, s) PROVE OneAccountPerAddress'
  BY <1>7 DEF AddSession, Outdated, End, customer, TypeOK, RightStep,
    RightCustomer, OneAccountPerAddress, Registered
<1>8. ASSUME NEW r \in Requests, NEW s \in Sessions, Cabinet(r, s) PROVE OneAccountPerAddress'
  BY <1>8 DEF Cabinet, Begin, Shut, customer, session, TypeOK, RightStep,
    RightCustomer, OneAccountPerAddress, Registered
<1>9. ASSUME NEW r \in Requests, GetSession(r) PROVE OneAccountPerAddress'
  BY <1>9 DEF GetSession, session, GoTo, Answer, customer, End, TypeOK,
    RightStep, RightCustomer, OneAccountPerAddress, Registered
<1>10. ASSUME NEW r \in Requests, CustomerByID(r) PROVE OneAccountPerAddress'
  BY <1>10 DEF CustomerByID, Unblocked, GoTo, Answer, customer, session,
    End, TypeOK, RightStep, RightCustomer, OneAccountPerAddress, Registered
<1>11. ASSUME NEW r \in Requests, Serve(r) PROVE OneAccountPerAddress'
  BY <1>11 DEF Serve, Answer, customer, End, TypeOK, RightStep,
    RightCustomer, OneAccountPerAddress, Registered
<1>12. ASSUME NEW r \in Requests, NEW i \in Customers, UpdateCustomerActive(r, i) PROVE OneAccountPerAddress'
  BY <1>12, Plans DEF UpdateCustomerActive, Registered, Operate, Begin,
    customer, session, history, TypeOK, RightStep, RightCustomer,
    OneAccountPerAddress
<1>13. ASSUME NEW r \in Requests, NEW i \in Customers, UpdateCustomerPassword(r, i) PROVE OneAccountPerAddress'
  BY <1>13, Plans DEF UpdateCustomerPassword, Registered, Operate, Begin,
    customer, session, history, TypeOK, RightStep, RightCustomer,
    OneAccountPerAddress
<1>14. ASSUME NEW r \in Requests, NEW i \in Customers, DeleteCustomer(r, i) PROVE OneAccountPerAddress'
  BY <1>14, Plans DEF DeleteCustomer, Operate, Begin, customer, session,
    history, TypeOK, RightStep, RightCustomer, OneAccountPerAddress,
    Registered
<1>15. ASSUME NEW r \in Requests, SetCustomerActive(r) PROVE OneAccountPerAddress'
  BY <1>15, Proceeds DEF SetCustomerActive, GoTo, End, Registered, session,
    TypeOK, RightStep, RightCustomer, OneAccountPerAddress
<1>16. ASSUME NEW r \in Requests, SetCustomerPassword(r) PROVE OneAccountPerAddress'
  BY <1>16, Proceeds DEF SetCustomerPassword, GoTo, End, Registered,
    session, history, TypeOK, RightStep, RightCustomer,
    OneAccountPerAddress
<1>17. ASSUME NEW r \in Requests, RevokeCustomerSessions(r) PROVE OneAccountPerAddress'
  BY <1>17, Proceeds DEF RevokeCustomerSessions, GoTo, End, customer,
    TypeOK, RightStep, RightCustomer, OneAccountPerAddress, Registered
<1>18. ASSUME NEW r \in Requests, DropCustomer(r) PROVE OneAccountPerAddress'
  BY <1>18 DEF DropCustomer, End, session, history, TypeOK, RightStep,
    RightCustomer, OneAccountPerAddress, Registered
<1>19. ASSUME NEW r \in Requests, Fail(r) PROVE OneAccountPerAddress'
  BY <1>19 DEF Fail, Answer, customer, session, End, TypeOK, RightStep,
    RightCustomer, OneAccountPerAddress, Registered
<1>20. ASSUME NEW s \in Sessions, Expire(s) PROVE OneAccountPerAddress'
  BY <1>20 DEF Expire, customer, request, history, TypeOK, RightStep,
    RightCustomer, OneAccountPerAddress, Registered
<1>21. CASE UNCHANGED vars
  BY <1>21 DEF vars, customer, session, request, history, TypeOK,
    RightStep, RightCustomer, OneAccountPerAddress, Registered
<1>22. QED
  BY <1>1, <1>2, <1>3, <1>4, <1>5, <1>6, <1>7, <1>8, <1>9, <1>10, <1>11,
     <1>12, <1>13, <1>14, <1>15, <1>16, <1>17, <1>18, <1>19, <1>20, <1>21 DEF
     Next, Shop, Panel, Arrive

-----------------------------------------------------------------------------
(* Outdated sessions: a block and a reset owe a revocation until it is done. *)

LEMMA RaceStep == IInv /\ [Next]_vars => OnlyRacesSurvive'
<1> SUFFICES ASSUME TypeOK, RightStep, RightCustomer, OpenedByCustomers, OnlyRacesSurvive, [Next]_vars
             PROVE  OnlyRacesSurvive'
  BY DEF IInv
<1>1. ASSUME NEW r \in Requests, NEW a \in Addresses, CustomerSignUp(r, a) PROVE OnlyRacesSurvive'
  BY <1>1 DEF CustomerSignUp, Taken, Begin, customer, session, history,
    Registered, TypeOK, RightStep, RightCustomer, OpenedByCustomers,
    OnlyRacesSurvive, Outdated, Revoking
<1>2. ASSUME NEW r \in Requests, InsertCustomer(r) PROVE OnlyRacesSurvive'
  BY <1>2 DEF InsertCustomer, UniqueAddress, customer, End, session,
    history, Taken, Registered, TypeOK, RightStep, RightCustomer,
    OpenedByCustomers, OnlyRacesSurvive, Outdated, Revoking
<1>3. ASSUME NEW r \in Requests, ReadSecret(r) PROVE OnlyRacesSurvive'
  BY <1>3 DEF ReadSecret, GoTo, AfterSecret, customer, session, history,
    TypeOK, RightStep, RightCustomer, OpenedByCustomers, OnlyRacesSurvive,
    Outdated, Revoking
<1>4. ASSUME NEW r \in Requests, FillSecret(r) PROVE OnlyRacesSurvive'
  BY <1>4 DEF FillSecret, SecretIsEmpty, GoTo, customer, session, history,
    TypeOK, RightStep, RightCustomer, OpenedByCustomers, OnlyRacesSurvive,
    Outdated, Revoking
<1>5. ASSUME NEW r \in Requests, RereadSecret(r) PROVE OnlyRacesSurvive'
  BY <1>5 DEF RereadSecret, GoTo, AfterSecret, customer, session, history,
    TypeOK, RightStep, RightCustomer, OpenedByCustomers, OnlyRacesSurvive,
    Outdated, Revoking
<1>6. ASSUME NEW r \in Requests, NEW i \in Customers, CustomerSignIn(r, i) PROVE OnlyRacesSurvive'
  BY <1>6 DEF CustomerSignIn, Begin, customer, session, history, TypeOK,
    RightStep, RightCustomer, OpenedByCustomers, OnlyRacesSurvive,
    Outdated, Revoking
<1>7. ASSUME NEW r \in Requests, NEW s \in Sessions, AddSession(r, s) PROVE OnlyRacesSurvive'
  BY <1>7 DEF AddSession, Outdated, End, customer, TypeOK, RightStep,
    RightCustomer, OpenedByCustomers, OnlyRacesSurvive, Revoking
<1>8. ASSUME NEW r \in Requests, NEW s \in Sessions, Cabinet(r, s) PROVE OnlyRacesSurvive'
  BY <1>8 DEF Cabinet, Begin, Shut, customer, session, TypeOK, RightStep,
    RightCustomer, OpenedByCustomers, OnlyRacesSurvive, Outdated, Revoking
<1>9. ASSUME NEW r \in Requests, GetSession(r) PROVE OnlyRacesSurvive'
  BY <1>9 DEF GetSession, session, GoTo, Answer, customer, End, TypeOK,
    RightStep, RightCustomer, OpenedByCustomers, OnlyRacesSurvive,
    Outdated, Revoking
<1>10. ASSUME NEW r \in Requests, CustomerByID(r) PROVE OnlyRacesSurvive'
  BY <1>10 DEF CustomerByID, Unblocked, GoTo, Answer, customer, session,
    End, TypeOK, RightStep, RightCustomer, OpenedByCustomers,
    OnlyRacesSurvive, Outdated, Revoking
<1>11. ASSUME NEW r \in Requests, Serve(r) PROVE OnlyRacesSurvive'
  BY <1>11 DEF Serve, Answer, customer, End, TypeOK, RightStep,
    RightCustomer, OpenedByCustomers, OnlyRacesSurvive, Outdated, Revoking
<1>12. ASSUME NEW r \in Requests, NEW i \in Customers, UpdateCustomerActive(r, i) PROVE OnlyRacesSurvive'
  BY <1>12, Plans DEF UpdateCustomerActive, Registered, Operate, Begin,
    customer, session, history, TypeOK, RightStep, RightCustomer,
    OpenedByCustomers, OnlyRacesSurvive, Outdated, Revoking
<1>13. ASSUME NEW r \in Requests, NEW i \in Customers, UpdateCustomerPassword(r, i) PROVE OnlyRacesSurvive'
  BY <1>13, Plans DEF UpdateCustomerPassword, Registered, Operate, Begin,
    customer, session, history, TypeOK, RightStep, RightCustomer,
    OpenedByCustomers, OnlyRacesSurvive, Outdated, Revoking
<1>14. ASSUME NEW r \in Requests, NEW i \in Customers, DeleteCustomer(r, i) PROVE OnlyRacesSurvive'
  BY <1>14, Plans DEF DeleteCustomer, Operate, Begin, customer, session,
    history, TypeOK, RightStep, RightCustomer, OpenedByCustomers,
    OnlyRacesSurvive, Outdated, Revoking
<1>15. ASSUME NEW r \in Requests, SetCustomerActive(r) PROVE OnlyRacesSurvive'
  BY <1>15, Proceeds DEF SetCustomerActive, GoTo, End, Registered, session,
    TypeOK, RightStep, RightCustomer, OpenedByCustomers, OnlyRacesSurvive,
    Outdated, Revoking
<1>16. ASSUME NEW r \in Requests, SetCustomerPassword(r) PROVE OnlyRacesSurvive'
  BY <1>16, Proceeds DEF SetCustomerPassword, GoTo, End, Registered,
    session, history, TypeOK, RightStep, RightCustomer, OpenedByCustomers,
    OnlyRacesSurvive, Outdated, Revoking
<1>17. ASSUME NEW r \in Requests, RevokeCustomerSessions(r) PROVE OnlyRacesSurvive'
  BY <1>17, Proceeds DEF RevokeCustomerSessions, GoTo, End, customer,
    TypeOK, RightStep, RightCustomer, OpenedByCustomers, OnlyRacesSurvive,
    Outdated, Revoking
<1>18. ASSUME NEW r \in Requests, DropCustomer(r) PROVE OnlyRacesSurvive'
  BY <1>18 DEF DropCustomer, End, session, history, TypeOK, RightStep,
    RightCustomer, OpenedByCustomers, OnlyRacesSurvive, Outdated, Revoking
<1>19. ASSUME NEW r \in Requests, Fail(r) PROVE OnlyRacesSurvive'
  BY <1>19 DEF Fail, Answer, customer, session, End, TypeOK, RightStep,
    RightCustomer, OpenedByCustomers, OnlyRacesSurvive, Outdated, Revoking
<1>20. ASSUME NEW s \in Sessions, Expire(s) PROVE OnlyRacesSurvive'
  BY <1>20 DEF Expire, customer, request, history, TypeOK, RightStep,
    RightCustomer, OpenedByCustomers, OnlyRacesSurvive, Outdated, Revoking
<1>21. CASE UNCHANGED vars
  BY <1>21 DEF vars, customer, session, request, history, TypeOK,
    RightStep, RightCustomer, OpenedByCustomers, OnlyRacesSurvive,
    Outdated, Revoking
<1>22. QED
  BY <1>1, <1>2, <1>3, <1>4, <1>5, <1>6, <1>7, <1>8, <1>9, <1>10, <1>11,
     <1>12, <1>13, <1>14, <1>15, <1>16, <1>17, <1>18, <1>19, <1>20, <1>21 DEF
     Next, Shop, Panel, Arrive

-----------------------------------------------------------------------------
(* The theorems.                                                           *)

LEMMA Start == Init => IInv
<1> SUFFICES ASSUME Init PROVE IInv
  OBVIOUS
<1>1. TypeOK
  BY ResetsAssumption DEF Init, TypeOK, Ops, Steps
<1>2. RightStep /\ RightCustomer
  BY DEF Init, RightStep, RightCustomer
<1>3. OpenedByCustomers /\ HoldsSecret /\ TokensVerify
  BY DEF Init, OpenedByCustomers, HoldsSecret, TokensVerify
<1>4. BarredIsShut /\ OneAccountPerAddress /\ OnlyRacesSurvive
  BY DEF Init, BarredIsShut, OneAccountPerAddress, OnlyRacesSurvive, Registered
<1>5. QED
  BY <1>1, <1>2, <1>3, <1>4 DEF IInv

\* Every state a shop can reach satisfies the inductive invariant: handlers hold
\* what they read, sessions and the key are as AccountSecret and AddSession left them.
THEOREM Inductive == Spec => []IInv
<1>1. IInv /\ [Next]_vars => IInv'
  BY TypeStep, RightStepStep, RightCustomerStep, SessionStep, SecretStep, BarredStep,
     AddressStep, RaceStep DEF IInv
<1>2. QED
  BY Start, <1>1, PTL DEF Spec

\* The tables and the running requests keep their types.
THEOREM TypeCorrect == Spec => []TypeOK
<1>1. IInv => TypeOK
  BY DEF IInv
<1>2. QED
  BY Inductive, <1>1, PTL

\* CreateCustomer never gives one address to two accounts, however many
\* sign-ups find it free.
THEOREM AddressesAreUnique == Spec => []OneAccountPerAddress
<1>1. IInv => OneAccountPerAddress
  BY DEF IInv
<1>2. QED
  BY Inductive, <1>1, PTL

\* AccountSecret never lets a token out that the stored key does not verify.
THEOREM TokensAlwaysVerify == Spec => []TokensVerify
<1>1. IInv => TokensVerify
  BY DEF IInv
<1>2. QED
  BY Inductive, <1>1, PTL

\* CustomerJWTProtected serves no request that began with its account blocked
\* or gone, until the operator lets the customer in again.
THEOREM BlockedStaysOut == Spec => []BlockedIsNotServed
<1>1. IInv => BlockedIsNotServed
  BY DEF IInv, BarredIsShut, BlockedIsNotServed
<1>2. QED
  BY Inductive, <1>1, PTL

\* A block and a reset end every session of the account, but for sign-ins that
\* overlap them.
THEOREM SessionsEnd == Spec => []OnlyRacesSurvive
<1>1. IInv => OnlyRacesSurvive
  BY DEF IInv
<1>2. QED
  BY Inductive, <1>1, PTL
=============================================================================

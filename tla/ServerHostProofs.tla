-------------------------- MODULE ServerHostProofs --------------------------
(***************************************************************************)
(* The NAT rules, for every number of server processes, every set of       *)
(* interfaces and every configuration.                                     *)
(*                                                                         *)
(* The invariant adds that a process has a _nat_interface only between     *)
(* setup_nat and _cleanup (NatWhileUp): without it setup_nat could give a  *)
(* process its second rule.  Every step then either leaves the holders of  *)
(* an interface alone, adds the one that set a rule up or takes the one    *)
(* that ends away.                                                         *)
(***************************************************************************)
EXTENDS ServerHost, FiniteSetTheorems, TLAPS

NatWhileUp ==
    \A p \in Procs : pc[p] \in {"off", "open", "set_ip", "find", "nat", "close"} => nat_if[p] = None

HostInv == HostTypeOK /\ NatWhileUp /\ NatHeld /\ NoStrayRules

-----------------------------------------------------------------------------
\* The holders of an interface are finitely many.
LEMMA HoldersCounted ==
    \A u : IsFiniteSet(Holders(u)) /\ Cardinality(Holders(u)) \in Nat
<1> TAKE u
<1>1. Holders(u) \subseteq Procs
  BY DEF Holders
<1>2. IsFiniteSet(Holders(u))
  BY <1>1, HostConstants, FS_Subset
<1> QED BY <1>2, FS_CardinalityType

\* A process that gives its interface up.
LEMMA HolderLeaves ==
    ASSUME HostTypeOK, NEW p \in Procs, nat_if' = [nat_if EXCEPT ![p] = None], NEW u \in Uplinks
    PROVE  Cardinality(Holders(u)') =
               IF nat_if[p] = u THEN Cardinality(Holders(u)) - 1 ELSE Cardinality(Holders(u))
<1>1. Holders(u)' = Holders(u) \ {p}
  BY HostConstants DEF Holders, HostTypeOK
<1>2. p \in Holders(u) <=> nat_if[p] = u
  BY DEF Holders
<1> QED BY <1>1, <1>2, HoldersCounted, FS_RemoveElement

\* A process that had none and gets one.
LEMMA HolderJoins ==
    ASSUME HostTypeOK, NEW p \in Procs, nat_if[p] = None, NEW up \in Uplinks,
           nat_if' = [nat_if EXCEPT ![p] = up], NEW u \in Uplinks
    PROVE  Cardinality(Holders(u)') =
               IF u = up THEN Cardinality(Holders(u)) + 1 ELSE Cardinality(Holders(u))
<1>1. p \notin Holders(u)
  BY HostConstants DEF Holders
<1>2. CASE u = up
  <2>1. Holders(u)' = Holders(u) \cup {p}
    BY <1>2 DEF Holders, HostTypeOK
  <2> QED BY <1>1, <1>2, <2>1, HoldersCounted, FS_AddElement
<1>3. CASE u # up
  <2>1. Holders(u)' = Holders(u)
    BY <1>1, <1>3 DEF Holders, HostTypeOK
  <2> QED BY <1>3, <2>1
<1> QED BY <1>2, <1>3

\* A step that touches no rule and no _nat_interface.
LEMMA RulesFramed ==
    ASSUME HostInv, UNCHANGED <<nat_if, nat, left>>
    PROVE  NatHeld' /\ NoStrayRules'
<1>1. \A u : Holders(u)' = Holders(u)
  BY DEF Holders
<1> QED BY <1>1 DEF HostInv, NatHeld, NoStrayRules

LEMMA LeftTyped ==
    ASSUME HostTypeOK, NEW p, LeavesRule(p)
    PROVE  left' \in [Uplinks -> Nat]
<1>1. \A u \in Uplinks : left[u] + 1 \in Nat
  BY DEF HostTypeOK
<1> QED BY <1>1 DEF HostTypeOK, LeavesRule

\* setup_nat.
LEMMA SetupKeeps ==
    ASSUME HostInv, NEW p \in Procs, SetupNat(p)
    PROVE  HostInv'
<1> DEFINE up == nat_iface[p]
<1>1. HostTypeOK /\ NatWhileUp /\ NatHeld /\ NoStrayRules
  BY DEF HostInv
<1>2. /\ pc[p] = "nat" /\ pc' = [pc EXCEPT ![p] = "drop"]
      /\ up \in Uplinks /\ nat[up] < MaxRules
      /\ nat' = [nat EXCEPT ![up] = @ + 1]
      /\ nat_iface' = [nat_iface EXCEPT ![p] = None]
      /\ nat_if' = [nat_if EXCEPT ![p] = up] /\ left' = left
      /\ UNCHANGED <<conf, root, device, addressed, forwarding, uplink>>
  BY <1>1 DEF SetupNat, NatDone, GoesOn, HostTypeOK
<1> HIDE DEF up
<1>3. nat_if[p] = None
  BY <1>1, <1>2 DEF NatWhileUp
<1>4. nat' \in [Uplinks -> 0..MaxRules]
  BY <1>1, <1>2, HostConstants DEF HostTypeOK
<1>5. HostTypeOK'
  BY <1>1, <1>2, <1>4 DEF HostTypeOK, Steps
<1>6. NatWhileUp'
  BY <1>1, <1>2 DEF NatWhileUp, HostTypeOK
<1>7. ASSUME NEW u \in Uplinks
      PROVE  /\ Cardinality(Holders(u)') =
                   IF u = up THEN Cardinality(Holders(u)) + 1 ELSE Cardinality(Holders(u))
             /\ nat'[u] = IF u = up THEN nat[u] + 1 ELSE nat[u]
             /\ Cardinality(Holders(u)) \in Nat /\ nat[u] \in Nat
  <2>1. Cardinality(Holders(u)') =
           IF u = up THEN Cardinality(Holders(u)) + 1 ELSE Cardinality(Holders(u))
    BY <1>1, <1>2, <1>3, HolderJoins
  <2>2. nat[u] \in Nat
    BY <1>1, HostConstants DEF HostTypeOK
  <2>3. nat'[u] = IF u = up THEN nat[u] + 1 ELSE nat[u]
    BY <1>1, <1>2 DEF HostTypeOK
  <2> QED BY <2>1, <2>2, <2>3, HoldersCounted
<1>8. NatHeld'
  BY <1>1, <1>7 DEF NatHeld
<1>9. NoStrayRules'
  <2> SUFFICES ASSUME NEW u \in Uplinks
               PROVE  nat'[u] = Cardinality(Holders(u)') + left'[u]
    BY DEF NoStrayRules
  <2>1. nat[u] = Cardinality(Holders(u)) + left[u] /\ left[u] \in Nat
    BY <1>1 DEF NoStrayRules, HostTypeOK
  <2> QED BY <1>2, <1>7, <2>1
<1> QED BY <1>5, <1>6, <1>8, <1>9 DEF HostInv

\* teardown_nat, by whoever still may.
LEMMA CleanupKeeps ==
    ASSUME HostInv, NEW p \in Procs, HostCleanup(p)
    PROVE  HostInv'
<1>1. HostTypeOK /\ NatWhileUp /\ NatHeld /\ NoStrayRules
  BY DEF HostInv
<1>2. /\ pc[p] = "cleanup" /\ pc' = [pc EXCEPT ![p] = "close"]
      /\ nat' = RulesWithout(p) /\ nat_if' = [nat_if EXCEPT ![p] = None]
      /\ \/ root[p] /\ left' = left
         \/ ~root[p] /\ LeavesRule(p)
      /\ UNCHANGED <<conf, root, nat_iface, device, addressed, forwarding, uplink>>
  BY DEF HostCleanup, GoesOn
<1>3. nat' \in [Uplinks -> 0..MaxRules]
  BY <1>1, <1>2, HostConstants DEF HostTypeOK, RulesWithout
<1>4. HostTypeOK'
  BY <1>1, <1>2, <1>3, LeftTyped DEF HostTypeOK, Steps
<1>5. NatWhileUp'
  BY <1>1, <1>2 DEF NatWhileUp, HostTypeOK
<1>6. ASSUME NEW u \in Uplinks
      PROVE  /\ Cardinality(Holders(u)') =
                   IF nat_if[p] = u THEN Cardinality(Holders(u)) - 1 ELSE Cardinality(Holders(u))
             /\ nat'[u] = IF u = nat_if[p] /\ root[p] /\ nat[u] > 0 THEN nat[u] - 1 ELSE nat[u]
             /\ Cardinality(Holders(u)) \in Nat /\ nat[u] \in Nat
             /\ nat_if[p] = u => Cardinality(Holders(u)) > 0
  <2>1. nat_if[p] = u => Holders(u) # {}
    BY DEF Holders
  <2>2. nat_if[p] = u => Cardinality(Holders(u)) > 0
    BY <2>1, HoldersCounted, FS_EmptySet
  <2>3. Cardinality(Holders(u)') =
           IF nat_if[p] = u THEN Cardinality(Holders(u)) - 1 ELSE Cardinality(Holders(u))
    BY <1>1, <1>2, HolderLeaves
  <2>4. nat[u] \in Nat
    BY <1>1, HostConstants DEF HostTypeOK
  <2>5. nat'[u] = IF u = nat_if[p] /\ root[p] /\ nat[u] > 0 THEN nat[u] - 1 ELSE nat[u]
    BY <1>2 DEF RulesWithout
  <2> QED BY <2>2, <2>3, <2>4, <2>5, HoldersCounted
<1>7. NatHeld'
  BY <1>1, <1>6 DEF NatHeld
<1>8. NoStrayRules'
  <2> SUFFICES ASSUME NEW u \in Uplinks
               PROVE  nat'[u] = Cardinality(Holders(u)') + left'[u]
    BY DEF NoStrayRules
  <2>1. nat[u] = Cardinality(Holders(u)) + left[u] /\ left[u] \in Nat
    BY <1>1 DEF NoStrayRules, HostTypeOK
  <2>2. CASE root[p]
    BY <1>2, <1>6, <2>1, <2>2
  <2>3. CASE ~root[p]
    <3>1. left'[u] = IF u = nat_if[p] THEN left[u] + 1 ELSE left[u]
      BY <1>2, <2>3 DEF LeavesRule
    <3> QED BY <1>6, <2>1, <2>3, <3>1
  <2> QED BY <2>2, <2>3
<1> QED BY <1>4, <1>5, <1>7, <1>8 DEF HostInv

\* A process that ends without _cleanup: its rule is one left behind.
LEMMA DyingKeeps ==
    ASSUME HostInv, NEW p \in Procs, Dies(p)
    PROVE  HostInv'
<1>1. HostTypeOK /\ NatWhileUp /\ NatHeld /\ NoStrayRules
  BY DEF HostInv
<1>2. /\ pc' = [pc EXCEPT ![p] = "off"] /\ nat' = nat
      /\ nat_if' = [nat_if EXCEPT ![p] = None]
      /\ LeavesRule(p)
  BY DEF Dies
<1>3. HostTypeOK'
  <2>1. left' \in [Uplinks -> Nat]
    BY <1>1, <1>2, LeftTyped
  <2> QED BY <1>1, <2>1, HostConstants DEF Dies, HostTypeOK, Steps, Configs, NoConf
<1>4. NatWhileUp'
  BY <1>1, <1>2 DEF NatWhileUp, HostTypeOK
<1>5. ASSUME NEW u \in Uplinks
      PROVE  /\ Cardinality(Holders(u)') =
                   IF nat_if[p] = u THEN Cardinality(Holders(u)) - 1 ELSE Cardinality(Holders(u))
             /\ left'[u] = IF nat_if[p] = u THEN left[u] + 1 ELSE left[u]
             /\ Cardinality(Holders(u)) \in Nat /\ nat[u] \in Nat /\ left[u] \in Nat
  <2>1. Cardinality(Holders(u)') =
           IF nat_if[p] = u THEN Cardinality(Holders(u)) - 1 ELSE Cardinality(Holders(u))
    BY <1>1, <1>2, HolderLeaves
  <2>2. nat[u] \in Nat /\ left[u] \in Nat
    BY <1>1, HostConstants DEF HostTypeOK
  <2>3. left'[u] = IF nat_if[p] = u THEN left[u] + 1 ELSE left[u]
    BY <1>2 DEF LeavesRule
  <2> QED BY <2>1, <2>2, <2>3, HoldersCounted
<1>6. NatHeld'
  BY <1>1, <1>2, <1>5 DEF NatHeld
<1>7. NoStrayRules'
  BY <1>1, <1>2, <1>5, HostConstants DEF NoStrayRules
<1> QED BY <1>3, <1>4, <1>6, <1>7 DEF HostInv

\* Every other step of a process.
LEMMA GoingOnKeeps ==
    ASSUME HostInv, NEW p \in Procs,
           \/ \E filePort, cliPort \in Ports \cup {None}, user \in Users \cup {None} :
                 Launch(p, filePort, cliPort, user)
           \/ OpenTun(p) \/ SetIp(p) \/ FindUplink(p) \/ SkipNat(p) \/ DropPrivileges(p)
           \/ Listen(p) \/ Stop(p) \/ CloseTun(p)
    PROVE  HostInv'
<1>1. HostTypeOK /\ NatWhileUp
  BY DEF HostInv
<1>2. UNCHANGED <<nat_if, nat, left>>
  BY DEF Launch, OpenTun, SetIp, FindUplink, SkipNat, DropPrivileges, Listen, Stop, CloseTun,
         netVars
<1>3. NatHeld' /\ NoStrayRules'
  BY <1>2, RulesFramed
<1>4. ASSUME NEW filePort \in Ports \cup {None}, NEW cliPort \in Ports \cup {None},
             NEW user \in Users \cup {None}, Launch(p, filePort, cliPort, user)
      PROVE  HostTypeOK' /\ NatWhileUp'
  <2>1. [port |-> Chosen(filePort, cliPort), user |-> user] \in Configs
    BY DEF Chosen, Configs
  <2>2. conf' \in [Procs -> Configs]
    BY <1>1, <1>4, <2>1 DEF Launch, HostTypeOK
  <2>3. HostTypeOK'
    BY <1>1, <1>4, <2>2 DEF Launch, HostTypeOK, Steps, netVars
  <2>4. NatWhileUp'
    BY <1>1, <1>4 DEF Launch, NatWhileUp, HostTypeOK
  <2> QED BY <2>3, <2>4
<1>5. ASSUME OpenTun(p) \/ SetIp(p) PROVE HostTypeOK' /\ NatWhileUp'
  <2>1. HostTypeOK'
    BY <1>1, <1>5 DEF OpenTun, SetIp, GoesOn, HostTypeOK, Steps
  <2>2. NatWhileUp'
    BY <1>1, <1>5 DEF OpenTun, SetIp, GoesOn, NatWhileUp, HostTypeOK
  <2> QED BY <2>1, <2>2
<1>6. ASSUME CloseTun(p) PROVE HostTypeOK' /\ NatWhileUp'
  <2>1. conf' \in [Procs -> Configs]
    BY <1>1, <1>6 DEF CloseTun, HostTypeOK, Configs, NoConf
  <2>2. device' \in Procs \cup {None}
    BY <1>1, <1>6 DEF CloseTun, HostTypeOK
  <2>3. pc' \in [Procs -> Steps] /\ root' \in [Procs -> BOOLEAN] /\ addressed' \in BOOLEAN
    BY <1>1, <1>6 DEF CloseTun, GoesOn, HostTypeOK, Steps
  <2>4. HostTypeOK'
    BY <1>1, <1>6, <2>1, <2>2, <2>3 DEF CloseTun, HostTypeOK
  <2>5. NatWhileUp'
    BY <1>1, <1>6 DEF CloseTun, GoesOn, NatWhileUp, HostTypeOK
  <2> QED BY <2>4, <2>5
<1>7. ASSUME FindUplink(p) \/ SkipNat(p) PROVE HostTypeOK' /\ NatWhileUp'
  <2>1. PICK u \in Uplinks \cup {None} : nat_iface' = [nat_iface EXCEPT ![p] = u]
    BY <1>1, <1>7 DEF FindUplink, SkipNat, NatDone, HostTypeOK
  <2>2. nat_iface' \in [Procs -> Uplinks \cup {None}]
    BY <1>1, <2>1 DEF HostTypeOK
  <2>3. pc' \in [Procs -> Steps]
    BY <1>1, <1>7 DEF FindUplink, SkipNat, NatDone, GoesOn, HostTypeOK, Steps
  <2>4. UNCHANGED <<conf, root, nat_if, device, netVars, left>>
    BY <1>7 DEF FindUplink, SkipNat
  <2>5. HostTypeOK'
    BY <1>1, <2>2, <2>3, <2>4 DEF HostTypeOK, netVars
  <2>6. NatWhileUp'
    BY <1>1, <1>7, <2>4 DEF FindUplink, SkipNat, NatDone, GoesOn, NatWhileUp, HostTypeOK
  <2> QED BY <2>5, <2>6
<1>8. ASSUME DropPrivileges(p) \/ Listen(p) \/ Stop(p) PROVE HostTypeOK' /\ NatWhileUp'
  <2>1. HostTypeOK'
    BY <1>1, <1>8 DEF DropPrivileges, Listen, Stop, GoesOn, HostTypeOK, Steps, netVars
  <2>2. NatWhileUp'
    BY <1>1, <1>8 DEF DropPrivileges, Listen, Stop, GoesOn, NatWhileUp, HostTypeOK
  <2> QED BY <2>1, <2>2
<1> QED BY <1>3, <1>4, <1>5, <1>6, <1>7, <1>8 DEF HostInv

-----------------------------------------------------------------------------
\* So the invariant is one.
LEMMA HostInvariant ==
    HostSpec => []HostInv
<1>1. HostInit => HostInv
  <2> SUFFICES ASSUME HostInit PROVE HostInv
    OBVIOUS
  <2>1. \A u \in Uplinks : nat[u] = 0 /\ left[u] = 0 /\ Cardinality(Holders(u)) = 0
    <3> TAKE u \in Uplinks
    <3>1. Holders(u) = {}
      BY HostConstants DEF HostInit, Holders
    <3> QED BY <3>1, FS_EmptySet DEF HostInit
  <2>2. NatHeld /\ NoStrayRules
    BY <2>1 DEF NatHeld, NoStrayRules
  <2>3. nat \in [Uplinks -> 0..MaxRules]
    BY HostConstants DEF HostInit
  <2>4. HostTypeOK
    BY <2>3, HostConstants DEF HostInit, HostTypeOK, Steps, Configs, NoConf
  <2> QED BY <2>2, <2>4 DEF HostInit, HostInv, NatWhileUp
<1>2. HostInv /\ [HostNext]_hvars => HostInv'
  <2> SUFFICES ASSUME HostInv, [HostNext]_hvars PROVE HostInv'
    OBVIOUS
  <2>1. ASSUME NEW p \in Procs, StartFails(p) \/ Kill(p) PROVE HostInv'
    BY <2>1, DyingKeeps DEF StartFails, Kill
  <2>2. ASSUME NEW u \in Uplinks \cup {None}, Reroute(u) PROVE HostInv'
    <3>1. NatHeld' /\ NoStrayRules'
      BY <2>2, RulesFramed DEF Reroute, procVars
    <3>2. HostTypeOK' /\ NatWhileUp'
      BY <2>2 DEF Reroute, procVars, HostInv, HostTypeOK, NatWhileUp
    <3> QED BY <3>1, <3>2 DEF HostInv
  <2>3. CASE UNCHANGED hvars
    <3>1. NatHeld' /\ NoStrayRules'
      BY <2>3, RulesFramed DEF hvars, procVars, netVars
    <3>2. HostTypeOK' /\ NatWhileUp'
      BY <2>3 DEF hvars, procVars, netVars, HostInv, HostTypeOK, NatWhileUp
    <3> QED BY <3>1, <3>2 DEF HostInv
  <2> QED BY <2>1, <2>2, <2>3, SetupKeeps, CleanupKeeps, GoingOnKeeps DEF HostNext
<1> QED BY <1>1, <1>2, PTL DEF HostSpec

\* The variables keep their types; the bound on the rules is never passed.
THEOREM HostTyped == HostSpec => []HostTypeOK
BY HostInvariant, PTL DEF HostInv

\* setup_nat's "-A" whatever "-C" said, and teardown_nat's single "-D" on
\* the interface of setup_nat, leave every living server its rule.
THEOREM RulesAreHeld == HostSpec => []NatHeld
BY HostInvariant, PTL DEF HostInv

\* Servers that are stopped, and still root then, leave no rule behind and
\* take none that is not theirs.
THEOREM NoRuleIsStray == HostSpec => []NoStrayRules
BY HostInvariant, PTL DEF HostInv
=============================================================================

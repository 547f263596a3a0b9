------------------------- MODULE AgentMeshInitProofs -------------------------
(***************************************************************************)
(* Theorems about AgentMeshInit, for every config domain and bound.        *)
(***************************************************************************)
EXTENDS AgentMeshInit, TLAPS

\* The bound on transient failures keeps rejects in range.
LEMMA RejectsTypeOK ==
    ASSUME rejects \in 0..MaxRejects,
           \/ rejects < MaxRejects /\ rejects' = rejects + 1
           \/ rejects' = rejects
    PROVE  rejects' \in 0..MaxRejects
BY AgentMeshInitAssumption

\* Every step of Run and realRun keeps the state well typed.
LEMMA NextTypeOK == TypeOK /\ [Next]_vars => TypeOK'
<1> SUFFICES ASSUME TypeOK, [Next]_vars PROVE TypeOK'
  OBVIOUS
<1>1. conf' \in Configs
  BY DEF Next, vars, TypeOK
<1>2. rejects' \in 0..MaxRejects
  <2>1. \/ rejects < MaxRejects /\ rejects' = rejects + 1
        \/ rejects' = rejects
    BY DEF Next, vars, meshVars, Step, Run, PrepareRegistration,
           RegisterService, RegisterProxy, Register, WriteEnvoyBootstrap,
           CopyBinary
  <2>2. QED
    BY <2>1, RejectsTypeOK DEF TypeOK
<1>3. /\ pc' \in {"start", "realRun", "registerService", "registerProxy",
                  "bootstrap", "copyBinary", "exited"}
      /\ exitCode' \in {0, 1}
      /\ files' \subseteq {"envoy-bootstrap.json", "consul-ecs"}
  BY DEF Next, vars, meshVars, Step, Run, PrepareRegistration, Fail,
         RegisterService, RegisterProxy, Register, WriteEnvoyBootstrap,
         CopyBinary, TypeOK
<1>4. QED
  BY <1>1, <1>2, <1>3 DEF TypeOK

\* Every state of the agent-API mesh-init is well typed, and the number of
\* transient registration failures stays within MaxRejects.
THEOREM TypeCorrect == Spec => []TypeOK
<1>1. Init => TypeOK
  BY AgentMeshInitAssumption DEF Init, TypeOK
<1>2. TypeOK /\ [Next]_vars => TypeOK'
  BY NextTypeOK
<1>3. QED
  BY <1>1, <1>2, PTL DEF Spec

(***************************************************************************)
(* The inductive invariant behind RunRegistersAsConfigured: what each     *)
(* statement of realRun finds done by the earlier ones.                    *)
(***************************************************************************)

\* Run returned 0.
Succeeded == pc = "exited" /\ exitCode = 0

\* realRun is past constructChecks (or has succeeded).
Prepared ==
    \/ pc \in {"registerService", "registerProxy", "bootstrap", "copyBinary"}
    \/ Succeeded

\* realRun is past the service registration.
ServiceRegistered ==
    pc \in {"registerProxy", "bootstrap", "copyBinary"} \/ Succeeded

\* realRun is past the proxy registration.
ProxyRegistered == pc \in {"bootstrap", "copyBinary"} \/ Succeeded

IInv ==
    /\ TypeOK
    /\ ConflictingChecks(conf) => agent = {}
    /\ Prepared =>
          /\ ~ConflictingChecks(conf)
          /\ checks = ConstructChecks(ServiceID(conf), conf.checks,
                                      conf.healthSync)
    /\ ServiceRegistered =>
          ServiceRegistration(conf, checks, fullMeta) \in agent
    /\ ProxyRegistered => ProxyRegistration(conf, fullMeta) \in agent
    /\ pc = "copyBinary" => "envoy-bootstrap.json" \in files
    /\ Succeeded => files = {"envoy-bootstrap.json", "consul-ecs"}

\* constructChecks without conflicting settings yields exactly the checks
\* the config asks for.
LEMMA ChecksAsExpected ==
    ASSUME NEW c, ~ConflictingChecks(c)
    PROVE  ConstructChecks(ServiceID(c), c.checks, c.healthSync) = ExpectedChecks(c)
<1>1. CASE c.healthSync = <<>>
  BY <1>1 DEF ConstructChecks, ExpectedChecks
<1>2. CASE c.healthSync # <<>>
  <2>1. c.checks = {}
    BY <1>2 DEF ConflictingChecks
  <2>2. QED
    BY <1>2, <2>1 DEF ConstructChecks, ExpectedChecks
<1>3. QED
  BY <1>1, <1>2

\* The service's ID and its proxy's ID differ, so the agent's replacement
\* of a registration with the proxy's ID keeps the service.
LEMMA ServiceNotProxy ==
    ASSUME NEW c
    PROVE  ServiceID(c) # ProxyID(c)
BY AgentMeshInitAssumption DEF ServiceID, ProxyID

LEMMA InitIInv == Init => IInv
BY AgentMeshInitAssumption
DEF Init, IInv, TypeOK, Succeeded, Prepared, ServiceRegistered, ProxyRegistered

\* IInv is inductive: one step per statement of Run and realRun.
LEMMA NextIInv == IInv /\ [Next]_vars => IInv'
<1> SUFFICES ASSUME IInv, [Next]_vars PROVE IInv'
  OBVIOUS
<1>0. TypeOK'
  BY NextTypeOK DEF IInv
<1> USE DEF IInv, Succeeded, Prepared, ServiceRegistered, ProxyRegistered
<1>1. CASE Step /\ UNCHANGED <<conf, token, grants>>
  <2>1. CASE Run
    <3>1. /\ UNCHANGED <<checks, fullMeta, agent, files>>
          /\ \/ pc' = "exited" /\ exitCode' = 1
             \/ pc' = "realRun"
      BY <2>1 DEF Run, Fail
    <3>2. QED
      BY <1>0, <1>1, <3>1
  <2>2. CASE PrepareRegistration
    <3>1. UNCHANGED <<agent, files>>
      BY <2>2 DEF PrepareRegistration
    <3>2. CASE pc' = "exited" /\ exitCode' = 1
      BY <1>0, <1>1, <3>1, <3>2
    <3>3. CASE /\ ~ConflictingChecks(conf)
               /\ checks' = ConstructChecks(ServiceID(conf), conf.checks,
                                            conf.healthSync)
               /\ pc' = "registerService"
      BY <1>0, <1>1, <3>1, <3>3 DEF TypeOK
    <3>4. QED
      BY <2>2, <3>2, <3>3 DEF PrepareRegistration, Fail
  <2>3. CASE RegisterService
    <3>1. /\ pc = "registerService"
          /\ UNCHANGED <<exitCode, checks, fullMeta, files>>
      BY <2>3 DEF RegisterService
    <3>2. ~ConflictingChecks(conf)
      BY <3>1
    <3>3. CASE /\ agent' = {r \in agent : r.id # ServiceID(conf)}
                          \cup {ServiceRegistration(conf, checks, fullMeta)}
               /\ pc' = "registerProxy"
      BY <1>0, <1>1, <3>1, <3>2, <3>3
    <3>4. CASE UNCHANGED <<agent, pc>>
      BY <1>0, <1>1, <3>1, <3>4
    <3>5. QED
      BY <2>3, <3>3, <3>4 DEF RegisterService, Register, ServiceRegistration
  <2>4. CASE RegisterProxy
    <3>1. /\ pc = "registerProxy"
          /\ UNCHANGED <<exitCode, checks, fullMeta, files>>
      BY <2>4 DEF RegisterProxy
    <3>2. ~ConflictingChecks(conf)
          /\ ServiceRegistration(conf, checks, fullMeta) \in agent
      BY <3>1
    <3>3. CASE /\ agent' = {r \in agent : r.id # ProxyID(conf)}
                          \cup {ProxyRegistration(conf, fullMeta)}
               /\ pc' = "bootstrap"
      <4>1. ServiceRegistration(conf, checks, fullMeta).id # ProxyID(conf)
        BY ServiceNotProxy DEF ServiceRegistration
      <4>2. QED
        BY <1>0, <1>1, <3>1, <3>2, <3>3, <4>1
    <3>4. CASE UNCHANGED <<agent, pc>>
      BY <1>0, <1>1, <3>1, <3>4
    <3>5. QED
      BY <2>4, <3>3, <3>4 DEF RegisterProxy, Register, ProxyRegistration
  <2>5. CASE WriteEnvoyBootstrap
    <3>1. /\ pc = "bootstrap"
          /\ UNCHANGED <<checks, fullMeta, agent>>
          /\ \/ pc' = "exited" /\ exitCode' = 1
             \/ /\ files' = files \cup {"envoy-bootstrap.json"}
                /\ pc' = "copyBinary"
      BY <2>5 DEF WriteEnvoyBootstrap, Fail
    <3>2. QED
      BY <1>0, <1>1, <3>1
  <2>6. CASE CopyBinary
    <3>1. /\ pc = "copyBinary"
          /\ UNCHANGED <<checks, fullMeta, agent>>
      BY <2>6 DEF CopyBinary
    <3>2. CASE pc' = "exited" /\ exitCode' = 1
      BY <1>0, <1>1, <3>1, <3>2
    <3>3. CASE /\ files' = files \cup {"consul-ecs"}
               /\ pc' = "exited"
               /\ exitCode' = 0
      <4>1. files' = {"envoy-bootstrap.json", "consul-ecs"}
        BY <3>1, <3>3 DEF TypeOK
      <4>2. QED
        BY <1>0, <1>1, <3>1, <3>3, <4>1
    <3>4. QED
      BY <2>6, <3>2, <3>3 DEF CopyBinary, Fail
  <2>7. QED
    BY <1>1, <2>1, <2>2, <2>3, <2>4, <2>5, <2>6 DEF Step
<1>2. CASE UNCHANGED vars
  BY <1>0, <1>2 DEF vars, meshVars
<1>3. QED
  BY <1>1, <1>2 DEF Next

\* A run of mesh-init that returns 0 has registered with the agent the
\* service, under its ID and with the checks the config asks for, and the
\* proxy, each with realRun's metadata, and written both files; a config
\* with both kinds of checks registers nothing.  This holds for every
\* config, token and bound on the agent's transient failures.
THEOREM RegistersAsConfigured == Spec => []RunRegistersAsConfigured
<1>1. Init => IInv
  BY InitIInv
<1>2. IInv /\ [Next]_vars => IInv'
  BY NextIInv
<1>3. IInv => RunRegistersAsConfigured
  <2> SUFFICES ASSUME IInv PROVE RunRegistersAsConfigured
    OBVIOUS
  <2>1. Succeeded => checks = ExpectedChecks(conf)
    BY ChecksAsExpected DEF IInv, Prepared
  <2>2. QED
    BY <2>1 DEF IInv, RunRegistersAsConfigured, Succeeded, ServiceRegistered,
             ProxyRegistered
<1>4. QED
  BY <1>1, <1>2, <1>3, PTL DEF Spec


-----------------------------------------------------------------------------
(***************************************************************************)
(* AgentMeshInit implements TaskBootstrap under the mapping Contract.      *)
(* Beyond IInv, the step that computes fullMeta must find no registration *)
(* with the agent, since the expected registrations carry fullMeta.        *)
(***************************************************************************)
NothingRegisteredBeforePrepare ==
    pc \in {"start", "realRun"} => agent = {}

RInv == IInv /\ NothingRegisteredBeforePrepare

LEMMA InitRInv == Init => RInv
BY InitIInv DEF Init, RInv, NothingRegisteredBeforePrepare

LEMMA NextRInv == RInv /\ [Next]_vars => RInv'
<1> SUFFICES ASSUME RInv, [Next]_vars PROVE NothingRegisteredBeforePrepare'
  BY NextIInv DEF RInv
<1> USE DEF RInv, NothingRegisteredBeforePrepare
<1>1. CASE Run \/ PrepareRegistration \/ WriteEnvoyBootstrap \/ CopyBinary
  BY <1>1 DEF Run, PrepareRegistration, WriteEnvoyBootstrap, CopyBinary, Fail
<1>2. CASE RegisterService \/ RegisterProxy
  BY <1>2 DEF RegisterService, RegisterProxy, Register
<1>3. CASE UNCHANGED vars
  BY <1>3 DEF vars, meshVars
<1>4. QED
  BY <1>1, <1>2, <1>3 DEF Next, Step

\* A step that changes none of the registrations, the files or the
\* metadata they carry leaves the produced items unchanged.
LEMMA ProducedUnchanged ==
    ASSUME UNCHANGED <<conf, fullMeta, agent, files>>
    PROVE  Produced' = Produced
BY DEF Produced, ExpectedRegistrations, ExpectedChecks, ServiceRegistration,
       ProxyRegistration, ServiceID, ProxyID, ConstructServiceName

\* The two registrations the run must leave have different IDs.
LEMMA ExpectedIds ==
    /\ ExpectedRegistrations["service"].id = ServiceID(conf)
    /\ ExpectedRegistrations["proxy"].id = ProxyID(conf)
    /\ ServiceID(conf) # ProxyID(conf)
BY ServiceNotProxy DEF ExpectedRegistrations, ServiceRegistration,
   ProxyRegistration

\* A step that returns 1 without touching the registrations or the files
\* is the contract's Fail.
LEMMA FailRefines ==
    ASSUME pc # "exited", Fail, UNCHANGED <<conf, fullMeta, agent, files>>
    PROVE  Contract!Fail
BY ProducedUnchanged DEF Fail, Contract!Fail, RunStatus

\* A step that goes on running without touching the registrations or the
\* files is a stutter of the contract.
LEMMA StutterRefines ==
    ASSUME pc # "exited", pc' # "exited",
           UNCHANGED <<conf, fullMeta, agent, files>>
    PROVE  UNCHANGED Contract!bootVars
BY ProducedUnchanged DEF Contract!bootVars, RunStatus

\* Every step of Run and realRun is a step of the contract or leaves its
\* variables unchanged.
LEMMA StepRefines == RInv /\ [Next]_vars => [Contract!Next]_(Contract!bootVars)
<1> SUFFICES ASSUME RInv, [Next]_vars
             PROVE  [Contract!Next]_(Contract!bootVars)
  OBVIOUS
<1>1. CASE UNCHANGED vars
  BY <1>1, StutterRefines, ProducedUnchanged
     DEF vars, meshVars, Contract!bootVars, RunStatus
<1>2. CASE Run /\ UNCHANGED conf
  <2>1. pc = "start" /\ UNCHANGED <<conf, fullMeta, agent, files>>
    BY <1>2 DEF Run
  <2>2. CASE Fail
    BY <2>1, <2>2, FailRefines DEF Contract!Next
  <2>3. CASE pc' = "realRun"
    BY <2>1, <2>3, StutterRefines
  <2>4. QED
    BY <1>2, <2>2, <2>3 DEF Run
<1>3. CASE PrepareRegistration /\ UNCHANGED conf
  <2>1. pc = "realRun" /\ agent = {} /\ UNCHANGED <<agent, files>>
    BY <1>3 DEF PrepareRegistration, RInv, NothingRegisteredBeforePrepare
  <2>2. Produced = files /\ Produced' = files
    BY <2>1 DEF Produced
  <2>3. CASE Fail /\ UNCHANGED fullMeta
    BY <1>3, <2>1, <2>3, FailRefines DEF Contract!Next
  <2>4. CASE pc' = "registerService"
    <3>1. RunStatus = "running" /\ RunStatus' = "running"
      BY <2>1, <2>4 DEF RunStatus
    <3>2. UNCHANGED Contract!bootVars
      BY <2>2, <3>1 DEF Contract!bootVars
    <3>3. QED
      BY <3>2
  <2>5. QED
    BY <1>3, <2>3, <2>4 DEF PrepareRegistration
<1>4. CASE RegisterService /\ UNCHANGED conf
  <2>1. /\ pc = "registerService"
        /\ UNCHANGED <<conf, exitCode, checks, fullMeta, files>>
    BY <1>4 DEF RegisterService
  <2>2. CASE UNCHANGED <<agent, pc>>
    BY <2>1, <2>2, StutterRefines
  <2>3. CASE /\ agent' = {r \in agent : r.id # ServiceID(conf)}
                        \cup {ServiceRegistration(conf, checks, fullMeta)}
             /\ pc' = "registerProxy"
    <3>1. ServiceRegistration(conf, checks, fullMeta)
            = ExpectedRegistrations["service"]
      BY <2>1, ChecksAsExpected DEF RInv, IInv, Prepared, ExpectedRegistrations
    <3>2. agent' = {r \in agent : r.id # ServiceID(conf)}
                     \cup {ExpectedRegistrations["service"]}
      BY <2>3, <3>1
    <3>3. /\ ExpectedRegistrations' = ExpectedRegistrations
          /\ ExpectedRegistrations["service"] \in agent'
          /\ ExpectedRegistrations["proxy"] \in agent'
               <=> ExpectedRegistrations["proxy"] \in agent
      BY <2>1, <3>2, ExpectedIds DEF ExpectedRegistrations
    <3>4. Produced' = Produced \cup {"service"}
      BY <2>1, <3>3 DEF Produced
    <3>5. Contract!Produce
      BY <2>1, <2>3, <3>4 DEF Contract!Produce, RunStatus
    <3>6. QED
      BY <3>5 DEF Contract!Next
  <2>4. QED
    BY <1>4, <2>2, <2>3 DEF RegisterService, Register, ServiceRegistration
<1>5. CASE RegisterProxy /\ UNCHANGED conf
  <2>1. /\ pc = "registerProxy"
        /\ UNCHANGED <<conf, exitCode, checks, fullMeta, files>>
    BY <1>5 DEF RegisterProxy
  <2>2. CASE UNCHANGED <<agent, pc>>
    BY <2>1, <2>2, StutterRefines
  <2>3. CASE /\ agent' = {r \in agent : r.id # ProxyID(conf)}
                        \cup {ProxyRegistration(conf, fullMeta)}
             /\ pc' = "bootstrap"
    <3>1. agent' = {r \in agent : r.id # ProxyID(conf)}
                     \cup {ExpectedRegistrations["proxy"]}
      BY <2>3 DEF ExpectedRegistrations
    <3>2. /\ ExpectedRegistrations' = ExpectedRegistrations
          /\ ExpectedRegistrations["proxy"] \in agent'
          /\ ExpectedRegistrations["service"] \in agent'
               <=> ExpectedRegistrations["service"] \in agent
      BY <2>1, <3>1, ExpectedIds DEF ExpectedRegistrations
    <3>3. Produced' = Produced \cup {"proxy"}
      BY <2>1, <3>2 DEF Produced
    <3>4. Contract!Produce
      BY <2>1, <2>3, <3>3 DEF Contract!Produce, RunStatus
    <3>5. QED
      BY <3>4 DEF Contract!Next
  <2>4. QED
    BY <1>5, <2>2, <2>3 DEF RegisterProxy, Register, ProxyRegistration
<1>6. CASE WriteEnvoyBootstrap /\ UNCHANGED conf
  <2>1. pc = "bootstrap" /\ UNCHANGED <<conf, fullMeta, agent>>
    BY <1>6 DEF WriteEnvoyBootstrap
  <2>2. CASE Fail /\ UNCHANGED files
    BY <2>1, <2>2, FailRefines DEF Contract!Next
  <2>3. CASE files' = files \cup {"envoy-bootstrap.json"} /\ pc' = "copyBinary"
    <3>1. Produced' = Produced \cup {"envoy-bootstrap.json"}
      BY <2>1, <2>3 DEF Produced, ExpectedRegistrations
    <3>2. Contract!Produce
      BY <2>1, <2>3, <3>1 DEF Contract!Produce, RunStatus
    <3>3. QED
      BY <3>2 DEF Contract!Next
  <2>4. QED
    BY <1>6, <2>2, <2>3 DEF WriteEnvoyBootstrap
<1>7. CASE CopyBinary /\ UNCHANGED conf
  <2>1. pc = "copyBinary" /\ UNCHANGED <<conf, checks, fullMeta, agent>>
    BY <1>7 DEF CopyBinary
  <2>2. CASE Fail /\ UNCHANGED files
    BY <2>1, <2>2, FailRefines DEF Contract!Next
  <2>3. CASE files' = files \cup {"consul-ecs"} /\ pc' = "exited"
             /\ exitCode' = 0
    <3>1. /\ ServiceRegistration(conf, checks, fullMeta) \in agent
          /\ ProxyRegistration(conf, fullMeta) \in agent
          /\ "envoy-bootstrap.json" \in files
          /\ checks = ExpectedChecks(conf)
      BY <2>1, ChecksAsExpected
         DEF RInv, IInv, Prepared, ServiceRegistered, ProxyRegistered
    <3>2. Produced' = Produced \cup {"consul-ecs"}
      BY <2>1, <2>3 DEF Produced, ExpectedRegistrations
    <3>3. {"service", "proxy", "envoy-bootstrap.json", "consul-ecs"}
            \subseteq Produced'
      BY <2>1, <3>1, <3>2 DEF Produced, ExpectedRegistrations
    <3>4. Contract!Succeed
      BY <2>1, <2>3, <3>2, <3>3 DEF Contract!Succeed, RunStatus
    <3>5. QED
      BY <3>4 DEF Contract!Next
  <2>4. QED
    BY <1>7, <2>2, <2>3 DEF CopyBinary
<1>8. QED
  BY <1>1, <1>2, <1>3, <1>4, <1>5, <1>6, <1>7 DEF Next, Step

\* The agent-API mesh-init implements the contract of a mesh-init run
\* (BootstrapSpec): a registration or file, once produced, stays, and Run
\* returns 0 only with the service (with its configured checks), the
\* proxy, the Envoy bootstrap and the binary all in place.
THEOREM Refinement == Spec => BootstrapSpec
<1>1. Init => Contract!Init
  BY DEF Init, Contract!Init, Produced, RunStatus
<1>2. QED
  BY <1>1, InitRInv, NextRInv, StepRefines, PTL
     DEF Spec, BootstrapSpec, Contract!Spec

=============================================================================

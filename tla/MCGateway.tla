------------------------------ MODULE MCGateway ------------------------------
(* The parts of a gateway beside the delivery of messages, each with the     *)
(* Router's or the daemon's side of it: the jobs sessions answer, content    *)
(* keys, the sessions that connect, what of them is reported to the Router,  *)
(* and the agents of a daemon. A behaviour is one of a single part, with the *)
(* others at rest.                                                           *)
EXTENDS Crosstalk, ContentKeys, Sessions, Presence, SessionRegistry, CodexAgents, ThreadLifecycle

VARIABLE focus      \* the part that runs

GatewayInit ==
    /\ focus \in {"jobs", "keys", "sessions", "presence", "registry", "agents", "thread"}
    /\ JobInit /\ KeyInit /\ SessionInit
    /\ PresenceInit /\ RegistryInit /\ AgentInit /\ ThreadInit
    /\ focus # "jobs" => ~cross
    /\ focus # "thread" => server.at = "loaded" /\ KnownTurns = {}

GatewayNext ==
    \/ focus = "jobs" /\ JobNext
       /\ UNCHANGED <<focus, keyVars, sessionVars, presenceVars,
                      registryVars, agentVars, threadVars>>
    \/ focus = "keys" /\ KeyNext
       /\ UNCHANGED <<focus, jobVars, sessionVars, presenceVars,
                      registryVars, agentVars, threadVars>>
    \/ focus = "sessions" /\ SessionNext
       /\ UNCHANGED <<focus, jobVars, keyVars, presenceVars,
                      registryVars, agentVars, threadVars>>
    \/ focus = "presence" /\ PresenceNext
       /\ UNCHANGED <<focus, jobVars, keyVars, sessionVars,
                      registryVars, agentVars, threadVars>>
    \/ focus = "registry" /\ RegistryNext
       /\ UNCHANGED <<focus, jobVars, keyVars, sessionVars,
                      presenceVars, agentVars, threadVars>>
    \/ focus = "agents" /\ AgentNext
       /\ UNCHANGED <<focus, jobVars, keyVars, sessionVars,
                      presenceVars, registryVars, threadVars>>
    \/ focus = "thread" /\ ThreadNext
       /\ UNCHANGED <<focus, jobVars, keyVars, sessionVars,
                      presenceVars, registryVars, agentVars>>

partsVars ==
    <<focus, jobVars, keyVars, sessionVars, presenceVars, registryVars, agentVars, threadVars>>

\* A gateway that lost its last connection proves nothing: the properties of presence
\* are about one that is connected.
Worthwhile == inc = 0 => minted < MaxIncarnation

GatewaySpec == GatewayInit /\ [][GatewayNext]_partsVars
=============================================================================

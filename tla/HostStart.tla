------------------------------ MODULE HostStart ------------------------------
(***************************************************************************)
(* The host's way from its arguments to its select loop, and from there to  *)
(* its exit (src/host/mod.rs run, src/host/ssh.rs): actions only, for the   *)
(* module Session, which adds the loop and the remote process.              *)
(*                                                                         *)
(* Each step waits for something outside the process and may fail; a        *)
(* failure returns from run, which drops the TUN device, with it the routes *)
(* through it, and the SSH session.  An option that is consulted once is    *)
(* chosen where it is consulted.                                            *)
(***************************************************************************)
EXTENDS Naturals

CONSTANTS
  MaxIdentities, \* bound: identities the SSH agent holds
  Subnets        \* number of subnets to route

ASSUME StartAssumption == MaxIdentities \in Nat /\ Subnets \in Nat

VARIABLES
  host,        \* where run is: a phase of start-up, of the loop, or "exited"
  identities,  \* agent identities not tried yet
  granted,     \* whether the SSH server has accepted the user
  tun,         \* "absent" or "up"
  routes,      \* routes added through the TUN device
  resolver,    \* "off", or what systemd-resolved has been told
  session,     \* "none", "up" or "down"
  exit         \* why run returned

startVars == <<host, identities, granted, tun, routes, resolver, session, exit>>

Starting ==
  {"parse", "connect", "key", "agent", "identity", "keyboard", "password",
   "exec", "tun", "routes", "dns", "domains", "ready"}

Reason == {"running", "failed", "unregistered", "killed", "done"}

StartTypeOK ==
  /\ host \in Starting \cup {"select", "writing", "blocked", "shutting",
                             "reverting", "exited"}
  /\ identities \in 0..MaxIdentities
  /\ granted \in BOOLEAN
  /\ tun \in {"absent", "up"}
  /\ routes \in 0..Subnets
  /\ resolver \in {"off", "registered", "reverted"}
  /\ session \in {"none", "up", "down"}
  /\ exit \in Reason

StartInit ==
  /\ host = "parse"
  /\ identities = 0
  /\ granted = FALSE
  /\ tun = "absent"
  /\ routes = 0
  /\ resolver = "off"
  /\ session = "none"
  /\ exit = "running"

-----------------------------------------------------------------------------
GoesTo(from, to) == host = from /\ host' = to

(* run returns: the device and its routes vanish, the session is closed.    *)
Returns(why) ==
  /\ host' = "exited"
  /\ exit' = why
  /\ tun' = "absent" /\ routes' = 0
  /\ session' = IF session = "none" THEN "none" ELSE "down"
  /\ UNCHANGED <<identities, granted, resolver>>

Fails(from, why) == host = from /\ Returns(why)

OnlyHost == UNCHANGED <<identities, granted, tun, routes, resolver, session, exit>>

(* --remote and every --subnets value must parse before anything starts.    *)
ParsesArgs ==
  \/ GoesTo("parse", "connect") /\ OnlyHost
  \/ Fails("parse", "failed")

(* TCP and key exchange.  An unknown host key is learnt if the user agrees; *)
(* a refused or changed one ends the attempt.  An identity file, where one  *)
(* is given, is the only way tried.                                         *)
Connects ==
  \/ /\ host = "connect" /\ host' \in {"key", "agent"}
     /\ session' = "up"
     /\ UNCHANGED <<identities, granted, tun, routes, resolver, exit>>
  \/ Fails("connect", "failed")

Grants(from) ==
  /\ GoesTo(from, "exec")
  /\ granted' = TRUE /\ identities' = 0
  /\ UNCHANGED <<tun, routes, resolver, session, exit>>

AuthenticatesWithKey == Grants("key") \/ Fails("key", "failed")

(* No agent, or an agent that does not answer, is no error: the password is *)
(* next.                                                                    *)
AsksAgent ==
  \/ /\ GoesTo("agent", "identity")
     /\ identities' \in 0..MaxIdentities
     /\ UNCHANGED <<granted, tun, routes, resolver, session, exit>>
  \/ GoesTo("agent", "password") /\ OnlyHost

NextIdentity(from) ==
  /\ GoesTo(from, "identity")
  /\ identities' = identities - 1
  /\ UNCHANGED <<granted, tun, routes, resolver, session, exit>>

(* Refused, or accepted in part without a keyboard-interactive step left:   *)
(* the next identity.  Accepted in part with one: that step.                *)
TriesIdentity ==
  \/ /\ identities > 0
     /\ \/ Grants("identity")
        \/ NextIdentity("identity")
        \/ GoesTo("identity", "keyboard") /\ OnlyHost
        \/ GoesTo("identity", "password") /\ OnlyHost
  \/ identities = 0 /\ GoesTo("identity", "password") /\ OnlyHost

(* However many prompts the server has: an error while answering them ends  *)
(* the agent's turn, a refusal only this identity's.                        *)
EndsKeyboard ==
  \/ Grants("keyboard")
  \/ NextIdentity("keyboard")
  \/ GoesTo("keyboard", "password") /\ OnlyHost

AuthenticatesWithPassword == Grants("password") \/ Fails("password", "failed")

CreatesTun ==
  \/ /\ GoesTo("tun", "routes")
     /\ tun' = "up"
     /\ UNCHANGED <<identities, granted, routes, resolver, session, exit>>
  \/ Fails("tun", "failed")

AddsRoute ==
  \/ /\ host = "routes" /\ routes < Subnets
     /\ \/ /\ routes' = routes + 1
           /\ UNCHANGED <<host, identities, granted, tun, resolver, session, exit>>
        \/ Fails("routes", "failed")
  \/ /\ routes = Subnets
     /\ host = "routes" /\ host' \in {"dns", "ready"}
     /\ OnlyHost

(* The forwarder's socket, then "resolvectl dns": what it registers stays   *)
(* registered until the link goes or is reverted.                           *)
RegistersServer ==
  \/ /\ host = "dns" /\ host' \in {"domains", "ready"}
     /\ resolver' = "registered"
     /\ UNCHANGED <<identities, granted, tun, routes, session, exit>>
  \/ Fails("dns", "failed")

(* "resolvectl domain": its failure returns without the revert.             *)
RegistersDomains ==
  \/ GoesTo("domains", "ready") /\ OnlyHost
  \/ Fails("domains", "unregistered")

(* An interrupt that finds no handler installed kills the process.          *)
Killed == host # "exited" /\ Returns("killed")

StartSteps ==
  \/ ParsesArgs \/ Connects \/ AuthenticatesWithKey \/ AsksAgent
  \/ TriesIdentity \/ EndsKeyboard \/ AuthenticatesWithPassword
  \/ CreatesTun \/ AddsRoute \/ RegistersServer \/ RegistersDomains
=============================================================================

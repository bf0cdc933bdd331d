----------------------------- MODULE MeshDaemon -----------------------------
(***************************************************************************)
(* What TailscaleDaemon does for the Tailscale daemon it embeds, with the  *)
(* spaces a SpaceNodes has consolidated (network/tailscale_daemon.go:      *)
(* NewTailscaleDaemon, CacheDNSNames, cacheDNSName, ConfigureTLS): names   *)
(* are resolved before the tunnel is up and cached, and a TLS connection is*)
(* given the trust of the space it goes to.                                *)
(***************************************************************************)
EXTENDS SpaceConsolidation

CONSTANTS
  NoPort,      \* the port of an endpoint URL that names none
  Names,       \* DNS names: the hosts (no host is an IP address) and others
  Defaults,    \* names with "tailscale" in them
  CARoots,     \* keys of the spaces with a CA root of their own
  MaxNames     \* bound: names given to a CacheDNSNames

ASSUME DaemonAssumption ==
  /\ NoPort \in Ports
  /\ Hosts \subseteq Names /\ Defaults \subseteq Names
  /\ CARoots \subseteq Keys
  /\ MaxNames \in Nat

VARIABLES
  unseen,      \* spaces of GetAllSpaces the constructor has yet to look up
  cached,      \* the names of cachedDNSMappings
  failed,      \* history: names whose look-up failed in the constructor
  daemon       \* "none", "new" (in the constructor), "up"

dns == <<unseen, cached, failed, daemon>>
daemonVars == <<vars, dns>>

DaemonTypeOK ==
  /\ TypeOK
  /\ unseen \subseteq Keys
  /\ cached \subseteq Names /\ failed \subseteq Hosts
  /\ daemon \in {"none", "new", "up"}

DaemonInit ==
  /\ Init
  /\ unseen = {} /\ cached = {} /\ failed = {}
  /\ daemon = "none"

\* spaceURL.Host is a DNS name when the endpoint URL has no port; a host with
\* its port resolves to nothing.  That the node is in error is not asked.
Resolvable(node) == node # None /\ node.ep # None /\ node.ep[2] = NoPort

NewDaemon ==
  /\ at = "done" /\ daemon = "none"
  /\ unseen' = {k \in Keys : Resolvable(spaceNodes[k])}
  /\ daemon' = "new"
  /\ UNCHANGED <<vars, cached, failed>>

\* Mutant of CacheEndpoint: a look-up that fails ends the loop.
CacheEndpointStops(k) ==
  /\ daemon = "new" /\ k \in unseen
  /\ LET host == spaceNodes[k].ep[1] IN
       \/ cached' = cached \cup {host} /\ unseen' = unseen \ {k} /\ UNCHANGED failed
       \/ failed' = failed \cup {host} /\ unseen' = {} /\ UNCHANGED cached
  /\ UNCHANGED <<vars, daemon>>

\* One turn of the constructor's loop, over the spaces in the order of a map; an
\* error is ignored.
CacheEndpoint(k) ==
  /\ daemon = "new" /\ k \in unseen
  /\ unseen' = unseen \ {k}
  /\ LET host == spaceNodes[k].ep[1] IN
       \/ cached' = cached \cup {host} /\ UNCHANGED failed
       \/ failed' = failed \cup {host} /\ UNCHANGED cached
  /\ UNCHANGED <<vars, daemon>>

\* The hooks are set.
Hooked ==
  /\ daemon = "new" /\ unseen = {}
  /\ daemon' = "up"
  /\ UNCHANGED <<vars, unseen, cached, failed>>

\* The loop returns at once when a look-up fails, and what was cached before
\* stays.
CacheDNSNames(names) ==
  /\ daemon = "up"
  /\ \E n \in 0..Len(names) : cached' = cached \cup {names[m] : m \in 1..n}
  /\ UNCHANGED <<vars, unseen, failed, daemon>>

\* The trust a connection of the daemon to a host is given: "verified" is by
\* the CA root of the space with that key, "any" is without verification.
ConfigureTLS(host) ==
  LET node == spaceNodeByEndpoint[host] IN
  IF host \in Defaults THEN <<"default", None>>
  ELSE IF node = None THEN <<"refused", None>>
  ELSE IF node.key \in CARoots THEN <<"verified", node.key>>
  ELSE <<"any", None>>

DaemonNext ==
  \/ Next /\ UNCHANGED dns
  \/ NewDaemon
  \/ \E k \in Keys : CacheEndpoint(k)
  \/ Hooked
  \/ \E names \in SeqUpTo(Names, MaxNames) : CacheDNSNames(names)

DaemonFairSpec ==
  DaemonInit /\ [][DaemonNext]_daemonVars /\ WF_vars(Consolidate)

-----------------------------------------------------------------------------
(* Properties *)

\* The bastions and the shared spaces a host may lead to.
LocalAt(h) == {n \in DOMAIN targets : targets[n].bastion /\ Reaches(targets[n], h)}
SharedAt(h) == {n \in Winners : Reaches(spaces[n], h)}

Trust(node) ==
  IF node.key \in CARoots THEN <<"verified", node.key>> ELSE <<"any", None>>

\* The trust of a host, from the targets and the cloud's answer alone: that of
\* the first shared space there that is looked up by its key, else of the last
\* local target there, else none.  A shared space with a key of its own takes
\* the host of a local target over, and the CA root with it; one that lost its
\* key to another gives no host at all.
TrustsItsSpaces ==
  at = "done" => \A h \in Hosts \ Defaults :
    ConfigureTLS(h) \in
      IF SharedAt(h) # {}
        THEN {Trust(spaces[n]) : n \in {m \in SharedAt(h) :
                \A l \in SharedAt(h) : m <= l}}
      ELSE IF LocalAt(h) # {}
        THEN {Trust(targets[n]) : n \in {m \in LocalAt(h) :
                \A l \in LocalAt(h) : l <= m}}
      ELSE {<<"refused", None>>}

\* Once the daemon is up, the cache has the host of every space whose endpoint
\* has no port, unless the look-up of that very host failed: another's failure
\* costs it nothing, nor does a later CacheDNSNames.
EndpointsCached ==
  daemon = "up" => \A k \in Keys :
    Resolvable(spaceNodes[k]) =>
      spaceNodes[k].ep[1] \in cached \cup failed

\* The inductive invariant behind EndpointsCached: the daemon is made after the
\* consolidation, and its constructor has dealt with all but the unseen spaces.
CacheInv ==
  /\ daemon # "none" => at = "done"
  /\ daemon = "up" => unseen = {}
  /\ daemon # "none" => \A k \in Keys \ unseen :
       Resolvable(spaceNodes[k]) =>
         spaceNodes[k].ep[1] \in cached \cup failed
=============================================================================

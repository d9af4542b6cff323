---------------------------- MODULE CloudDispatch ----------------------------
(***************************************************************************)
(* The API process renting a machine for one job: POST /api/jobs with a    *)
(* cloud execution_target (worker/app/main.py), the dispatcher's launch    *)
(* and terminate (worker/app/cloud/dispatcher.py) and the adapter's calls  *)
(* to the vendor, await by await.                                          *)
(*                                                                         *)
(* The machine, once it is up, is the pod of module RemoteWorker, which    *)
(* extends this one.                                                       *)
(***************************************************************************)
EXTENDS CloudProviders

CONSTANTS
  Registered,   \* vendors whose SDK or key this process has
  Rates,        \* hourly rates an adapter may quote, in cents
  GpuCounts,    \* gpu_count of submitted instance_specs
  JobCaps,      \* cost_cap_cents of submitted configs; 0 is a cap a user can type
  StudioCap,    \* settings.cloud_cost_cap_cents_default
  NoCap,        \* cost_cap_cents is None
  MaxFaults     \* bound on lost requests and restarts of the API process together

ASSUME DispatchAssumption ==
  /\ Registered \subseteq Vendors
  /\ Rates \subseteq Nat /\ GpuCounts \subseteq Nat
  /\ JobCaps \subseteq Nat
  /\ NoCap \notin Nat
  /\ StudioCap \in Nat /\ MaxFaults \in Nat

VARIABLES
  row,     \* the job's row in the jobs table
  launch,  \* the request handler of POST /api/jobs, with its locals
  vendor,  \* config.execution_target
  machine, \* the rented machine
  lost,    \* requests that failed on the network
  crashes  \* restarts of the API process

dispatchVars == <<row, launch, vendor, machine, lost, crashes>>

Terminal == {"ready", "failed", "cancelled"}
Running == {"queued", "working"}

Row == [status : Running \cup Terminal \cup {"unborn", "deleted"},
        claimed_by : {"nobody", "local", "pod"},
        stale : BOOLEAN, cancel : BOOLEAN, manifest : BOOLEAN, instance : BOOLEAN]

Exists == row.status \in Running \cup Terminal

\* update_job and its siblings: a row that is gone is left alone.
Update(r) == row' = IF Exists THEN r ELSE row

\* What the dispatcher asks the price of: 15 minutes of the user's instance_spec.
Quote(rate, gpus, spot) == EstimateCost(vendor, rate, 900, gpus, spot)

\* No cap: the handler does not have it yet, or no longer reads it.
Idle(at) == [at |-> at, cap |-> NoCap]

DispatchTypeOK ==
  /\ row \in Row
  /\ vendor \in Vendors
  /\ launch.at \in {"new", "resolving", "pricing", "calling", "creating",
                    "booking", "failing", "over"}
  /\ launch.cap \in JobCaps \cup {NoCap}
  /\ machine \in {"none", "booting", "up", "gone"}
  /\ lost \in 0 .. MaxFaults
  /\ crashes \in 0 .. MaxFaults

DispatchInit ==
  /\ row = [status |-> "unborn", claimed_by |-> "nobody", stale |-> FALSE,
            cancel |-> FALSE, manifest |-> FALSE, instance |-> FALSE]
  /\ launch = Idle("new")
  /\ vendor \in Vendors
  /\ machine = "none"
  /\ lost = 0 /\ crashes = 0

Lose == lost + crashes < MaxFaults /\ lost' = lost + 1

-----------------------------------------------------------------------------
(* POST /api/jobs, from the INSERT on *)

\* create_job: the row is queued for its worker class, whatever its execution_target.
Submit ==
  /\ launch.at = "new"
  /\ \E cap \in JobCaps \cup {NoCap} : launch' = [at |-> "resolving", cap |-> cap]
  /\ row' = [row EXCEPT !.status = "queued"]
  /\ UNCHANGED <<vendor, machine, lost, crashes>>

\* providers.get raises KeyError for a vendor that is not registered.
Resolve ==
  /\ launch.at = "resolving"
  /\ launch' = IF vendor \in Registered THEN [launch EXCEPT !.at = "pricing"] ELSE Idle("failing")
  /\ UNCHANGED <<row, vendor, machine, lost, crashes>>

\* preflight: a dry run, where the adapter has one, that the vendor may refuse.
PreflightRefused ==
  /\ launch.at = "pricing"
  /\ adapter[vendor].dryRun
  /\ launch' = Idle("failing")
  /\ UNCHANGED <<row, vendor, machine, lost, crashes>>

\* _enforce_cost_caps: `job cap or studio cap`, and never more than the studio's.
EffectiveCap(cap) ==
  LET job == IF cap \in {NoCap, 0} THEN StudioCap ELSE cap
  IN  IF job < StudioCap THEN job ELSE StudioCap

\* estimate_cost and the caps; the token is minted and the spec built on the way.
EnforceCaps ==
  /\ launch.at = "pricing"
  /\ \E rate \in Rates, gpus \in GpuCounts, spot \in BOOLEAN :
       launch' = Idle(IF Quote(rate, gpus, spot) > EffectiveCap(launch.cap) THEN "failing"
                      ELSE "calling")
  /\ UNCHANGED <<row, vendor, machine, lost, crashes>>

\* The adapter's own checks, and its offer search, before anything is created.
Ask ==
  /\ launch.at = "calling"
  /\ \/ launch' = Idle("creating") /\ UNCHANGED lost
     \/ /\ adapter[vendor].vets \/ adapter[vendor].search
        /\ launch' = Idle("failing") /\ UNCHANGED lost
     \/ adapter[vendor].search /\ Lose /\ launch' = Idle("failing")
  /\ UNCHANGED <<row, vendor, machine, crashes>>

\* The create call.  Its answer can be lost, or carry no id, when the machine
\* already exists; either way launch() raises.
Create ==
  /\ launch.at = "creating"
  /\ UNCHANGED <<row, vendor, crashes>>
  /\ \/ /\ machine' = "booting" /\ launch' = [launch EXCEPT !.at = "booking"]
        /\ UNCHANGED lost
     \/ /\ vendor # "fake"
        /\ launch' = [launch EXCEPT !.at = "failing"]
        /\ UNCHANGED <<machine, lost>>
     \/ /\ vendor # "fake" /\ Lose
        /\ machine' = "booting" /\ launch' = [launch EXCEPT !.at = "failing"]

\* Mutant: the dispatcher returns without the bookkeeping.
ForgetInstance ==
  /\ launch.at = "booking"
  /\ launch' = Idle("over")
  /\ UNCHANGED <<row, vendor, machine, lost, crashes>>

\* set_provider_bookkeeping, and the `launched on` event.
Book ==
  /\ launch.at = "booking"
  /\ Update([row EXCEPT !.instance = TRUE])
  /\ launch' = Idle("over")
  /\ UNCHANGED <<vendor, machine, lost, crashes>>

\* Mutant: the error is raised to the client and nothing written.
FailQuietly ==
  /\ launch.at = "failing"
  /\ launch' = Idle("over")
  /\ UNCHANGED <<row, vendor, machine, lost, crashes>>

\* _maybe_dispatch_remote's two handlers: the row is failed, whatever it says by
\* now, the stream closed, the error raised to the client.
FailJob ==
  /\ launch.at = "failing"
  /\ Update([row EXCEPT !.status = "failed"])
  /\ launch' = Idle("over")
  /\ UNCHANGED <<vendor, machine, lost, crashes>>

-----------------------------------------------------------------------------
(* The machine, and dispatcher.terminate *)

\* provider.terminate for the handle dispatcher.terminate rebuilds: the id, the
\* metadata its caller passes, and never a region.
Finds(v, metadata, home) ==
  CASE adapter[v].finds = "nothing" -> TRUE
    [] adapter[v].finds = "metadata" -> metadata
    [] adapter[v].finds = "region" -> home

\* dispatcher.terminate by the id on the row.  No module of the studio calls it;
\* an operator may, knowing the metadata or not, for a machine of the default
\* region (home) or not.  An adapter never raises.
Teardown(metadata, home) ==
  /\ row.instance
  /\ machine' = IF Finds(vendor, metadata, home) THEN "gone" ELSE machine
  /\ UNCHANGED <<row, launch, vendor, lost, crashes>>
=============================================================================

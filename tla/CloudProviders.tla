--------------------------- MODULE CloudProviders ---------------------------
(***************************************************************************)
(* The vendor adapters of worker/app/cloud/providers, as the dispatcher    *)
(* sees them: what launch() checks before it sends anything, which         *)
(* requests it sends, where the instance id comes from, what terminate()   *)
(* needs to find the machine again, and the price estimate_cost() quotes.  *)
(* The payloads, and status() and logs(), which nothing calls, are left    *)
(* out.                                                                    *)
(***************************************************************************)
EXTENDS Integers

(***************************************************************************)
(* An adapter:                                                             *)
(*   vets      launch() raises before its first request when a setting is  *)
(*             missing                                                     *)
(*   dryRun    preflight() asks the vendor whether the launch would do     *)
(*   search    a query picks an offer before the create call               *)
(*   idFrom    "answer": the id is read from the create call's answer, and *)
(*             an answer without one raises; "us": the id is ours, and the *)
(*             vendor's operation is not waited for                        *)
(*   finds     what terminate() must be given beyond the id: "nothing",    *)
(*             "metadata", or the "region" of the handle                   *)
(*   exits     the machine ends by itself after one job                    *)
(***************************************************************************)
Adapter(vets, dryRun, search, idFrom, finds, exits) ==
  [vets |-> vets, dryRun |-> dryRun, search |-> search, idFrom |-> idFrom,
   finds |-> finds, exits |-> exits]

Fake       == Adapter(FALSE, FALSE, FALSE, "us", "nothing", TRUE)
RunPod     == Adapter(FALSE, FALSE, FALSE, "answer", "nothing", FALSE)
Serverless == Adapter(TRUE, FALSE, FALSE, "answer", "metadata", FALSE)
Vast       == Adapter(FALSE, FALSE, TRUE, "answer", "nothing", FALSE)
LambdaLabs == Adapter(TRUE, FALSE, FALSE, "answer", "nothing", FALSE)
Gradient   == Adapter(TRUE, FALSE, FALSE, "answer", "nothing", FALSE)
Paperspace == Adapter(TRUE, FALSE, FALSE, "answer", "nothing", FALSE)
AwsEc2     == Adapter(TRUE, TRUE, FALSE, "answer", "region", FALSE)
GcpGce     == Adapter(TRUE, FALSE, FALSE, "us", "metadata", FALSE)
AzureVm    == Adapter(TRUE, FALSE, FALSE, "us", "metadata", FALSE)

adapter ==
  [fake |-> Fake, runpod |-> RunPod, runpod_serverless |-> Serverless, vast |-> Vast,
   lambda_labs |-> LambdaLabs, paperspace_gradient |-> Gradient,
   paperspace_core |-> Paperspace, aws_ec2 |-> AwsEc2, gcp_gce |-> GcpGce,
   azure_vm |-> AzureVm]

Vendors == DOMAIN adapter

-----------------------------------------------------------------------------
\* int(round(a / b)): Python rounds a half to the even neighbour.
Rounded(a, b) ==
  LET q == a \div b
      r == a % b
  IN  IF 2 * r > b \/ (2 * r = b /\ q % 2 = 1) THEN q + 1 ELSE q

AtLeast(low, n) == IF n < low THEN low ELSE n

(***************************************************************************)
(* estimate_cost(spec, seconds) in cents: rate is the adapter's hourly     *)
(* rate for the class of GPU.  The spot discount is taken from the rounded *)
(* price (RunPod) or from the rate before it is multiplied out (AWS, GCP,  *)
(* Azure, whose rate is for the whole machine); the others know none.      *)
(***************************************************************************)
RunPodCents(rate, s, gpus, spot) ==
  LET cents == Rounded(rate * AtLeast(60, s) * gpus, 3600)
  IN  IF spot THEN (cents * 6) \div 10 ELSE cents

ServerlessCents(rate, s, gpus, spot) == Rounded(rate * AtLeast(30, s) * 5 * gpus, 4 * 3600)

ListCents(rate, s, gpus, spot) == Rounded(rate * AtLeast(60, s) * gpus, 3600)

MachineCents(rate, s, spot, tenths) ==
  Rounded((IF spot THEN Rounded(rate * tenths, 10) ELSE rate) * AtLeast(60, s), 3600)

EstimateCost(v, rate, s, gpus, spot) ==
  CASE v = "fake" -> 0
    [] v = "runpod" -> RunPodCents(rate, s, gpus, spot)
    [] v = "runpod_serverless" -> ServerlessCents(rate, s, gpus, spot)
    [] v \in {"aws_ec2", "azure_vm"} -> MachineCents(rate, s, spot, 4)
    [] v = "gcp_gce" -> MachineCents(rate, s, spot, 3)
    [] OTHER -> ListCents(rate, s, gpus, spot)
=============================================================================

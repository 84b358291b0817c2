---------------------------- MODULE MCCdReading -----------------------------
(* A drive that reads data, in two parts: a host that does what it likes       *)
(* ("any"), and one that waits and acknowledges as PoliteNext says ("polite"). *)
EXTENDS MCCdController

VARIABLE part

mc_vars == <<vars, part>>

CommandsOf == [p \in {"any", "polite"} |->
                 IF p = "any" THEN {"SetLoc", "ReadN", "SetMode", "Pause", "GetLocL"}
                 ELSE {"SetLoc", "ReadN", "Mute", "Test"}]

\* The polite host seeks beside the start of the disc only.
OfPart ==
  /\ part' = part
  /\ cd'.command.state # "Idle" => cd'.command.command \in CommandsOf[part]
  /\ part = "polite" => cd'.param # 1

MCNext ==
  \/ part = "any" /\ Next /\ OfPart
  \/ part = "polite" /\ PoliteNext /\ OfPart

Polite(A) == part = "polite" /\ A /\ part' = part

MCSpec ==
  /\ Init /\ part \in {"any", "polite"} /\ [][MCNext]_mc_vars
  /\ WF_mc_vars(Polite(Clock))
  /\ WF_mc_vars(Polite(IntQueued(cd) /\ WriteFlags(Bits, FALSE)))

PoliteCommandsAreExecuted == part = "polite" => CommandsAreExecuted
=============================================================================

--------------------------- MODULE MCCaptureJournal ---------------------------
(***************************************************************************)
(* Instances of CaptureJournal for TLC.                                    *)
(***************************************************************************)
EXTENDS CaptureJournal

\* One channel that is always expected, one whose rows may not be built.
TwoChannels == <<"snapshot", "legacy">>

Varied == {f \in [ChannelSet -> {"PENDING", "BUILD_FAILED"}] : f["snapshot"] = "PENDING"}
===============================================================================

---------------------------- MODULE MCSerialInput ----------------------------
(* SerialInput from the moment when a first command has been typed, which the *)
(* node has not yet read                                                      *)
EXTENDS SerialInput

MCInit ==
  /\ port = <<Bang, SpreadingFactor, 49, Newline>> /\ came = port
  /\ at = "idle" /\ retval = 0 /\ timeUp = FALSE
  /\ serialCommandMode = FALSE /\ serialCmd = <<>> /\ txMsg = <<>>
  /\ current = Default /\ previous = Default
  /\ sent = <<>> /\ periods = 0

MCSpec == MCInit /\ [][Next]_vars

=============================================================================

---------------------------- MODULE MCAgentRecorder ----------------------------
(* Small instances of AgentRecorder for TLC. *)
EXTENDS AgentRecorder

AllLibraries == {"bull", "bullmq4", "bullmq5"}

\* The listeners call the recorder back, the clock only answers.
Listeners == {"event", "report"}

\* Anything may throw, but the clock.
AllButClock == {"create", "build", "assign", "event", "format", "skeleton", "log"}
=============================================================================

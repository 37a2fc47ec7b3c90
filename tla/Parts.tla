------------------------------- MODULE Parts -------------------------------
(***************************************************************************)
(* The parts of the program that are called and never wait: its start from *)
(* a config to the end (Config, ConfigSections, Nexer), what reads and     *)
(* writes text (Url, StringBuffer, Logger), Timer and MemoryPool.  They    *)
(* share no state; a behaviour drives one of them, the subject, as its own *)
(* module says, and the others stay as they are.                           *)
(***************************************************************************)
EXTENDS Config, ConfigSections, Logger, MemoryPool, Nexer, StringBuffer, Timer, Url

VARIABLE subject

vars == <<configVars, sectionVars, poolVars, nexerVars, bufferVars, timerVars, urlVars, loggerVars, subject>>

\* The same state whichever it is of the initial ones of a part not driven.
Still(part, v, S) == subject = part \/ v = CHOOSE w \in S : TRUE

Init ==
    /\ subject \in {"config", "sections", "pool", "nexer", "buffer", "timer", "url", "logger"}
    /\ ConfigInit /\ SectionsInit /\ PoolInit /\ NexerInit /\ BufferInit /\ TimerInit /\ UrlInit
    /\ LoggerInit
    /\ Still("sections", section, DOMAIN Keys) /\ Still("nexer", plan, Plans)
    /\ Still("timer", offset, Offset) /\ Still("url", alphabet, Alphabets)

Next ==
    \/ subject = "config" /\ ConfigNext
       /\ UNCHANGED <<subject, sectionVars, poolVars, nexerVars, bufferVars, timerVars, urlVars, loggerVars>>
    \/ subject = "sections" /\ SectionsNext
       /\ UNCHANGED <<subject, configVars, poolVars, nexerVars, bufferVars, timerVars, urlVars, loggerVars>>
    \/ subject = "pool" /\ PoolNext
       /\ UNCHANGED <<subject, configVars, sectionVars, nexerVars, bufferVars, timerVars, urlVars, loggerVars>>
    \/ subject = "nexer" /\ NexerNext
       /\ UNCHANGED <<subject, configVars, sectionVars, poolVars, bufferVars, timerVars, urlVars, loggerVars>>
    \/ subject = "buffer" /\ BufferNext
       /\ UNCHANGED <<subject, configVars, sectionVars, poolVars, nexerVars, timerVars, urlVars, loggerVars>>
    \/ subject = "timer" /\ TimerNext
       /\ UNCHANGED <<subject, configVars, sectionVars, poolVars, nexerVars, bufferVars, urlVars, loggerVars>>
    \/ subject = "url" /\ UrlNext
       /\ UNCHANGED <<subject, configVars, sectionVars, poolVars, nexerVars, bufferVars, timerVars, loggerVars>>
    \/ subject = "logger" /\ LoggerNext
       /\ UNCHANGED <<subject, configVars, sectionVars, poolVars, nexerVars, bufferVars, timerVars, urlVars>>

Spec == Init /\ [][Next]_vars /\ NexerFairness
=============================================================================

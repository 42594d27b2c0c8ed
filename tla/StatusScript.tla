---------------------------- MODULE StatusScript -----------------------------
(***************************************************************************)
(* bin/zxdbfsstatus gathers the status one command after the other while    *)
(* the system changes, and prints it in one of three ways;                  *)
(* ZXDBFSStatus_createFromJSON of lib/zxdbfs_status.c reads the JSON one.   *)
(***************************************************************************)
EXTENDS Integers, FiniteSets

CONSTANTS
    Versions   \* what the API may say its version is

VARIABLES
    wpa,     \* the state of the interface, "none" when wpa_cli gets no answer
    up,      \* which of the other conditions hold: daemons running, a sane date
    pc,      \* the command the script is at
    sample,  \* the variables of the script
    seen,    \* the conditions that held at some moment of the run (history)
    kept     \* the conditions that held at every moment of the run (history)

scriptVars == <<wpa, up, pc, sample, seen, kept>>

WpaStates == {"none", "SCANNING", "4WAY_HANDSHAKE", "COMPLETED"}
Checks == {"date", "ntpd", "zxdbfsd", "spid"}
Conditions == Checks \cup {"wifi"}
Commands == <<"wpa", "date", "ntpd", "zxdbfsd", "version", "spid", "done">>
After(command) == LET i == CHOOSE i \in 1 .. 6 : Commands[i] = command IN Commands[i + 1]

Unknown == [wpa |-> "unknown", ok |-> {}, version |-> "unknown"]
Holding(w, u) == u \cup (IF w = "COMPLETED" THEN {"wifi"} ELSE {})

-----------------------------------------------------------------------------
\* What is printed, and what is read of it

\* The lines of wpa_cli: those about the network are there once it is chosen.
NetworkKeys == {"ssid", "pairwise_cipher", "group_cipher", "key_mgmt"}
WpaKeys(w) ==
    CASE w = "unknown" -> {}
      [] w = "SCANNING" -> {"wpa_state"}
      [] OTHER -> {"wpa_state"} \cup NetworkKeys

\* Mutant of Summary: spi-fat-fuse is not asked about.
Summary_noSpid(s) ==
    IF {"ntpd", "zxdbfsd", "date"} \subseteq s.ok /\ s.wpa = "COMPLETED" THEN "0" ELSE "1"

Summary(s) ==
    IF Checks \subseteq s.ok /\ s.wpa = "COMPLETED" THEN "0" ELSE "1"

Json(s) ==
    [type |-> "zxdbfsstatus",
     wpa_cli |-> [k \in WpaKeys(s.wpa) |-> IF k = "wpa_state" THEN s.wpa ELSE k],
     ntpdok |-> "ntpd" \in s.ok, dateok |-> "date" \in s.ok,
     zxdbfsdok |-> "zxdbfsd" \in s.ok, spidok |-> "spid" \in s.ok,
     zxdbversion |-> s.version]

NoStatus == [valid |-> FALSE]

\* Mutant of CreateFromJSON: the field of the date is read for spi-fat-fuse.
CreateFromJSON_date(doc) ==
    IF doc.type # "zxdbfsstatus" \/ ~(NetworkKeys \cup {"wpa_state"} \subseteq DOMAIN doc.wpa_cli)
      THEN NoStatus
      ELSE [valid |-> TRUE, wpaState |-> doc.wpa_cli["wpa_state"],
            ntpdok |-> doc.ntpdok, dateok |-> doc.dateok,
            zxdbfsdok |-> doc.zxdbfsdok, spidok |-> doc.dateok, zxdbVersion |-> doc.zxdbversion]

\* A document without one of the keys gives no status at all.
CreateFromJSON(doc) ==
    IF doc.type # "zxdbfsstatus" \/ ~(NetworkKeys \cup {"wpa_state"} \subseteq DOMAIN doc.wpa_cli)
      THEN NoStatus
      ELSE [valid |-> TRUE, wpaState |-> doc.wpa_cli["wpa_state"],
            ntpdok |-> doc.ntpdok, dateok |-> doc.dateok,
            zxdbfsdok |-> doc.zxdbfsdok, spidok |-> doc.spidok, zxdbVersion |-> doc.zxdbversion]

-----------------------------------------------------------------------------
\* The script and the system under it

ScriptInit ==
    /\ wpa \in WpaStates /\ up \in SUBSET Checks
    /\ pc = "idle" /\ sample = Unknown
    /\ seen = {} /\ kept = {}

Start ==
    /\ pc \in {"idle", "done"}
    /\ pc' = "wpa"
    /\ sample' = Unknown
    /\ seen' = Holding(wpa, up) /\ kept' = Holding(wpa, up)
    /\ UNCHANGED <<wpa, up>>

AskWpa ==
    /\ pc = "wpa"
    /\ sample' = [sample EXCEPT !.wpa = IF wpa = "none" THEN "unknown" ELSE wpa]
    /\ pc' = After(pc)
    /\ UNCHANGED <<wpa, up, seen, kept>>

\* date, or ps ax | grep.
Check ==
    /\ pc \in Checks
    /\ sample' = [sample EXCEPT !.ok = @ \cup ({pc} \cap up)]
    /\ pc' = After(pc)
    /\ UNCHANGED <<wpa, up, seen, kept>>

\* The version is asked for when zxdbfsd runs; the call may bring nothing.
Version ==
    /\ pc = "version"
    /\ \/ "zxdbfsd" \notin sample.ok /\ UNCHANGED sample
       \/ /\ "zxdbfsd" \in sample.ok
          /\ \E v \in Versions \cup {""} : sample' = [sample EXCEPT !.version = v]
    /\ pc' = After(pc)
    /\ UNCHANGED <<wpa, up, seen, kept>>

\* The network comes and goes, daemons start and stop, the clock is set.
System ==
    /\ \/ wpa' \in WpaStates \ {wpa} /\ UNCHANGED up
       \/ /\ \E c \in Checks : up' = (up \cup {c}) \ (up \cap {c})
          /\ UNCHANGED wpa
    /\ pc \notin {"idle", "done"}
    /\ seen' = seen \cup Holding(wpa', up')
    /\ kept' = kept \cap Holding(wpa', up')
    /\ UNCHANGED <<pc, sample>>

ScriptNext == Start \/ AskWpa \/ Check \/ Version \/ System

ScriptSpec == ScriptInit /\ [][ScriptNext]_scriptVars

-----------------------------------------------------------------------------
(***************************************************************************)
(* Properties                                                               *)
(***************************************************************************)

IsGathered == pc = "done"

\* A "0" is earned: each condition held at some moment while it was gathered
\* (not all at one moment: the script asks about them one by one).
ZeroIsEarned == IsGathered /\ Summary(sample) = "0" => seen = Conditions

\* A "1" is no false alarm: some condition did not hold for the whole of the run.
OneIsEarned == IsGathered /\ Summary(sample) = "1" => kept # Conditions

\* Neither answer is out of thin air.
SummaryIsEarned == ZeroIsEarned /\ OneIsEarned

IsAllWell(status) ==
    /\ status.valid
    /\ status.wpaState = "COMPLETED"
    /\ status.ntpdok /\ status.dateok /\ status.zxdbfsdok /\ status.spidok

\* The summary and the JSON read back with ZXDBFSStatus_createFromJSON tell
\* the same, whatever is missing of the network's lines.
JsonAgreesWithSummary ==
    IsGathered => (IsAllWell(CreateFromJSON(Json(sample))) <=> Summary(sample) = "0")

\* "0 will be returned if ntpd, zxdbfsd and spi-fat-fuse are running plus the
\* wpa_state is COMPLETED" (README.md:143-145).
SummaryAsDocumented ==
    IsGathered /\ {"ntpd", "zxdbfsd", "spid", "wifi"} \subseteq kept => Summary(sample) = "0"

=============================================================================

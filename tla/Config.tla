------------------------------- MODULE Config -------------------------------
(***************************************************************************)
(* ConfigManager (config/config_manager.cpp) and what app_init makes of    *)
(* the configuration: the faces, their receive CPUs and their processing   *)
(* CPUs; and the reload of app_run, which applies a part of it at run      *)
(* time.                                                                   *)
(*                                                                         *)
(* A file is a record of the settings the checks relate to each other.     *)
(* The many settings that are only checked against a range of their own    *)
(* are one field, inRange.  The field text tells a file that reads well    *)
(* from one on which yaml-cpp throws a YAML::Exception and from one with a *)
(* number std::stoul cannot read.                                          *)
(***************************************************************************)
EXTENDS Integers, Sequences, FiniteSets

CONSTANTS
    Files,        \* the contents the configuration file may have
    MaxEdits      \* bound: how often it is edited

ASSUME ConfigAssumption ==
    /\ MaxEdits \in Nat
    /\ Files \subseteq
        [text : {"good", "yaml", "number"}, port : Nat, filter : BOOLEAN,
         ips : Seq(STRING), ids : Seq(Nat), cpus : Seq(Int), proc : Seq(Int),
         inRange : BOOLEAN, low : Nat, high : Nat, max : Nat,
         captureOn : BOOLEAN, spool : BOOLEAN, timeouts : Nat]

VARIABLES
    file,         \* the file
    edits,        \* its edits so far
    current,      \* impl_->current_config, as a sequence of at most one
    faces,        \* udp_config.array_faces, fixed by app_init
    procCpus,     \* processing_cpu_affinity of the faces
    named,        \* history: the file named them
    applied,      \* the timeouts and the capture settings in use
    phase         \* "start", "running", "refused" or "terminated"

configVars == <<file, edits, current, faces, procCpus, named, applied, phase>>

ConfigInit ==
    /\ file \in Files
    /\ edits = 0
    /\ current = <<>> /\ faces = <<>> /\ procCpus = <<>> /\ named = FALSE /\ applied = <<>>
    /\ phase = "start"

(* A uint8_t setting is std::stoul of its text, cut to eight bits. *)
Byte(n) == n % 256

Parsed(f) ==
    [f EXCEPT !.ids = [i \in DOMAIN f.ids |-> Byte(f.ids[i])]]

Members(s) == {s[i] : i \in DOMAIN s}

Distinct(s) == Cardinality(Members(s)) = Len(s)

(* Mutant: the receive CPUs are not checked. *)
MutValidateCpus(c) ==
    /\ c.port # 0
    /\ \/ {Len(c.ips), Len(c.ids), Len(c.cpus)} = {0}
       \/ {Len(c.ips), Len(c.ids), Len(c.cpus)} = {3}
    /\ Distinct(c.ips) /\ "" \notin Members(c.ips)
    /\ Distinct(c.ids) /\ \A i \in Members(c.ids) : i \in 17..19

(* validate, on the network section. *)
validate_network(c) ==
    /\ c.port # 0
    /\ \/ {Len(c.ips), Len(c.ids), Len(c.cpus)} = {0}
       \/ {Len(c.ips), Len(c.ids), Len(c.cpus)} = {3}
    /\ Distinct(c.ips) /\ "" \notin Members(c.ips)
    /\ Distinct(c.ids) /\ \A i \in Members(c.ids) : i \in 17..19
    /\ Distinct(c.cpus) /\ \A n \in Members(c.cpus) : n >= 0

(* validate, on the other sections. *)
validate_limits(c) ==
    /\ c.inRange
    /\ c.low <= c.high /\ c.high <= c.max
    /\ c.proc = <<>> \/ /\ Distinct(c.proc) /\ \A n \in Members(c.proc) : n >= 0
                        /\ Len(c.proc) = IF c.ips = <<>> THEN 1 ELSE Len(c.ips)
    /\ c.captureOn => c.spool

validate_config(c) == validate_network(c) /\ validate_limits(c)

(* load_from_file: the answer, and the configuration when it is kept. *)
Loads(f) == f.text = "good" /\ validate_config(Parsed(f))

(* app_init: the topology.  Without one, one face takes any source. *)
FacesOf(c) ==
    IF Len(c.ips) = 3
    THEN [i \in 1..3 |-> [ip |-> c.ips[i], source |-> c.ids[i], cpu |-> c.cpus[i],
                          filter |-> c.filter]]
    ELSE <<[ip |-> "any", source |-> 17, cpu |-> 16, filter |-> FALSE]>>

(* The first n CPUs from 16 to 31 that are not reserved, in order. *)
Unreserved(reserved, n) ==
    LET resolved[cpu \in 15..31] ==
            IF cpu = 15 THEN <<>>
            ELSE IF Len(resolved[cpu - 1]) = n \/ cpu \in reserved
            THEN resolved[cpu - 1]
            ELSE Append(resolved[cpu - 1], cpu)
    IN  resolved[31]

(* The CPUs no receive thread is bound to, and receive CPUs again if there *)
(* are too few.                                                            *)
resolve_processing_cpu_affinity_map(c, n) ==
    IF Len(c.proc) = n THEN c.proc
    ELSE LET resolved == Unreserved(Members(c.cpus), n)
         IN  [i \in 1..n |->
                IF i <= Len(resolved) THEN resolved[i]
                ELSE IF c.cpus = <<>> THEN 15 + i
                ELSE c.cpus[((i - 1) % Len(c.cpus)) + 1]]

(* The settings in use: with a writer that does not start, the capture of  *)
(* before goes on.                                                         *)
Settings(c, before, starts) ==
    [timeouts |-> c.timeouts, captureOn |-> c.captureOn /\ (starts \/ before)]

(* app_init *)
ConfigLoad ==
    /\ phase = "start"
    /\ IF file.text = "number"
       THEN phase' = "terminated" /\ UNCHANGED <<current, faces, procCpus, named, applied>>
       ELSE IF ~Loads(file)
       THEN phase' = "refused" /\ UNCHANGED <<current, faces, procCpus, named, applied>>
       ELSE LET c == Parsed(file)
            IN  /\ phase' = "running"
                /\ current' = <<c>>
                /\ faces' = FacesOf(c)
                /\ named' = (c.proc # <<>>)
                /\ procCpus' = resolve_processing_cpu_affinity_map(c, Len(FacesOf(c)))
                /\ \E starts \in BOOLEAN : applied' = <<Settings(c, FALSE, starts)>>
    /\ UNCHANGED <<file, edits>>

(* Mutant: the settings are replaced before they are checked. *)
MutConfigReload ==
    /\ phase = "running"
    /\ IF file.text # "good"
       THEN UNCHANGED <<phase, current, applied>>
       ELSE LET c == Parsed(file)
            IN  /\ current' = <<c>>
                /\ applied' = IF Loads(file) THEN <<Settings(c, FALSE, TRUE)>> ELSE applied
                /\ phase' = phase
    /\ UNCHANGED <<file, edits, faces, procCpus, named>>

(* reload, and the callback app_run has registered. *)
ConfigReload ==
    /\ phase = "running"
    /\ IF file.text = "number"
       THEN phase' = "terminated" /\ UNCHANGED <<current, applied>>
       ELSE IF ~Loads(file)
       THEN UNCHANGED <<phase, current, applied>>
       ELSE LET c == Parsed(file)
            IN  /\ current' = <<c>>
                /\ \E starts \in BOOLEAN :
                    applied' = <<Settings(c, applied[1].captureOn, starts)>>
                /\ phase' = phase
    /\ UNCHANGED <<file, edits, faces, procCpus, named>>

EditFile ==
    /\ phase = "running" /\ edits < MaxEdits
    /\ file' \in Files \ {file}
    /\ edits' = edits + 1
    /\ UNCHANGED <<current, faces, procCpus, named, applied, phase>>

ConfigNext == ConfigLoad \/ ConfigReload \/ EditFile

ConfigSpec == ConfigInit /\ [][ConfigNext]_configVars

----------------------------------------------------------------------------
ConfigTypeOK ==
    /\ phase \in {"start", "running", "refused", "terminated"}
    /\ Len(current) <= 1 /\ Len(applied) <= 1
    /\ Len(procCpus) = Len(faces)
    /\ edits \in 0..MaxEdits

(***************************************************************************)
(* Every datagram of an array has one face to go to: with the three-face   *)
(* topology each of the sources 0x11, 0x12 and 0x13 is expected by exactly *)
(* one face, on an address and a CPU of its own.  Processing threads have  *)
(* CPUs of their own, apart from the receive threads, unless the file      *)
(* names them or there is one face only: its receive CPU 16 is not         *)
(* reserved, and its processing thread gets it too.                        *)
(***************************************************************************)
FacesApart ==
    /\ Len(faces) = 3 => \A s \in 17..19 :
            Cardinality({i \in 1..3 : faces[i].source = s}) = 1
    /\ \A i, j \in DOMAIN faces : i # j =>
            faces[i].ip # faces[j].ip /\ faces[i].cpu # faces[j].cpu
    /\ Distinct(procCpus)
    /\ Len(faces) = 3 /\ ~named =>
            Members(procCpus) \cap {faces[i].cpu : i \in DOMAIN faces} = {}

(***************************************************************************)
(* A reload that is refused changes nothing: the threads always use the    *)
(* timeouts get_config() answers, capture is off when that says so, and    *)
(* that has passed validate.                                               *)
(***************************************************************************)
AppliedIsCurrent ==
    current # <<>> => /\ applied[1].timeouts = current[1].timeouts
                      /\ applied[1].captureOn => current[1].captureOn
                      /\ validate_config(current[1])
=============================================================================

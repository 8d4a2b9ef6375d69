--------------------------- MODULE HealthManager ---------------------------
(***************************************************************************)
(* Health of one GPU: the thresholds clients set and the status getHealth  *)
(* works out of the device's readings.  Every call runs under              *)
(* HealthManager::mutex, so it is one step.                                *)
(***************************************************************************)
EXTENDS Integers, Sequences, SequencesExt

CONSTANTS
    Limits,       \* thresholds a client may pass
    Throttle,     \* kind -> throttle value of the model of GPU
    Shutdown,     \* kind -> largest threshold accepted
    Default,      \* kind -> Configuration::*_HEALTH_DEFAULT_LIMIT
    SmiMode,      \* Configuration::XPUM_MODE is "xpu-smi"
    MaxModules,   \* bound: memory modules, sensors, power domains or ports
    Readings      \* what a sensor or power domain may read

VARIABLES
    config,       \* kind -> threshold, 0: none
    report        \* the last xpum_health_data_t, and what it was worked out of

healthVars == <<config, report>>

Kind == {"core_thermal", "memory_thermal", "power"}
Unknown == 0 \* XPUM_HEALTH_STATUS_*
Ok == 1
Warning == 2
Critical == 3
Unreadable == -1                   \* a failing zesMemoryGetState
MemHealth == Unreadable..4         \* ZES_MEM_HEALTH_UNKNOWN to _REPLACE
PortStatus == {"healthy", "failed", "degraded", "disabled"}

HealthInit ==
    /\ config = [k \in Kind |-> 0]
    /\ report = [type |-> "none", status |-> Unknown, modules |-> <<>>, mrc |-> FALSE]

-----------------------------------------------------------------------------
LastState(status, health) ==
    IF health \in {3, 4} THEN Critical ELSE IF health > 0 THEN health ELSE status

(* The four tests for one memory module *)
WorseState(status, health) ==
    IF health > status /\ health > 0
    THEN (IF health \in {3, 4} THEN Critical ELSE health)
    ELSE status

(* XPUM_HEALTH_MEMORY; mrc: an ATSM register tells of a failed training    *)
MemoryStatus(modules, mrc) ==
    LET worst == FoldLeft(WorseState, Unknown, modules)
        known == IF worst = Ok /\ 0 \in ToSet(modules) THEN Unknown ELSE worst
    IN  IF mrc /\ known \in {Unknown, Ok} THEN Critical ELSE known

(* XPUM_HEALTH_CORE_THERMAL and _MEMORY_THERMAL: of the sensors that can   *)
(* be read and are below 150 the last one counts.                          *)
ThermalStatus(temps, threshold) ==
    LET val == IF temps = <<>> THEN 0 ELSE Last(temps)
    IN  IF val >= threshold THEN Warning ELSE IF val > 0 THEN Ok ELSE Unknown

(* XPUM_HEALTH_POWER: the device's own domain or the sum of the tiles      *)
PowerStatus(known, device, tiles, threshold) ==
    IF ~known THEN Unknown
    ELSE IF device >= threshold \/ FoldLeft(+, 0, tiles) >= threshold THEN Warning ELSE Ok

(* XPUM_HEALTH_FABRIC_PORT *)
FabricStatus(ports) ==
    CASE ports = <<>> -> Unknown
      [] ports # <<>> /\ ToSet(ports) = {"healthy"} -> Ok
      [] "failed" \in ToSet(ports) -> Critical
      [] OTHER -> Warning

Threshold(cfg, k) == IF cfg[k] = 0 THEN Default[k] ELSE cfg[k]

-----------------------------------------------------------------------------
(* setHealthConfig: -1 removes the threshold; one out of range is refused. *)
setHealthConfig(k, limit) ==
    /\ limit = -1 \/ (limit > 0 /\ limit <= Shutdown[k])
    /\ config' = [config EXCEPT ![k] = IF limit = -1 THEN 0 ELSE limit]
    /\ UNCHANGED report

Report(type, status) ==
    report' = [type |-> type, status |-> status, modules |-> <<>>, mrc |-> FALSE]

(* getHealth.  In xpu-smi mode it replaces the configured threshold first. *)
GetMemory(modules, mrc) ==
    /\ report' = [type |-> "memory", status |-> MemoryStatus(modules, mrc),
                  modules |-> modules, mrc |-> mrc]
    /\ UNCHANGED config

ConfigRead(k) == IF SmiMode THEN [config EXCEPT ![k] = Throttle[k]] ELSE config

GetThermal(k, temps) ==
    /\ config' = ConfigRead(k)
    /\ Report(k, ThermalStatus(temps, Threshold(ConfigRead(k), k)))

GetPower(known, device, tiles) ==
    /\ config' = ConfigRead("power")
    /\ Report("power", PowerStatus(known, device, tiles,
                             Threshold(ConfigRead("power"), "power")))

GetFabric(ports) == Report("fabric", FabricStatus(ports)) /\ UNCHANGED config

(* XPUM_HEALTH_FREQUENCY *)
GetFrequency(known, throttled) ==
    /\ Report("frequency", IF ~known THEN Unknown ELSE IF throttled THEN Warning ELSE Ok)
    /\ UNCHANGED config

HealthNext ==
    \/ \E k \in Kind, limit \in Limits \cup {-1} : setHealthConfig(k, limit)
    \/ \E m \in BoundedSeq(MemHealth, MaxModules), mrc \in BOOLEAN : GetMemory(m, mrc)
    \/ \E k \in Kind \ {"power"}, temps \in BoundedSeq(Readings, MaxModules) :
         GetThermal(k, temps)
    \/ \E known \in BOOLEAN, device \in Readings, tiles \in BoundedSeq(Readings, MaxModules) :
         GetPower(known, device, tiles)
    \/ \E ports \in BoundedSeq(PortStatus, MaxModules) : GetFabric(ports)
    \/ \E known, throttled \in BOOLEAN : GetFrequency(known, throttled)

-----------------------------------------------------------------------------
(* The memory status never hides a module: a critical module or one to be  *)
(* replaced makes it critical, a degraded one at least a warning, in       *)
(* whatever order the driver lists them; OK needs a module that is, none   *)
(* that is not and no failed training; a bad status has its reason.        *)
MemoryWorst ==
    report.type = "memory" =>
      LET seen == ToSet(report.modules) IN
      /\ seen \cap {3, 4} # {} => report.status = Critical
      /\ 2 \in seen => report.status >= Warning
      /\ report.status = Ok => 1 \in seen /\ seen \subseteq {Unreadable, 1} /\ ~report.mrc
      /\ report.status >= Warning => report.mrc \/ seen \cap {2, 3, 4} # {}

=============================================================================

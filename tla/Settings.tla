------------------------------- MODULE Settings -------------------------------
(***************************************************************************)
(* sasse.toml (src/config.rs): what is written in it, which of it is       *)
(* refused, and what is left out of it.  A command is "blank", or a        *)
(* command; an optional setting is a set of at most one value.             *)
(***************************************************************************)
EXTENDS Sizes, FiniteSetsExt

CONSTANTS
    DefaultBatch, DefaultAttempts,  \* 8 and 3
    DefaultBudget, DefaultLogSize   \* 200MB and 2MB

ASSUME DefaultsAssumption ==
    /\ DefaultBatch \in Nat /\ DefaultAttempts \in Nat
    /\ DefaultBudget \in Size /\ DefaultLogSize \in Size

OrElse(setting, default) == IF setting = {} THEN default ELSE Max(setting)

SizeOf(setting, default) ==
    IF setting = {} THEN default ELSE Parsed(CHOOSE written \in setting : TRUE)

Config(source) ==
    [gate |-> source.gate,
     max_batch |-> OrElse(source.max_batch, DefaultBatch),
     max_attempts |-> OrElse(source.max_attempts, DefaultAttempts),
     log_budget |-> SizeOf(source.log_budget, DefaultBudget),
     max_log_size |-> SizeOf(source.max_log_size, DefaultLogSize),
     on_settle |-> source.on_settle]

\* Mutant: a size that does not parse is let through.
UsableUnread(config) ==
    /\ config.gate # "blank"
    /\ config.max_batch # 0
    /\ config.max_attempts # 0
    /\ config.on_settle # {"blank"}
    /\ config.max_log_size # 0
    /\ config.log_budget >= config.max_log_size

\* Config::parse: anything unusable is refused, and there is no default gate.
Usable(config) ==
    /\ Refused \notin {config.log_budget, config.max_log_size}
    /\ config.gate # "blank"
    /\ config.max_batch # 0
    /\ config.max_attempts # 0
    /\ config.on_settle # {"blank"}
    /\ config.max_log_size # 0
    /\ config.log_budget >= config.max_log_size
=============================================================================

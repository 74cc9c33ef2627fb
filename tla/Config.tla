---------------------------------- MODULE Config ----------------------------------
(***************************************************************************)
(* The configuration: what Load makes of the environment and what Valid     *)
(* accepts, for the settings the process depends on at its start.           *)
(*                                                                         *)
(* A setting is the set of the values it parses to: {} when it is unset,    *)
(* empty or malformed.  A duration is a 64 bit count of nanoseconds, so the *)
(* product with time.Second wraps around; the width and the second are      *)
(* constants, small for TLC.                                                *)
(***************************************************************************)
EXTENDS Integers

CONSTANTS
  HalfWord,  \* 2^63: an int or a time.Duration goes from -HalfWord to HalfWord - 1
  Second     \* time.Second

MinSecret == 32

\* The default that is longest, an hour between two scans, fits a duration.
ASSUME WordAssumption ==
  /\ HalfWord \in Nat \ {0} /\ Second \in Nat \ {0}
  /\ 3600 * Second < HalfWord

Int64 == -HalfWord..HalfWord - 1

Optional(S) == {{}} \cup {{x} : x \in S}

\* What the environment of a process can say.
Environments ==
  [password : BOOLEAN,   \* MONITORIZED_ADMIN_PASSWORD is not empty
   secret   : Nat,       \* length of MONITORIZED_JWT_SECRET
   host     : Optional(Int64), docker : Optional(Int64), npm : Optional(Int64),
   enabled  : Optional({"true", "other"}),
   compromise : Optional(Int64)]

-----------------------------------------------------------------------------

Env(setting, def) == IF setting = {} THEN def ELSE CHOOSE x \in setting : TRUE

IntEnvMut(setting, def) == Env(setting, 0)

\* A number that does not parse, or not into an int, leaves the default.
IntEnv(setting, def) == Env(setting, def)

Wrap(n) == ((n + HalfWord) % (2 * HalfWord)) - HalfWord

DurationSec(setting, def) == Wrap(IntEnv(setting, def) * Second)

Load(env) ==
  [AdminPassword      |-> env.password,
   JWTSecret          |-> env.secret,
   HostInterval       |-> DurationSec(env.host, 10),
   DockerInterval     |-> DurationSec(env.docker, 15),
   NPMInterval        |-> DurationSec(env.npm, 30),
   CompromiseEnabled  |-> Env(env.enabled, "true") = "true",
   CompromiseInterval |-> DurationSec(env.compromise, 3600)]

\* Valid returns no error.  It does not look at the intervals.
Valid(cfg) == cfg.AdminPassword /\ cfg.JWTSecret >= MinSecret

=============================================================================

----------------------------- MODULE OpcodeTable ------------------------------
(***************************************************************************)
(* The two tables of src/machine/opcode.rs: OpCode::execute, which         *)
(* instruction a byte of code runs, with the number of words that          *)
(* instruction pops before it does anything else; and the Display of       *)
(* OpCode, how the byte is shown.  The const generic of push, dup, swap    *)
(* and log is the function Arg.                                            *)
(***************************************************************************)
EXTENDS Integers, Sequences

Byte == 0 .. 255

Arithmetic == << "ADD", "MUL", "SUB", "DIV", "SDIV", "MOD", "SMOD", "ADDMOD",
                 "MULMOD", "EXP", "SIGNEXTEND" >>

Logic == << "LT", "GT", "SLT", "SGT", "EQ", "ISZERO", "AND", "OR", "XOR",
            "NOT", "BYTE", "SHL", "SHR", "SAR" >>

Environment == << "ADDRESS", "BALANCE", "ORIGIN", "CALLER", "CALLVALUE",
                  "CALLDATALOAD", "CALLDATASIZE", "CALLDATACOPY", "CODESIZE",
                  "CODECOPY", "GASPRICE", "EXTCODESIZE", "EXTCODECOPY",
                  "RETURNDATASIZE", "RETURNDATACOPY", "EXTCODEHASH",
                  "BLOCKHASH", "COINBASE", "TIMESTAMP", "NUMBER",
                  "PREVRANDAO", "GASLIMIT", "CHAINID", "SELFBALANCE",
                  "BASEFEE", "BLOBHASH", "BLOBBASEFEE" >>

Flow == << "POP", "MLOAD", "MSTORE", "MSTORE8", "SLOAD", "SSTORE", "JUMP",
           "JUMPI", "PC", "MSIZE", "GAS", "JUMPDEST", "TLOAD", "TSTORE",
           "MCOPY" >>

Frames == << "CREATE", "CALL", "CALLCODE", "RETURN", "DELEGATECALL",
             "CREATE2" >>

\* The instruction that byte b selects; a byte with no instruction is INVALID.
Mnemonic[b \in Byte] ==
    CASE b = 0         -> "STOP"
      [] b \in 1..11    -> Arithmetic[b]
      [] b \in 16..29   -> Logic[b - 15]
      [] b = 32        -> "KECCAK256"
      [] b \in 48..74   -> Environment[b - 47]
      [] b \in 80..94   -> Flow[b - 79]
      [] b \in 95..127  -> "PUSH"
      [] b \in 128..143 -> "DUP"
      [] b \in 144..159 -> "SWAP"
      [] b \in 160..164 -> "LOG"
      [] b \in 240..245 -> Frames[b - 239]
      [] b = 250       -> "STATICCALL"
      [] b = 253       -> "REVERT"
      [] b = 255       -> "SELFDESTRUCT"
      [] OTHER         -> "INVALID"

\* The const generic N of push::<N>, dup::<N>, swap::<N> and log::<N>.
Arg[b \in Byte] ==
    CASE b \in 95..127  -> b - 95
      [] b \in 128..143 -> b - 127
      [] b \in 144..159 -> b - 142
      [] b \in 160..164 -> b - 160
      [] OTHER         -> 0

\* The names of Display, by the row of sixteen bytes in which they stand.
ShownArithmetic == << "STOP", "ADD", "MUL", "SUB", "DIV", "SDIV", "MOD", "SMOD", "ADDMOD",
                      "MULMOD", "EXP", "SIGNEXTEND" >>

ShownLogic == << "LT", "GT", "SLT", "SGT", "EQ", "ISZERO", "AND", "OR", "XOR", "NOT",
                 "BYTE", "SHL", "SHR", "SAR" >>

ShownContext == << "ADDRESS", "BALANCE", "ORIGIN", "CALLER", "CALLVALUE", "CALLDATALOAD",
                   "CALLDATASIZE", "CALLDATACOPY", "CODESIZE", "CODECOPY", "GASPRICE",
                   "EXTCODESIZE", "EXTCODECOPY", "RETURNDATASIZE", "RETURNDATACOPY",
                   "EXTCODEHASH" >>

ShownBlock == << "BLOCKHASH", "COINBASE", "TIMESTAMP", "NUMBER", "PREVRANDAO", "GASLIMIT",
                 "CHAINID", "SELFBALANCE", "BASEFEE", "BLOBHASH", "BLOBBASEFEE" >>

ShownFlow == << "POP", "MLOAD", "MSTORE", "MSTORE8", "SLOAD", "SSTORE", "JUMP", "JUMPI",
                "PC", "MSIZE", "GAS", "JUMPDEST", "TLOAD", "TSTORE", "MCOPY" >>

ShownSystem == << "CREATE", "CALL", "CALLCODE", "RETURN", "DELEGATECALL", "CREATE2" >>

\* The name the byte is shown by, a number after PUSH, DUP, SWAP and LOG apart.  The
\* byte 0xFE has a name, unlike the other bytes that run `invalid'.
ShownName[b \in Byte] ==
    CASE b \in 0..11    -> ShownArithmetic[b + 1]
      [] b \in 16..29   -> ShownLogic[b - 15]
      [] b = 32        -> "KECCAK256"
      [] b \in 48..63   -> ShownContext[b - 47]
      [] b \in 64..74   -> ShownBlock[b - 63]
      [] b \in 80..94   -> ShownFlow[b - 79]
      [] b \in 95..127  -> "PUSH"
      [] b \in 128..143 -> "DUP"
      [] b \in 144..159 -> "SWAP"
      [] b \in 160..164 -> "LOG"
      [] b \in 240..245 -> ShownSystem[b - 239]
      [] b = 250       -> "STATICCALL"
      [] b = 253       -> "REVERT"
      [] b = 254       -> "INVALID"
      [] b = 255       -> "SELFDESTRUCT"
      [] OTHER         -> "UNKNOWN"

\* That number.  SWAPn is swap::<n + 1>.
ShownNumber[b \in Byte] ==
    CASE b \in 95..127  -> b - 95
      [] b \in 128..143 -> b - 127
      [] b \in 144..159 -> b - 143
      [] b \in 160..164 -> b - 160
      [] OTHER         -> 0

\* The instructions that compute one word from the words they pop.
AluOps == {Arithmetic[i] : i \in DOMAIN Arithmetic}
              \cup {Logic[i] : i \in DOMAIN Logic}

\* The instructions that push one word of the transaction, of a buffer's size, of
\* the block, or of the run's own progress.
TransactionOps == {"ADDRESS", "ORIGIN", "CALLER", "CALLVALUE", "GASPRICE"}
SizeOps     == {"CALLDATASIZE", "CODESIZE", "RETURNDATASIZE"}
BlockOps    == {"COINBASE", "TIMESTAMP", "NUMBER", "PREVRANDAO", "GASLIMIT", "CHAINID"}
ProgressOps == {"PC", "MSIZE", "GAS"}
ContextOps  == TransactionOps \cup SizeOps \cup BlockOps \cup ProgressOps

CopyOps == {"CALLDATACOPY", "CODECOPY", "RETURNDATACOPY", "EXTCODECOPY"}

\* The instructions whose body is todo!().
TodoBlockOps == {"BLOCKHASH", "BASEFEE", "BLOBHASH", "BLOBBASEFEE"}
TodoFrameOps == {"CREATE", "CALL", "CALLCODE", "DELEGATECALL", "CREATE2", "STATICCALL"}
TodoOps      == TodoBlockOps \cup TodoFrameOps \cup {"SELFDESTRUCT"}

\* Words the instruction of byte b pops before it touches any other state.
UnaryOps   == {"ISZERO", "NOT", "BALANCE", "CALLDATALOAD", "EXTCODESIZE", "EXTCODEHASH",
               "POP", "MLOAD", "SLOAD", "JUMP", "TLOAD"}
TernaryOps == {"ADDMOD", "MULMOD", "CALLDATACOPY", "CODECOPY", "RETURNDATACOPY", "MCOPY"}
BinaryOps  == (AluOps \ (UnaryOps \cup TernaryOps))
                  \cup {"KECCAK256", "MSTORE", "MSTORE8", "SSTORE", "JUMPI", "TSTORE",
                        "RETURN", "REVERT"}

Pops[b \in Byte] ==
    LET op == Mnemonic[b]
    IN  CASE op \in UnaryOps        -> 1
          [] op \in BinaryOps       -> 2
          [] op \in TernaryOps      -> 3
          [] op = "EXTCODECOPY"     -> 4
          [] op \in {"DUP", "SWAP"} -> Arg[b]
          [] op = "LOG"             -> 2 + Arg[b]
          [] OTHER                  -> 0

===============================================================================

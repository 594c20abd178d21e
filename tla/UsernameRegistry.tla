-------------------------- MODULE UsernameRegistry --------------------------
(***************************************************************************)
(* Permanent username claims (chat-service/internal/username) as POST      *)
(* /connect uses them (internal/api/handler.go): a bloom filter in front   *)
(* of the map of claimed names, and an append-only file that is replayed   *)
(* when the server starts.                                                 *)
(*                                                                         *)
(* A name is a model value, of one line.  KeyOf gives its lower-case form  *)
(* and TrimmedTo the name it becomes when its line is read back and         *)
(* trimmed, NoName if nothing is left of it.  Neither the handler nor      *)
(* TryClaim trims, so any name may have blanks around it.  r.mu is held    *)
(* from the check to the end of a claim, so a claim is a sequence of steps *)
(* of the one caller that holds it; the server may stop after each.        *)
(***************************************************************************)
EXTENDS Integers, Sequences, FiniteSets

CONSTANTS
  Names, KeyOf, TrimmedTo,
  Reserved,   \* the keys of reservedUsernames
  HashOf,     \* the bit positions a key sets in the bloom filter
  Callers, NoCaller, NoName,
  MaxCalls, MaxStops, MaxSyncErrors,   \* bounds
  MaxTorn     \* how often a write may reach the file only in part

Keys == {KeyOf[n] : n \in Names} \cup Reserved
Bits == UNION {HashOf[k] : k \in Keys}

ASSUME UsernameAssumption ==
  /\ DOMAIN KeyOf = Names /\ TrimmedTo \in [Names -> Names \cup {NoName}]
  /\ DOMAIN HashOf = Keys
  /\ NoCaller \notin Callers /\ NoName \notin Names
  /\ {MaxCalls, MaxStops, MaxSyncErrors, MaxTorn} \subseteq Nat

VARIABLES
  \* --- the file: its lines, each the pieces of writes that ended up on it --
  file,
  ended,     \* whether the last line has its newline
  durable,   \* lines known to be on stable storage
  \* --- the registry ------------------------------------------------------
  up, claimed, bits,
  holder,    \* the caller in TryClaim
  \* --- callers of /connect -----------------------------------------------
  callPc, name,
  \* --- history and bounds ------------------------------------------------
  granted,   \* how often each key was claimed with success
  tokens,    \* names in tokens that were handed out
  refused,   \* whether /connect refused such a token
  faults,    \* calls, torn writes and failed syncs so far
  stops

memory == <<up, claimed, bits>>
store == <<file, ended, durable>>
history == <<granted, tokens, refused>>
registryVars == <<store, memory, holder, callPc, name, history, faults, stops>>

Whole(n) == [name |-> n, whole |-> TRUE]
Torn(n) == [name |-> n, whole |-> FALSE]

Fault(kind, max) ==
  faults[kind] < max /\ faults' = [faults EXCEPT ![kind] = @ + 1]

-----------------------------------------------------------------------------
(* load: the names of the lines that are one whole name.  A line that holds*)
(* the pieces of several writes reads as a name nobody asked for.          *)

NamesIn(lines) ==
  {TrimmedTo[n] : n \in {m \in Names : \E i \in DOMAIN lines : lines[i] = <<Whole(m)>>}}
    \ {NoName}

LoadedKeys(lines) == {KeyOf[n] : n \in NamesIn(lines)} \cup Reserved

ReservedBits(keys) == UNION {HashOf[k] : k \in Reserved}
BitsOf(keys) == UNION {HashOf[k] : k \in keys}

MightContain(k) == HashOf[k] \subseteq bits

IsClaimed(k) == MightContain(k) /\ k \in claimed

RegistryInit ==
  /\ file = <<>> /\ ended = TRUE /\ durable = 0
  /\ up = TRUE /\ claimed = Reserved /\ bits = BitsOf(Reserved)
  /\ holder = NoCaller
  /\ callPc = [c \in Callers |-> "idle"]
  /\ name = [c \in Callers |-> NoName]
  /\ granted = [k \in Keys |-> 0] /\ tokens = {} /\ refused = FALSE
  /\ stops = 0
  /\ faults = [f \in {"call", "torn", "sync"} |-> 0]

-----------------------------------------------------------------------------
(* TryClaim, step by step under r.mu.                                      *)

CallGoto(c, label) == callPc' = [callPc EXCEPT ![c] = label]

Unlock(c) == holder' = NoCaller /\ name' = [name EXCEPT ![c] = NoName]

\* Lock, and refuse a name that is taken.
Claim(c, n) ==
  /\ up /\ callPc[c] = "idle" /\ holder = NoCaller
  /\ Fault("call", MaxCalls)
  /\ IF IsClaimed(KeyOf[n])
     THEN UNCHANGED <<holder, callPc, name>>
     ELSE holder' = c /\ name' = [name EXCEPT ![c] = n] /\ CallGoto(c, "write")
  /\ UNCHANGED <<store, memory, history>>

AppendPiece(piece) ==
  IF ended THEN Append(file, <<piece>>)
  ELSE [file EXCEPT ![Len(file)] = Append(@, piece)]

Write(c) ==
  /\ callPc[c] = "write"
  /\ file' = AppendPiece(Whole(name[c]))
  /\ ended' = TRUE
  /\ CallGoto(c, "sync")
  /\ UNCHANGED <<durable, memory, holder, name, history, faults>>

\* The write fails, possibly after a part of the name reached the file.
WriteFails(c) ==
  /\ callPc[c] = "write"
  /\ \/ UNCHANGED <<file, ended, faults>>
     \/ /\ Fault("torn", MaxTorn)
        /\ file' = AppendPiece(Torn(name[c])) /\ ended' = FALSE
  /\ CallGoto(c, "idle") /\ Unlock(c)
  /\ UNCHANGED <<durable, memory, granted, tokens, refused>>

NotSynced == durable
Synced == Len(file)

Sync(c) ==
  /\ callPc[c] = "sync"
  /\ durable' = Synced
  /\ CallGoto(c, "commit")
  /\ UNCHANGED <<file, ended, memory, holder, name, history, faults>>

SyncFails(c) ==
  /\ callPc[c] = "sync"
  /\ Fault("sync", MaxSyncErrors)
  /\ CallGoto(c, "idle") /\ Unlock(c)
  /\ UNCHANGED <<store, memory, granted, tokens, refused>>

Commit(c) ==
  LET k == KeyOf[name[c]]
  IN
  /\ callPc[c] = "commit"
  /\ claimed' = claimed \cup {k}
  /\ bits' = bits \cup HashOf[k]
  /\ granted' = [granted EXCEPT ![k] = @ + 1]
  /\ holder' = NoCaller
  /\ CallGoto(c, "answer")
  /\ UNCHANGED <<store, up, name, tokens, refused, faults>>

\* The rest of ConnectHandler: the token reaches the caller.
Answer(c) ==
  /\ callPc[c] = "answer"
  /\ tokens' = tokens \cup {name[c]}
  /\ name' = [name EXCEPT ![c] = NoName]
  /\ CallGoto(c, "idle")
  /\ UNCHANGED <<store, memory, holder, granted, refused, faults>>

\* /connect with a token: no claim, only the question whether it stands.
Reconnect(c, n) ==
  /\ up /\ callPc[c] = "idle" /\ holder = NoCaller
  /\ n \in tokens
  /\ Fault("call", MaxCalls)
  /\ refused' = (refused \/ ~IsClaimed(KeyOf[n]))
  /\ UNCHANGED <<store, memory, holder, callPc, name, granted, tokens>>

-----------------------------------------------------------------------------
(* The server stops, at any moment, and starts again.  What was not synced *)
(* may or may not be in the file afterwards; the first line that is lost   *)
(* may have left a part of itself.                                         *)

Cut(line) == [line EXCEPT ![Len(line)] = Torn(@.name)]

LinesSurvive(kept) ==
  /\ file' = SubSeq(file, 1, kept)
  /\ ended' = (ended \/ kept < Len(file))
  /\ durable' = IF ended' THEN kept ELSE kept - 1
  /\ UNCHANGED faults

LineIsCut(kept) ==
  /\ kept < Len(file)
  /\ Fault("torn", MaxTorn)
  /\ file' = Append(SubSeq(file, 1, kept), Cut(file[kept + 1]))
  /\ ended' = FALSE
  /\ durable' = kept

Stop ==
  /\ up
  /\ stops < MaxStops /\ stops' = stops + 1
  /\ \E kept \in durable..Len(file) : LinesSurvive(kept) \/ LineIsCut(kept)
  /\ up' = FALSE /\ claimed' = {} /\ bits' = {}
  /\ holder' = NoCaller
  /\ callPc' = [c \in Callers |-> "idle"]
  /\ name' = [c \in Callers |-> NoName]
  /\ UNCHANGED history

Start ==
  /\ ~up
  /\ up' = TRUE
  /\ claimed' = LoadedKeys(file)
  /\ bits' = BitsOf(LoadedKeys(file))
  /\ UNCHANGED <<store, holder, callPc, name, history, faults>>

-----------------------------------------------------------------------------
CallerNext(c) ==
  \/ \E n \in Names : Claim(c, n) \/ Reconnect(c, n)
  \/ Write(c) \/ WriteFails(c)
  \/ Sync(c) \/ SyncFails(c)
  \/ Commit(c) \/ Answer(c)

RegistryNext ==
  \/ \E c \in Callers : CallerNext(c) /\ UNCHANGED stops
  \/ Stop
  \/ Start /\ UNCHANGED stops

RegistrySpec == RegistryInit /\ [][RegistryNext]_registryVars

-----------------------------------------------------------------------------
(* The types, and that exactly the caller inside TryClaim holds r.mu.       *)
RegistryTypeOK ==
  /\ \A i \in DOMAIN file : \A j \in DOMAIN file[i] :
       file[i][j] \in [name : Names, whole : BOOLEAN]
  /\ ended \in BOOLEAN
  /\ durable \in 0..Len(file)
  /\ up \in BOOLEAN
  /\ claimed \subseteq Keys /\ bits \subseteq Bits
  /\ holder \in Callers \cup {NoCaller}
  /\ callPc \in [Callers -> {"idle", "write", "sync", "commit", "answer"}]
  /\ name \in [Callers -> Names \cup {NoName}]
  /\ granted \in [Keys -> Nat]
  /\ tokens \subseteq Names
  /\ refused \in BOOLEAN
  /\ \A c \in Callers : holder = c <=> callPc[c] \in {"write", "sync", "commit"}

\* The names of a key have no blanks around them.
Plain(k) == \A n \in Names : KeyOf[n] = k => TrimmedTo[n] \in Names /\ KeyOf[TrimmedTo[n]] = k

(* A username, in whatever casing, is claimed with success once and never  *)
(* again, not by racing callers and not after any number of restarts,      *)
(* unless the file lost its line to a write that reached it only in part;  *)
(* one with blanks around it, which the file forgets, once in each run of  *)
(* the server.                                                             *)
GrantedOnce == \A k \in Keys : granted[k] <= 1 + IF Plain(k) THEN faults["torn"] ELSE stops

\* What load makes of the name of a granted key, if anything, is in the file.
Recorded(k) ==
  \/ k \in Reserved
  \/ \E n \in Names : /\ KeyOf[n] = k
                     /\ \/ TrimmedTo[n] = NoName
                        \/ KeyOf[TrimmedTo[n]] \in LoadedKeys(SubSeq(file, 1, durable))

(* A write that reaches the file in part spoils its line and the claim     *)
(* that lands on the same line: it costs the file at most one granted name, *)
(* of whatever kind; the file has the others, as load reads them.          *)
TornCostsOne ==
  Cardinality({k \in Keys : granted[k] > 0 /\ ~Recorded(k)}) <= faults["torn"]

(* PROTOCOL.md: the 401 for a validly signed token can never happen in     *)
(* normal operation, since claims are never released.                      *)
TokensHonoured == ~refused

=============================================================================

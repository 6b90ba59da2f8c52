----------------------------- MODULE WapMessages -----------------------------
(***************************************************************************)
(* What a command of the wallet access protocol carries, from the call in  *)
(* the wallet or in the JSON bridge to the daemon's handler and back:      *)
(*                                                                         *)
(*   call    the API function hands its arguments to the engine, which     *)
(*           prepares its message object and sends the request             *)
(*           (wap_client_engine.inc, wap_client.c);                        *)
(*   serve   the server reads the request into its one message object,     *)
(*           runs the handler on it and sends the reply from it            *)
(*           (wap_server_engine.inc, daemon_ipc_handlers.cpp);             *)
(*   accept  the engine reads the reply into its object and signals part   *)
(*           of it to the API, whose caller looks at the status and reads  *)
(*           the properties it needs (daemon_deprecated_rpc.cpp, wallet2). *)
(*                                                                         *)
(* The server has ONE message object for all its clients and a client one  *)
(* for all its commands; a field nobody sets in a request keeps what an    *)
(* earlier one left there.  To follow that, the value of a field is the    *)
(* number of the request that set it, 0 for none; the field "status"       *)
(* holds the code itself.  Wap.tla has the sessions, timers and restarts   *)
(* around these steps.                                                     *)
(***************************************************************************)
EXTENDS Integers, Sequences, SequencesExt, TLC

CONSTANTS Clients, Commands, MaxCalls, None

VARIABLES
  calls,    \* how many calls were made: the number of the last one
  pending,  \* per client, the call its API thread waits in
  message,  \* per client engine, self->message
  server,   \* the server's message object
  api,      \* per client, the properties of wap_client_t
  wire,     \* per client, the message under way, if any
  handled,  \* the last request handled: its number, arguments and outcome
  answer    \* per client, what its caller made of the last reply

msgVars == <<calls, pending, message, server, api, wire, handled, answer>>

-----------------------------------------------------------------------------
(***************************************************************************)
(* The codec of the wallet access protocol (src/ipc/wap_proto.c).  A       *)
(* message object is a function from field names to values; the object is  *)
(* reused, so that a field keeps its value until something sets it.  A     *)
(* value is a number, 0 standing for zero, for an empty chunk and for a    *)
(* missing one, and the octets of a chunk or string with value v are as    *)
(* many as v.  A message on the wire is the octets of the data frame, as   *)
(* the runs its writer puts into it one after the other, and the frames    *)
(* that follow.                                                            *)
(*                                                                         *)
(* wap_proto_send says the layout of a message twice, once to size the     *)
(* frame and once to fill it, and wap_proto_recv says it a third time:     *)
(* the three are tables of their own below, and messages without fields    *)
(* have no entry, as they have no case (or an empty one) in the source.    *)
(***************************************************************************)
(* The accessors of the fields.  The fields "owned" are pointers: their    *)
(* wap_proto_get_ accessor transfers them and leaves NULL behind; of the   *)
(* others, the value is copied.                                            *)
fields_of_blocks == [owned |-> {"block_ids", "block_data"},
                     plain |-> {"identity", "start_height", "status", "curr_height"}]
fields_of_txs == [owned |-> {"tx_as_hex", "tx_id", "o_indexes", "amounts"},
                  plain |-> {"outs_count"}]
fields_of_mining == [owned |-> {"random_outputs", "tx_data", "address"},
                     plain |-> {"height", "thread_count"}]
fields_of_info == [owned |-> {},
                   plain |-> {"target_height", "difficulty", "tx_count", "tx_pool_size",
                              "alt_blocks_count", "outgoing_connections_count",
                              "incoming_connections_count", "white_peerlist_size",
                              "grey_peerlist_size"}]
fields_of_status == [owned |-> {"white_list", "gray_list"},
                     plain |-> {"active", "speed", "visible", "level"}]
fields_of_template == [owned |-> {"hash", "prev_hash", "block_template_blob"},
                       plain |-> {"reserve_size", "reserved_offset", "reason"}]

Accessors == {fields_of_blocks, fields_of_txs, fields_of_mining, fields_of_info,
              fields_of_status, fields_of_template}
Owned == UNION {a.owned : a \in Accessors}
Fields == Owned \cup UNION {a.plain : a \in Accessors}

(* A new message object: calloc.                                           *)
wap_proto_new == [f \in Fields |-> 0]

(* wap_proto_set_x for all the fields of a set.                            *)
Set(msg, fs, v) == [f \in Fields |-> IF f \in fs THEN v ELSE msg[f]]

(* wap_proto_get_x for the owned ones among the fields read: the object is *)
(* left without them.                                                      *)
Take(msg, fs) == [f \in Fields |-> IF f \in fs \cap Owned THEN 0 ELSE msg[f]]

-----------------------------------------------------------------------------
(* The kinds of run: numbers of 1, 2, 4 or 8 octets, strings with a length *)
(* of one octet and chunks with a length of four.                          *)
N1(f) == [field |-> f, kind |-> "n1"]
N2(f) == [field |-> f, kind |-> "n2"]
N8(f) == [field |-> f, kind |-> "n8"]
Str(f) == [field |-> f, kind |-> "str"]
Chunk(f) == [field |-> f, kind |-> "chunk"]

Octets(kind, v) == CASE kind = "n1" -> 1 [] kind = "n2" -> 2 [] kind = "n8" -> 8
                     [] kind = "str" -> 1 + v [] kind = "chunk" -> 4 + v

Row(table, id) == IF id \in DOMAIN table THEN table[id] ELSE <<>>

(* What wap_proto_send adds to frame_size.  The protocol name and version  *)
(* of OPEN are constants and are left out here and below.                  *)
frame_size == [
  OPEN |-> <<Str("identity")>>, BLOCKS |-> <<Chunk("block_ids"), N8("start_height")>>,
  BLOCKS_OK |-> <<N8("status"), N8("start_height"), N8("curr_height")>>,
  PUT |-> <<Chunk("tx_as_hex")>>, PUT_OK |-> <<N8("status")>>,
  OUTPUT_INDEXES |-> <<Chunk("tx_id")>>, OUTPUT_INDEXES_OK |-> <<N8("status")>>,
  RANDOM_OUTS |-> <<N8("outs_count")>>, RANDOM_OUTS_OK |-> <<N8("status")>>,
  GET_HEIGHT_OK |-> <<N8("status"), N8("height")>>,
  GET |-> <<Chunk("tx_id")>>, GET_OK |-> <<Chunk("tx_data")>>, SAVE_BC_OK |-> <<N8("status")>>,
  START |-> <<Chunk("address"), N8("thread_count")>>, START_OK |-> <<N8("status")>>,
  GET_INFO_OK |-> <<N8("status"), N8("height"), N8("target_height"), N8("difficulty"), N8("tx_count"),
     N8("tx_pool_size"), N8("alt_blocks_count"), N8("outgoing_connections_count"),
     N8("incoming_connections_count"), N8("white_peerlist_size"), N8("grey_peerlist_size")>>,
  GET_PEER_LIST_OK |-> <<N8("status")>>,
  GET_MINING_STATUS_OK |-> <<N8("status"), N1("active"), N8("speed"), N8("thread_count"), Chunk("address")>>,
  SET_LOG_HASH_RATE |-> <<N1("visible")>>, SET_LOG_HASH_RATE_OK |-> <<N8("status")>>,
  SET_LOG_LEVEL |-> <<N1("level")>>, SET_LOG_LEVEL_OK |-> <<N8("status")>>,
  START_SAVE_GRAPH_OK |-> <<N8("status")>>, STOP_SAVE_GRAPH_OK |-> <<N8("status")>>,
  GET_BLOCK_HASH |-> <<N8("height")>>, GET_BLOCK_HASH_OK |-> <<N8("status"), Chunk("hash")>>,
  GET_BLOCK_TEMPLATE |-> <<N8("reserve_size"), Chunk("address")>>,
  GET_BLOCK_TEMPLATE_OK |-> <<N8("status"), N8("reserved_offset"), N8("height"), N8("difficulty"),
     Chunk("prev_hash"), Chunk("block_template_blob")>>,
  ERROR |-> <<N2("status"), Str("reason")>>]

(* What wap_proto_send puts into the frame: the requests of the wallet and *)
(* their answers, then the messages that came with the daemon's console.   *)
put_wallet == [
  OPEN |-> <<Str("identity")>>, BLOCKS |-> <<Chunk("block_ids"), N8("start_height")>>,
  BLOCKS_OK |-> <<N8("status"), N8("start_height"), N8("curr_height")>>,
  PUT |-> <<Chunk("tx_as_hex")>>, PUT_OK |-> <<N8("status")>>,
  OUTPUT_INDEXES |-> <<Chunk("tx_id")>>, OUTPUT_INDEXES_OK |-> <<N8("status")>>,
  RANDOM_OUTS |-> <<N8("outs_count")>>, RANDOM_OUTS_OK |-> <<N8("status")>>,
  GET_HEIGHT_OK |-> <<N8("status"), N8("height")>>, GET |-> <<Chunk("tx_id")>>,
  GET_OK |-> <<Chunk("tx_data")>>, SAVE_BC_OK |-> <<N8("status")>>,
  START |-> <<Chunk("address"), N8("thread_count")>>, START_OK |-> <<N8("status")>>]

put_daemon == [
  GET_INFO_OK |-> <<N8("status"), N8("height"), N8("target_height"), N8("difficulty"), N8("tx_count"),
     N8("tx_pool_size"), N8("alt_blocks_count"), N8("outgoing_connections_count"),
     N8("incoming_connections_count"), N8("white_peerlist_size"), N8("grey_peerlist_size")>>,
  GET_PEER_LIST_OK |-> <<N8("status")>>,
  GET_MINING_STATUS_OK |-> <<N8("status"), N1("active"), N8("speed"), N8("thread_count"), Chunk("address")>>,
  SET_LOG_HASH_RATE |-> <<N1("visible")>>, SET_LOG_HASH_RATE_OK |-> <<N8("status")>>,
  SET_LOG_LEVEL |-> <<N1("level")>>, SET_LOG_LEVEL_OK |-> <<N8("status")>>,
  START_SAVE_GRAPH_OK |-> <<N8("status")>>, STOP_SAVE_GRAPH_OK |-> <<N8("status")>>,
  GET_BLOCK_HASH |-> <<N8("height")>>, GET_BLOCK_HASH_OK |-> <<N8("status"), Chunk("hash")>>,
  GET_BLOCK_TEMPLATE |-> <<N8("reserve_size"), Chunk("address")>>,
  GET_BLOCK_TEMPLATE_OK |-> <<N8("status"), N8("reserved_offset"), N8("height"), N8("difficulty"),
     Chunk("prev_hash"), Chunk("block_template_blob")>>,
  ERROR |-> <<N2("status"), Str("reason")>>]

(* The frames sent after the data frame, in order; the message announces   *)
(* them while it is filled (nbr_frames) and sends them after.              *)
nbr_frames == [OUTPUT_INDEXES_OK |-> 1, RANDOM_OUTS |-> 1, RANDOM_OUTS_OK |-> 1,
               GET_PEER_LIST_OK |-> 2, BLOCKS_OK |-> 1]

send_frames == [OUTPUT_INDEXES_OK |-> <<"o_indexes">>, RANDOM_OUTS |-> <<"amounts">>,
                RANDOM_OUTS_OK |-> <<"random_outputs">>, BLOCKS_OK |-> <<"block_data">>,
                GET_PEER_LIST_OK |-> <<"white_list", "gray_list">>]

(* What wap_proto_recv takes from the data frame.                          *)
get_wallet == [
  OPEN |-> <<Str("identity")>>, BLOCKS |-> <<Chunk("block_ids"), N8("start_height")>>,
  BLOCKS_OK |-> <<N8("status"), N8("start_height"), N8("curr_height")>>,
  PUT |-> <<Chunk("tx_as_hex")>>, PUT_OK |-> <<N8("status")>>,
  OUTPUT_INDEXES |-> <<Chunk("tx_id")>>, OUTPUT_INDEXES_OK |-> <<N8("status")>>,
  RANDOM_OUTS |-> <<N8("outs_count")>>, RANDOM_OUTS_OK |-> <<N8("status")>>,
  GET_HEIGHT_OK |-> <<N8("status"), N8("height")>>, GET |-> <<Chunk("tx_id")>>,
  GET_OK |-> <<Chunk("tx_data")>>]

get_daemon == [
  SAVE_BC_OK |-> <<N8("status")>>,
  START |-> <<Chunk("address"), N8("thread_count")>>, START_OK |-> <<N8("status")>>,
  GET_INFO_OK |-> <<N8("status"), N8("height"), N8("target_height"), N8("difficulty"), N8("tx_count"),
     N8("tx_pool_size"), N8("alt_blocks_count"), N8("outgoing_connections_count"),
     N8("incoming_connections_count"), N8("white_peerlist_size"), N8("grey_peerlist_size")>>,
  GET_PEER_LIST_OK |-> <<N8("status")>>,
  GET_MINING_STATUS_OK |-> <<N8("status"), N1("active"), N8("speed"), N8("thread_count"), Chunk("address")>>,
  SET_LOG_HASH_RATE |-> <<N1("visible")>>, SET_LOG_HASH_RATE_OK |-> <<N8("status")>>,
  SET_LOG_LEVEL |-> <<N1("level")>>, SET_LOG_LEVEL_OK |-> <<N8("status")>>,
  START_SAVE_GRAPH_OK |-> <<N8("status")>>, STOP_SAVE_GRAPH_OK |-> <<N8("status")>>]

get_template == [
  GET_BLOCK_HASH |-> <<N8("height")>>, GET_BLOCK_HASH_OK |-> <<N8("status"), Chunk("hash")>>,
  GET_BLOCK_TEMPLATE |-> <<N8("reserve_size"), Chunk("address")>>,
  GET_BLOCK_TEMPLATE_OK |-> <<N8("status"), N8("reserved_offset"), N8("height"), N8("difficulty"),
     Chunk("prev_hash"), Chunk("block_template_blob")>>,
  ERROR |-> <<N2("status"), Str("reason")>>]

(* The frames it takes off the socket, and what it does when they are      *)
(* missing: block_data is then an empty message, the others are malformed. *)
recv_frames == [OUTPUT_INDEXES_OK |-> <<"o_indexes">>, RANDOM_OUTS |-> <<"amounts">>,
                RANDOM_OUTS_OK |-> <<"random_outputs">>, BLOCKS_OK |-> <<"block_data">>,
                GET_PEER_LIST_OK |-> <<"white_list", "gray_list">>]

-----------------------------------------------------------------------------
Runs(layout, msg) ==
  [i \in DOMAIN layout |-> [kind |-> layout[i].kind, value |-> msg[layout[i].field],
                            octets |-> Octets(layout[i].kind, msg[layout[i].field])]]

Total(runs) == FoldLeft(LAMBDA n, x : n + x.octets, 0, runs)

(* wap_proto_send of the message object msg with the identifier id.        *)
wap_proto_send(id, msg) ==
  [id     |-> id,
   size   |-> Total(Runs(Row(frame_size, id), msg)),
   runs   |-> Runs(Row(put_wallet, id) \o Row(put_daemon, id), msg),
   more   |-> IF id \in DOMAIN nbr_frames THEN nbr_frames[id] ELSE 0,
   frames |-> [i \in DOMAIN Row(send_frames, id) |-> msg[send_frames[id][i]]]]

(* wap_proto_recv of the wire message w into the object msg.  The runs are *)
(* read in the order of the receiver's own layout; a run of another size   *)
(* than the one written shifts all that follows and counts as malformed.   *)
Layout(id) == Row(get_wallet, id) \o Row(get_daemon, id) \o Row(get_template, id)

Malformed(w) ==
  LET layout == Layout(w.id) IN
    \/ Len(layout) > Len(w.runs)
    \/ \E i \in DOMAIN layout : Octets(layout[i].kind, w.runs[i].value) # w.runs[i].octets
    \/ w.id # "BLOCKS_OK" /\ Len(Row(recv_frames, w.id)) > Len(w.frames)

wap_proto_recv(w, msg) ==
  LET layout == Layout(w.id)
      names  == Row(recv_frames, w.id)
      Read(f) == \E i \in DOMAIN layout : layout[i].field = f
      Got(f) == CHOOSE i \in DOMAIN layout : layout[i].field = f
  IN [f \in Fields |->
        IF Read(f) THEN w.runs[Got(f)].value
        ELSE IF \E i \in DOMAIN names : names[i] = f
        THEN LET i == CHOOSE i \in DOMAIN names : names[i] = f
             IN IF i \in DOMAIN w.frames THEN w.frames[i] ELSE 0
        ELSE msg[f]]

-----------------------------------------------------------------------------
(* The API functions, by the arguments they hand over.                     *)
wallet_calls == [OPEN |-> {"identity"}, BLOCKS |-> {"block_ids", "start_height"}, PUT |-> {"tx_as_hex"}, GET |-> {"tx_id"},
                 SAVE_BC |-> {}, OUTPUT_INDEXES |-> {"tx_id"},
                 RANDOM_OUTS |-> {"outs_count", "amounts"}, GET_HEIGHT |-> {}, GET_INFO |-> {}]

daemon_calls == [START |-> {"address", "thread_count"}, STOP |-> {}, GET_PEER_LIST |-> {},
                 GET_MINING_STATUS |-> {}, SET_LOG_HASH_RATE |-> {"visible"},
                 SET_LOG_LEVEL |-> {"level"}, START_SAVE_GRAPH |-> {}, STOP_SAVE_GRAPH |-> {},
                 GET_BLOCK_HASH |-> {"height"}, GET_BLOCK_TEMPLATE |-> {"reserve_size", "address"}]

Args == wallet_calls @@ daemon_calls

-----------------------------------------------------------------------------
(* The actions of the client engine: the fields prepare_x_command sets in  *)
(* the message, and the fields signal_have_x_ok passes on; told says       *)
(* whether the status is passed on or replaced by a constant 0.            *)
Prepared(fs) == [prepare |-> fs]
Signals(fs) == [signal |-> fs, told |-> TRUE]
SignalsZero(fs) == [signal |-> fs, told |-> FALSE]

set_client_identity == Prepared({"identity"})
signal_success == SignalsZero({})
prepare_blocks_command == Prepared({"block_ids", "start_height"})
signal_have_blocks_ok == Signals({"start_height", "curr_height", "block_data"})

prepare_start_command == Prepared({"address", "thread_count"})
prepare_put_command == Prepared({"tx_as_hex"})
signal_have_put_ok == Signals({})
prepare_get_command == Prepared({"tx_id"})
signal_have_get_ok == SignalsZero({"tx_data"})
signal_have_get_height_ok == SignalsZero({"height"})

signal_have_save_bc_ok == Signals({})
signal_have_start_ok == Signals({})
signal_have_stop_ok == SignalsZero({})
prepare_get_output_indexes_command == Prepared({"tx_id"})
signal_have_output_indexes_ok == Signals({"o_indexes"})
prepare_get_random_outs_command == Prepared({"amounts"})
signal_have_random_outs_ok == Signals({"random_outputs"})
signal_have_get_info_ok ==
  Signals({"height", "target_height", "difficulty", "tx_count", "tx_pool_size", "alt_blocks_count",
           "outgoing_connections_count", "incoming_connections_count", "white_peerlist_size",
           "grey_peerlist_size"})
signal_have_get_peer_list_ok == Signals({"white_list", "gray_list"})
signal_have_get_mining_status_ok == Signals({"active", "speed", "thread_count", "address"})
prepare_set_log_hash_rate_command == Prepared({"visible"})
signal_have_set_log_hash_rate_ok == Signals({})
prepare_set_log_level_command == Prepared({"level"})
signal_have_set_log_level_ok == Signals({})
signal_have_start_save_graph_ok == Signals({})
signal_have_stop_save_graph_ok == Signals({})
prepare_get_block_hash_command == Prepared({"height"})
signal_have_get_block_hash_ok == Signals({"hash"})
prepare_get_block_template_command == Prepared({"reserve_size", "address"})
signal_have_get_block_template_ok ==
  Signals({"reserved_offset", "height", "difficulty", "prev_hash", "block_template_blob"})

(* The start and connected states of the engine: which preparation a       *)
(* command runs before its request is sent.  (OPEN is sent from the start  *)
(* state, the others from the connected one.)                              *)
connected_wallet == [OPEN |-> set_client_identity, BLOCKS |-> prepare_blocks_command, GET |-> prepare_get_command,
                     PUT |-> prepare_put_command, SAVE_BC |-> Prepared({}),
                     START |-> prepare_start_command, STOP |-> Prepared({}),
                     OUTPUT_INDEXES |-> prepare_get_output_indexes_command,
                     RANDOM_OUTS |-> prepare_get_random_outs_command, GET_HEIGHT |-> Prepared({})]

connected_daemon == [GET_INFO |-> Prepared({}), GET_PEER_LIST |-> Prepared({}),
                     GET_MINING_STATUS |-> Prepared({}),
                     SET_LOG_HASH_RATE |-> prepare_set_log_hash_rate_command,
                     SET_LOG_LEVEL |-> prepare_set_log_level_command,
                     START_SAVE_GRAPH |-> Prepared({}), STOP_SAVE_GRAPH |-> Prepared({}),
                     GET_BLOCK_HASH |-> prepare_get_block_hash_command,
                     GET_BLOCK_TEMPLATE |-> prepare_get_block_template_command]

Prepare == connected_wallet @@ connected_daemon

(* The states that wait for a reply: the message waited for and the signal *)
(* it is answered with.                                                    *)
Expects(id, s) == [id |-> id, signal |-> s.signal, told |-> s.told]

expect_blocks_ok_state == Expects("BLOCKS_OK", signal_have_blocks_ok)
expect_get_ok_state == Expects("GET_OK", signal_have_get_ok)
expect_put_ok_state == Expects("PUT_OK", signal_have_put_ok)
expect_save_bc_ok_state == Expects("SAVE_BC_OK", signal_have_save_bc_ok)
expect_start_ok_state == Expects("START_OK", signal_have_start_ok)
expect_stop_ok_state == Expects("STOP_OK", signal_have_stop_ok)
expect_output_indexes_ok_state == Expects("OUTPUT_INDEXES_OK", signal_have_output_indexes_ok)
expect_random_outs_ok_state == Expects("RANDOM_OUTS_OK", signal_have_random_outs_ok)
expect_get_height_ok_state == Expects("GET_HEIGHT_OK", signal_have_get_height_ok)
expect_get_info_ok_state == Expects("GET_INFO_OK", signal_have_get_info_ok)
expect_get_peer_list_ok_state == Expects("GET_PEER_LIST_OK", signal_have_get_peer_list_ok)
expect_get_mining_status_ok_state == Expects("GET_MINING_STATUS_OK", signal_have_get_mining_status_ok)
expect_set_log_hash_rate_ok_state == Expects("SET_LOG_HASH_RATE_OK", signal_have_set_log_hash_rate_ok)
expect_set_log_level_ok_state == Expects("SET_LOG_LEVEL_OK", signal_have_set_log_level_ok)
expect_start_save_graph_ok_state == Expects("START_SAVE_GRAPH_OK", signal_have_start_save_graph_ok)
expect_stop_save_graph_ok_state == Expects("STOP_SAVE_GRAPH_OK", signal_have_stop_save_graph_ok)
expect_get_block_hash_ok_state == Expects("GET_BLOCK_HASH_OK", signal_have_get_block_hash_ok)
expect_get_block_template_ok_state == Expects("GET_BLOCK_TEMPLATE_OK", signal_have_get_block_template_ok)

expect_open_ok_state == Expects("OPEN_OK", signal_success)

Expect == [OPEN |-> expect_open_ok_state, BLOCKS |-> expect_blocks_ok_state, GET |-> expect_get_ok_state, PUT |-> expect_put_ok_state,
           SAVE_BC |-> expect_save_bc_ok_state, START |-> expect_start_ok_state,
           STOP |-> expect_stop_ok_state, OUTPUT_INDEXES |-> expect_output_indexes_ok_state,
           RANDOM_OUTS |-> expect_random_outs_ok_state, GET_HEIGHT |-> expect_get_height_ok_state,
           GET_INFO |-> expect_get_info_ok_state, GET_PEER_LIST |-> expect_get_peer_list_ok_state,
           GET_MINING_STATUS |-> expect_get_mining_status_ok_state,
           SET_LOG_HASH_RATE |-> expect_set_log_hash_rate_ok_state,
           SET_LOG_LEVEL |-> expect_set_log_level_ok_state,
           START_SAVE_GRAPH |-> expect_start_save_graph_ok_state,
           STOP_SAVE_GRAPH |-> expect_stop_save_graph_ok_state,
           GET_BLOCK_HASH |-> expect_get_block_hash_ok_state,
           GET_BLOCK_TEMPLATE |-> expect_get_block_template_ok_state]

-----------------------------------------------------------------------------
STATUS_OK == 0
STATUS_CORE_BUSY == 1
STATUS_WRONG_ADDRESS == 2
STATUS_MINING_NOT_STARTED == 3
STATUS_INTERNAL_ERROR == 5
STATUS_INVALID_TX == 6
STATUS_TX_VERIFICATION_FAILED == 7
STATUS_TX_NOT_RELAYED == 8
STATUS_RANDOM_OUTS_FAILED == 9
STATUS_MINING_NOT_STOPPED == 10
STATUS_NOT_MINING == 11
STATUS_INVALID_LOG_LEVEL == 12
STATUS_ERROR_STORING_BLOCKCHAIN == 13
STATUS_HEIGHT_TOO_BIG == 13
STATUS_RESERVE_SIZE_TOO_BIG == 14
Statuses == 0 .. 14

(* The daemon's handlers.  env says whether the node has caught up with    *)
(* its peers and whether the chain is being stored; a handler has the set  *)
(* of outcomes it may have: the status it sets, the fields it sets, and    *)
(* whether what was asked for was done.                                    *)
Env == [synchronized : BOOLEAN, storing : BOOLEAN]

check_core_busy(env) == ~ env.storing
check_core_ready(env) == ~ env.synchronized /\ check_core_busy(env)

Done(fs) == [status |-> STATUS_OK, sets |-> fs, failed |-> FALSE]
Fails(st) == [status |-> st, sets |-> {}, failed |-> TRUE]
UnlessBusy(free, outcomes) == IF free THEN outcomes ELSE {Fails(STATUS_CORE_BUSY)}

start_mining(env) ==
  UnlessBusy(check_core_busy(env), {Fails(STATUS_WRONG_ADDRESS), Fails(STATUS_MINING_NOT_STARTED), Done({})})

stop_mining(env) == {Fails(STATUS_MINING_NOT_STOPPED), Done({})}

retrieve_blocks(env) ==
  UnlessBusy(check_core_busy(env),
             {Fails(STATUS_INTERNAL_ERROR), Done({"start_height", "curr_height", "block_data"})})

send_raw_transaction(env) ==
  UnlessBusy(check_core_busy(env),
             {Fails(STATUS_INVALID_TX), Fails(STATUS_TX_VERIFICATION_FAILED),
              Fails(STATUS_TX_NOT_RELAYED), Done({})})

get_output_indexes(env) ==
  UnlessBusy(check_core_busy(env), {Fails(STATUS_INTERNAL_ERROR), Done({"o_indexes"})})

(* The failure status is set, the function goes on and ends with the OK    *)
(* status.                                                                 *)
get_random_outs(env) ==
  UnlessBusy(check_core_busy(env),
             {[Done({"random_outputs"}) EXCEPT !.failed = TRUE], Done({"random_outputs"})})

get_height(env) == UnlessBusy(check_core_busy(env), {Done({"height"})})

save_bc(env) == UnlessBusy(check_core_busy(env), {Fails(STATUS_ERROR_STORING_BLOCKCHAIN), Done({})})

\* Variant: the height is not set.
get_info_headless(env) ==
  UnlessBusy(check_core_busy(env), {Done(signal_have_get_info_ok.signal \ {"height"})})

get_info(env) ==
  UnlessBusy(check_core_busy(env),
             {Done({"height", "target_height", "difficulty", "tx_count", "tx_pool_size",
                    "alt_blocks_count", "outgoing_connections_count", "incoming_connections_count",
                    "white_peerlist_size", "grey_peerlist_size"})})

get_peer_list(env) == {Done({"white_list", "gray_list"})}

(* A miner that is idle leaves speed, thread_count and address alone.      *)
get_mining_status(env) ==
  UnlessBusy(check_core_ready(env), {Done({"active"}), Done({"active", "speed", "thread_count", "address"})})

set_log_hash_rate(env) == {Fails(STATUS_NOT_MINING), Done({})}
set_log_level(env) == {Fails(STATUS_INVALID_LOG_LEVEL), Done({})}
start_save_graph(env) == {Done({})}
stop_save_graph(env) == {Done({})}

get_block_hash(env) == UnlessBusy(check_core_busy(env), {Fails(STATUS_HEIGHT_TOO_BIG), Done({"hash"})})

get_block_template(env) ==
  UnlessBusy(check_core_ready(env),
             {Fails(STATUS_RESERVE_SIZE_TOO_BIG), Fails(STATUS_WRONG_ADDRESS), Fails(STATUS_INTERNAL_ERROR),
              Done({"height", "difficulty", "reserved_offset", "prev_hash", "block_template_blob"})})

(* The actions of the server that do nothing leave the status as well.     *)
register_wallet(env) == {[status |-> server["status"], sets |-> {}, failed |-> FALSE]}
retrieve_transaction(env) == {[status |-> server["status"], sets |-> {}, failed |-> FALSE]}

(* The connected state of the server, in two halves: the handler of every  *)
(* request.  (OPEN is handled in the start state.)                         *)
serves_wallet(x, env) ==
  CASE x = "BLOCKS" -> retrieve_blocks(env) [] x = "PUT" -> send_raw_transaction(env)
    [] x = "GET" -> retrieve_transaction(env) [] x = "SAVE_BC" -> save_bc(env)
    [] x = "START" -> start_mining(env) [] x = "STOP" -> stop_mining(env)
    [] x = "OUTPUT_INDEXES" -> get_output_indexes(env) [] x = "RANDOM_OUTS" -> get_random_outs(env)
    [] x = "OPEN" -> register_wallet(env)

serves_daemon(x, env) ==
  CASE x = "GET_HEIGHT" -> get_height(env) [] x = "GET_INFO" -> get_info(env)
    [] x = "GET_PEER_LIST" -> get_peer_list(env) [] x = "GET_MINING_STATUS" -> get_mining_status(env)
    [] x = "SET_LOG_HASH_RATE" -> set_log_hash_rate(env) [] x = "SET_LOG_LEVEL" -> set_log_level(env)
    [] x = "START_SAVE_GRAPH" -> start_save_graph(env) [] x = "STOP_SAVE_GRAPH" -> stop_save_graph(env)
    [] x = "GET_BLOCK_HASH" -> get_block_hash(env) [] x = "GET_BLOCK_TEMPLATE" -> get_block_template(env)

Handle(x, env) ==
  IF x \in {"OPEN", "BLOCKS", "PUT", "GET", "SAVE_BC", "START", "STOP", "OUTPUT_INDEXES", "RANDOM_OUTS"}
  THEN serves_wallet(x, env) ELSE serves_daemon(x, env)

-----------------------------------------------------------------------------
(* The callers, by command: the statuses they report as an error, and for  *)
(* every property they report, the one they read for it.                   *)
Reads(fs) == [f \in fs |-> f]
AllBut(ok) == Statuses \ {ok}
Caller(errors, reads) == {[errors |-> errors, reads |-> reads]}

(* getheight, startmining and stopmining of the JSON bridge.               *)
bridge_mining == [
  GET_HEIGHT |-> Caller({STATUS_CORE_BUSY}, Reads({"height"})),
  START |-> Caller({STATUS_CORE_BUSY, STATUS_WRONG_ADDRESS, STATUS_MINING_NOT_STARTED}, Reads({})),
  STOP |-> Caller(AllBut(STATUS_OK), Reads({}))]

(* getinfo, getpeerlist and getminingstatus.                               *)
bridge_info == [
  GET_INFO |-> Caller(AllBut(STATUS_OK),
    Reads({"height", "target_height", "difficulty", "tx_count", "tx_pool_size", "alt_blocks_count",
           "outgoing_connections_count", "incoming_connections_count", "white_peerlist_size",
           "grey_peerlist_size"})),
  GET_PEER_LIST |-> Caller({}, Reads({"white_list", "gray_list"})),
  GET_MINING_STATUS |-> Caller({STATUS_CORE_BUSY}, Reads({"speed", "active", "thread_count", "address"}))]

(* setloghashrate and setloglevel.                                         *)
bridge_log == [
  SET_LOG_HASH_RATE |-> Caller({STATUS_CORE_BUSY, STATUS_NOT_MINING}, Reads({})),
  SET_LOG_LEVEL |-> Caller({STATUS_CORE_BUSY, STATUS_INVALID_LOG_LEVEL}, Reads({}))]

(* getblockcount, startsavegraph, stopsavegraph and getblockhash.          *)
bridge_graph == [
  START_SAVE_GRAPH |-> Caller({}, Reads({})), STOP_SAVE_GRAPH |-> Caller({}, Reads({})),
  GET_BLOCK_HASH |-> Caller({STATUS_CORE_BUSY, STATUS_HEIGHT_TOO_BIG}, Reads({"hash"}))]

(* getblocktemplate: the block template is read from the previous hash.    *)
bridge_template == [
  GET_BLOCK_TEMPLATE |->
    Caller({STATUS_CORE_BUSY, STATUS_RESERVE_SIZE_TOO_BIG, STATUS_WRONG_ADDRESS},
           Reads({"difficulty", "height", "reserved_offset", "prev_hash"})
             @@ [block_template_blob |-> "prev_hash"])]

(* getblocks.                                                              *)
bridge_blocks == [
  BLOCKS |-> Caller({STATUS_CORE_BUSY, STATUS_INTERNAL_ERROR},
                    Reads({"block_data", "start_height", "curr_height"}))]

(* The wallet: pull_blocks, process_new_transaction, transfer, commit_tx   *)
(* and the calls its console makes, which pass the status on.              *)
pull_blocks == Caller(AllBut(STATUS_OK), Reads({"block_data", "start_height"}))
process_new_transaction == Caller(AllBut(STATUS_OK), Reads({"o_indexes"}))
transfer == Caller(AllBut(STATUS_OK), Reads({"random_outputs"}))
commit_tx == Caller({STATUS_CORE_BUSY, STATUS_INVALID_TX, STATUS_TX_VERIFICATION_FAILED,
                     STATUS_TX_NOT_RELAYED}, Reads({}))
wallet_mining == [START |-> Caller(AllBut(STATUS_OK), Reads({})), STOP |-> Caller(AllBut(STATUS_OK), Reads({})),
                  GET_HEIGHT |-> Caller(AllBut(STATUS_OK), Reads({"height"})),
                  SAVE_BC |-> Caller(AllBut(STATUS_OK), Reads({}))]
connect_to_daemon == Caller({}, Reads({}))

wallet == [OPEN |-> connect_to_daemon, BLOCKS |-> pull_blocks, OUTPUT_INDEXES |-> process_new_transaction,
           RANDOM_OUTS |-> transfer, PUT |-> commit_tx] @@ wallet_mining
bridge == bridge_mining @@ bridge_info @@ bridge_log @@ bridge_graph @@ bridge_template @@ bridge_blocks

Callers(x) == (IF x \in DOMAIN wallet THEN wallet[x] ELSE {})
              \cup (IF x \in DOMAIN bridge THEN bridge[x] ELSE {})

-----------------------------------------------------------------------------
Idle == [call |-> 0]

MsgInit ==
  /\ calls = 0
  /\ pending = [c \in Clients |-> Idle]
  /\ message = [c \in Clients |-> wap_proto_new]
  /\ server = wap_proto_new
  /\ api = [c \in Clients |-> wap_proto_new]
  /\ wire = [c \in Clients |-> None]
  /\ handled = None
  /\ answer = [c \in Clients |-> None]

(* A caller's API function: the arguments go to the engine (their values   *)
(* are those of this call), which prepares its message object and sends    *)
(* the request; the thread waits.                                          *)
call(c, x, caller) ==
  /\ pending[c] = Idle
  /\ calls < MaxCalls
  /\ LET n == calls + 1
         msg == Set(message[c], Prepare[x].prepare \cap Args[x], n)
     IN /\ calls' = n
        /\ pending' = [pending EXCEPT ![c] = [call |-> n, command |-> x, caller |-> caller]]
        /\ message' = [message EXCEPT ![c] = msg]
        /\ wire' = [wire EXCEPT ![c] = [to |-> "server", data |-> wap_proto_send(x, msg), failed |-> FALSE]]
  /\ UNCHANGED <<server, api, handled, answer>>

(* s_server_handle_protocol: the request is read into the server's message *)
(* object, the handler works on it, and the reply is sent from it, all in  *)
(* one event of the server's loop.                                         *)
s_server_handle_protocol(c, env) ==
  /\ wire[c] # None
  /\ wire[c].to = "server"
  /\ LET x == wire[c].data.id
         n == pending[c].call
         msg == wap_proto_recv(wire[c].data, server)
     IN \E o \in Handle(x, env) :
          LET done == [Set(msg, o.sets, n) EXCEPT !["status"] = o.status]
          IN /\ server' = done
             /\ handled' = [call |-> n, command |-> x, saw |-> [f \in Args[x] |-> msg[f]],
                            env |-> env, status |-> o.status]
             /\ wire' = [wire EXCEPT ![c] = [to |-> "client", failed |-> o.failed,
                                             data |-> wap_proto_send(Expect[x].id, done)]]
  /\ UNCHANGED <<calls, pending, message, api, answer>>

(* The engine reads the reply into its object and signals it to the API;   *)
(* s_accept_reply loads the properties, the caller looks at the status and *)
(* reports either an error or the properties it reads.                     *)
accept(c) ==
  /\ wire[c] # None
  /\ wire[c].to = "client"
  /\ LET e == Expect[pending[c].command]
         msg == wap_proto_recv(wire[c].data, message[c])
         props == [f \in Fields |-> IF f \in e.signal THEN msg[f]
                                    ELSE IF f = "status" THEN IF e.told THEN msg[f] ELSE 0
                                    ELSE api[c][f]]
         caller == pending[c].caller
         ok == props["status"] \notin caller.errors
     IN /\ message' = [message EXCEPT ![c] = Take(msg, e.signal)]
        /\ api' = [api EXCEPT ![c] = props]
        /\ answer' = [answer EXCEPT ![c] =
             [call |-> pending[c].call, ok |-> ok, failed |-> wire[c].failed,
              reports |-> [f \in DOMAIN caller.reads |->
                             [read |-> caller.reads[f], value |-> props[caller.reads[f]]]]]]
  /\ pending' = [pending EXCEPT ![c] = Idle]
  /\ wire' = [wire EXCEPT ![c] = None]
  /\ UNCHANGED <<calls, server, handled>>

MsgNext ==
  \E c \in Clients :
    \/ \E x \in Commands : \E caller \in Callers(x) : call(c, x, caller)
    \/ \E env \in Env : s_server_handle_protocol(c, env)
    \/ accept(c)

-----------------------------------------------------------------------------
(* The three layouts of a message agree: the frame is exactly as large as  *)
(* what is put into it, as many frames follow as are announced (a missing  *)
(* one would leave the message open for ever), and the receiver does not   *)
(* find it malformed, which would end its loop.                            *)
WellFormed ==
  \A c \in Clients : wire[c] # None =>
    LET w == wire[c].data IN
      w.size = Total(w.runs) /\ w.more = Len(w.frames) /\ ~ Malformed(w)

(* The handler of a request sees the arguments of the call that made it:   *)
(* none is dropped on the way from the API to the server, where the value  *)
(* of an earlier request would be seen in its place.                       *)
OwnArguments ==
  handled # None => \A f \in DOMAIN handled.saw : handled.saw[f] = handled.call

(* A caller that reports success reports what the daemon computed for this *)
(* very call, of the property it names, and never what the shared message  *)
(* objects keep from another request or another client.                    *)
OwnResults ==
  \A c \in Clients : answer[c] # None /\ answer[c].ok =>
    \A f \in DOMAIN answer[c].reports :
      answer[c].reports[f] = [read |-> f, value |-> answer[c].call]

(* What the daemon could not do is reported to the caller's user as an     *)
(* error.                                                                  *)
FailureReported ==
  \A c \in Clients : answer[c] # None /\ answer[c].failed => ~ answer[c].ok

-----------------------------------------------------------------------------
(* Instances of the wallet access protocol: sessions, timers and restarts      *)
(* (Wap) and what its messages carry (WapMessages).  A behaviour is one of     *)
(* the parts, which part names; the variables of the others stay as they are.  *)
(*                                                                             *)
(*   wap       two clients of a wallet and a daemon that stops twice, timers   *)
(*             firing at any moment                                            *)
(*   steady    a daemon that runs and answers in time                          *)
(*   restart   a daemon that stops once and answers in time when it runs       *)
(*   messages  two calls, of one client or of two, of every command of which   *)
(*             the results or errors differ                                    *)
VARIABLES
    part,
    pc, commands, clients, opened, cmd, replies, eng, to_server, to_client, running, rec, stops

wapVars == <<pc, commands, clients, opened, cmd, replies, eng, to_server, to_client, running, rec, stops>>
vars == <<part, wapVars, msgVars>>

Parts == {"wap", "steady", "restart", "messages"}

Stopping == INSTANCE Wap WITH calls <- commands, Methods <- {"blocks", "put"}, MaxCalls <- 2,
                              MaxClients <- 2, MaxStops <- 2, MaxQueue <- 2, Prompt <- FALSE
Steady   == INSTANCE Wap WITH calls <- commands, Methods <- {"blocks", "put"}, MaxCalls <- 4,
                              MaxClients <- 2, MaxStops <- 0, MaxQueue <- 2, Prompt <- TRUE
Restart  == INSTANCE Wap WITH calls <- commands, Methods <- {"blocks", "put"}, MaxCalls <- 2,
                              MaxClients <- 1, MaxStops <- 1, MaxQueue <- 2, Prompt <- TRUE

Init ==
    /\ part \in Parts
    /\ IF part \in {"wap", "restart"} THEN Stopping!Init ELSE Steady!Init
    /\ MsgInit

StoppingPart == part = "wap" /\ UNCHANGED <<part, msgVars>>
SteadyPart   == part = "steady" /\ UNCHANGED <<part, msgVars>>
RestartPart  == part = "restart" /\ UNCHANGED <<part, msgVars>>
MessagesPart == part = "messages" /\ UNCHANGED <<part, wapVars>>

Next ==
    \/ StoppingPart /\ Stopping!Next
    \/ SteadyPart /\ Steady!Next
    \/ RestartPart /\ Restart!Next
    \/ MessagesPart /\ MsgNext

----------------------------------------------------------------------------
(* Fairness.  Both loops run, timers fire, and the API thread reads what it    *)
(* waits for; when the wallet issues commands and when the daemon stops or     *)
(* starts is not promised.                                                     *)
Loop(i) ==
    \/ StoppingPart /\ \/ i = 1 /\ Stopping!s_accept_reply
                       \/ i = 2 /\ Stopping!cmdpipe
                       \/ i = 3 /\ Stopping!protocol
                       \/ i = 4 /\ Stopping!timeout
                       \/ i = 5 /\ Stopping!serve
    \/ SteadyPart /\ \/ i = 1 /\ Steady!s_accept_reply
                     \/ i = 2 /\ Steady!cmdpipe
                     \/ i = 3 /\ Steady!protocol
                     \/ i = 4 /\ Steady!timeout
                     \/ i = 5 /\ Steady!serve
    \/ RestartPart /\ \/ i = 1 /\ Restart!s_accept_reply
                      \/ i = 2 /\ Restart!cmdpipe
                      \/ i = 3 /\ Restart!protocol
                      \/ i = 4 /\ Restart!timeout
                      \/ i = 5 /\ Restart!serve

Spec == Init /\ [][Next]_vars /\ \A i \in 1..5 : WF_vars(Loop(i))

----------------------------------------------------------------------------
(* What the client engine reports is true of the session, whatever the daemon  *)
(* does and whenever the timers fire: no event meets a state that has only an  *)
(* assertion for it (wap_client_engine.inc:704), a client that counts itself   *)
(* connected is watched by its timer, and a command is never answered with a   *)
(* late answer to an earlier one.                                              *)
SessionSound ==
    part # "messages" =>
        Stopping!NoUnhandledEvent /\ Stopping!Monitored /\ Stopping!OwnAnswer

(* Through message objects that the server shares between its clients and a    *)
(* client between its commands, a handler sees the arguments of the call it    *)
(* serves, a caller that reports success reports the results of its own call,  *)
(* and what the daemon could not do is reported as an error; sizing, writing   *)
(* and reading a message agree on its layout (wap_proto.c).                    *)
MessagesExact ==
    part = "messages" =>
        /\ WellFormed
        /\ OwnArguments
        /\ OwnResults
        /\ FailureReported

(* Calls return from a daemon that answers (s_accept_reply, wap_client_destroy *)
(* included); the death of a daemon is noticed by an idle client               *)
(* (check_if_connection_is_dead); and a client that was connected once counts  *)
(* itself connected again when the daemon is back for good, since the          *)
(* heartbeats it sent meanwhile reach the new server, which makes it open its  *)
(* session again.                                                              *)
ClientRecovers ==
    /\ []<>~(part = "steady" /\ Steady!Waiting)
    /\ <>[](part = "wap" /\ ~running) => <>[]~Stopping!CountsConnected
    /\ <>[](part = "restart" /\ running) => []<>(~opened \/ eng.connected \/ pc = "gone")
=============================================================================

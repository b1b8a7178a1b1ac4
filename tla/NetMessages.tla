------------------------------ MODULE NetMessages ------------------------------
(***************************************************************************)
(* The tables of the messages between the clients and the authentication,  *)
(* game and gate keeper servers, and the use that requests and handlers    *)
(* make of the fields (net/auth, net/game, net/gate).                      *)
(*                                                                         *)
(* The sizes of numbers and blocks are left out: sendMsg and recvMsg take  *)
(* them from the same entry of the table.                                  *)
(***************************************************************************)
EXTENDS TLC

\* The types of fields: kFieldInteger; kFieldData and the other fixed arrays;
\* kFieldString; kFieldVarCount; kFieldVarPtr.
I == "integer"
B == "block"
S == "string"
C == "count"
V == "var"

\* Their uses.
N == "number"
T == "text"
D == "data"
U == "unused"

\* What a field of a type can be used as: the members of a msgparm_t that
\* NCAllocMessage and recvMsg have set.
MessageUsedAs ==
  [ integer |-> {N, U}, count |-> {N, U}, block |-> {D, U},
    string |-> {T, U}, var |-> {T, D, U} ]

-----------------------------------------------------------------------------
\* Client to authentication server.
AccountRequestFields ==
  [ Cli2Auth_PingRequest |-> <<I, I, C, V>>,
    Cli2Auth_ClientRegisterRequest |-> <<I>>,
    Cli2Auth_ClientSetCCRLevel |-> <<I>>,
    Cli2Auth_AcctLoginRequest |-> <<I, I, S, B, S, S>>,
    Cli2Auth_AcctSetPlayerRequest |-> <<I, I>>,
    Cli2Auth_AcctCreateRequest |-> <<I, S, B, I, I>>,
    Cli2Auth_AcctChangePasswordRequest |-> <<I, S, B>>,
    Cli2Auth_AcctSetRolesRequest |-> <<I, S, I>>,
    Cli2Auth_AcctSetBillingTypeRequest |-> <<I, S, I>>,
    Cli2Auth_AcctActivateRequest |-> <<I, B>>,
    Cli2Auth_AcctCreateFromKeyRequest |-> <<I, S, B, B, I>>,
    Cli2Auth_PlayerDeleteRequest |-> <<I, I>>,
    Cli2Auth_PlayerCreateRequest |-> <<I, S, S, S>>,
    Cli2Auth_UpgradeVisitorRequest |-> <<I, I>>,
    Cli2Auth_SetPlayerBanStatusRequest |-> <<I, I, I>>,
    Cli2Auth_KickPlayer |-> <<I>>,
    Cli2Auth_ChangePlayerNameRequest |-> <<I, I, S>>,
    Cli2Auth_SendFriendInviteRequest |-> <<I, B, S, S>>,
    Cli2Auth_VaultNodeCreate |-> <<I, C, V>>,
    Cli2Auth_VaultNodeFetch |-> <<I, I>>,
    Cli2Auth_VaultNodeSave |-> <<I, I, B, C, V>> ]

VaultRequestFields ==
  [ Cli2Auth_VaultNodeAdd |-> <<I, I, I, I>>,
    Cli2Auth_VaultNodeRemove |-> <<I, I, I>>,
    Cli2Auth_VaultFetchNodeRefs |-> <<I, I>>,
    Cli2Auth_VaultInitAgeRequest |-> <<I, B, B, S, S, S, S, I, I>>,
    Cli2Auth_VaultNodeFind |-> <<I, C, V>>,
    Cli2Auth_VaultSetSeen |-> <<I, I, I>>, Cli2Auth_VaultSendNode |-> <<I, I>>,
    Cli2Auth_AgeRequest |-> <<I, S, B>>,
    Cli2Auth_FileListRequest |-> <<I, S, S>>,
    Cli2Auth_FileDownloadRequest |-> <<I, S>>,
    Cli2Auth_FileDownloadChunkAck |-> <<I>>,
    Cli2Auth_PropagateBuffer |-> <<I, C, V>>,
    Cli2Auth_GetPublicAgeList |-> <<I, S>>, Cli2Auth_SetAgePublic |-> <<I, I>>,
    Cli2Auth_LogPythonTraceback |-> <<S>>, Cli2Auth_LogStackDump |-> <<S>>,
    Cli2Auth_LogClientDebuggerConnect |-> <<I>>,
    Cli2Auth_ScoreCreate |-> <<I, I, S, I, I>>,
    Cli2Auth_ScoreDelete |-> <<I, I>>, Cli2Auth_ScoreGetScores |-> <<I, I, S>>,
    Cli2Auth_ScoreAddPoints |-> <<I, I, I>>,
    Cli2Auth_ScoreTransferPoints |-> <<I, I, I, I>> ]

LaterRequestFields ==
  [ Cli2Auth_ScoreSetPoints |-> <<I, I, I>>,
    Cli2Auth_ScoreGetRanks |-> <<I, I, I, I, S, I, I, I, I>>,
    Cli2Auth_AcctExistsRequest |-> <<I, S>>,
    Cli2Auth_AgeRequestEx |-> <<I, S, B>>,
    Cli2Auth_ScoreGetHighScores |-> <<I, I, I, S>> ]

\* Authentication server to client.
AccountReplyFields ==
  [ Auth2Cli_PingReply |-> <<I, I, C, V>>, Auth2Cli_ServerAddr |-> <<I, B>>,
    Auth2Cli_NotifyNewBuild |-> <<I>>, Auth2Cli_ClientRegisterReply |-> <<I>>,
    Auth2Cli_AcctLoginReply |-> <<I, I, B, I, I, B>>,
    Auth2Cli_AcctPlayerInfo |-> <<I, I, S, S, I>>,
    Auth2Cli_AcctSetPlayerReply |-> <<I, I>>,
    Auth2Cli_AcctCreateReply |-> <<I, I, B>>,
    Auth2Cli_AcctChangePasswordReply |-> <<I, I>>,
    Auth2Cli_AcctSetRolesReply |-> <<I, I>>,
    Auth2Cli_AcctSetBillingTypeReply |-> <<I, I>>,
    Auth2Cli_AcctActivateReply |-> <<I, I>>,
    Auth2Cli_AcctCreateFromKeyReply |-> <<I, I, B, B>>,
    Auth2Cli_PlayerCreateReply |-> <<I, I, I, I, S, S>>,
    Auth2Cli_PlayerDeleteReply |-> <<I, I>>,
    Auth2Cli_UpgradeVisitorReply |-> <<I, I>>,
    Auth2Cli_SetPlayerBanStatusReply |-> <<I, I>>,
    Auth2Cli_ChangePlayerNameReply |-> <<I, I>>,
    Auth2Cli_SendFriendInviteReply |-> <<I, I>>,
    Auth2Cli_VaultNodeCreated |-> <<I, I, I>>,
    Auth2Cli_VaultNodeFetched |-> <<I, I, C, V>>,
    Auth2Cli_VaultNodeChanged |-> <<I, B>> ]

VaultReplyFields ==
  [ Auth2Cli_VaultNodeDeleted |-> <<I>>,
    Auth2Cli_VaultNodeAdded |-> <<I, I, I>>,
    Auth2Cli_VaultNodeRemoved |-> <<I, I>>,
    Auth2Cli_VaultNodeRefsFetched |-> <<I, I, C, V>>,
    Auth2Cli_VaultInitAgeReply |-> <<I, I, I, I>>,
    Auth2Cli_VaultNodeFindReply |-> <<I, I, C, V>>,
    Auth2Cli_VaultSaveNodeReply |-> <<I, I>>,
    Auth2Cli_VaultAddNodeReply |-> <<I, I>>,
    Auth2Cli_VaultRemoveNodeReply |-> <<I, I>>,
    Auth2Cli_AgeReply |-> <<I, I, I, B, I, I>>,
    Auth2Cli_FileListReply |-> <<I, I, C, V>>,
    Auth2Cli_FileDownloadChunk |-> <<I, I, I, I, C, V>>,
    Auth2Cli_PropagateBuffer |-> <<I, C, V>>, Auth2Cli_KickedOff |-> <<I>>,
    Auth2Cli_PublicAgeList |-> <<I, I, C, V>>,
    Auth2Cli_ScoreCreateReply |-> <<I, I, I, I>>,
    Auth2Cli_ScoreDeleteReply |-> <<I, I>>,
    Auth2Cli_ScoreGetScoresReply |-> <<I, I, I, C, V>>,
    Auth2Cli_ScoreAddPointsReply |-> <<I, I>>,
    Auth2Cli_ScoreTransferPointsReply |-> <<I, I>>,
    Auth2Cli_ScoreSetPointsReply |-> <<I, I>> ]

LaterReplyFields ==
  [ Auth2Cli_ScoreGetRanksReply |-> <<I, I, I, C, V>>,
    Auth2Cli_AcctExistsReply |-> <<I, I, I>>,
    Auth2Cli_AgeReplyEx |-> <<I, I, I, B, I, S>>,
    Auth2Cli_ScoreGetHighScoresReply |-> <<I, I, I, C, V>>,
    Auth2Cli_ServerCaps |-> <<C, V>> ]

\* Game server, both directions.
GameFields ==
  [ Cli2Game_PingRequest |-> <<I>>, Cli2Game_JoinAgeRequest |-> <<I, I, B, I>>,
    Cli2Game_PropagateBuffer |-> <<I, C, V>>, Cli2Game_GameMgrMsg |-> <<C, V>>,
    Game2Cli_PingReply |-> <<I>>, Game2Cli_JoinAgeReply |-> <<I, I>>,
    Game2Cli_PropagateBuffer |-> <<I, C, V>>,
    Game2Cli_GameMgrMsg |-> <<C, V>> ]

\* Gate keeper, both directions.
GateKeeperFields ==
  [ Cli2GateKeeper_PingRequest |-> <<I, I, C, V>>,
    Cli2GateKeeper_FileSrvIpAddressRequest |-> <<I, I>>,
    Cli2GateKeeper_AuthSrvIpAddressRequest |-> <<I>>,
    GateKeeper2Cli_PingReply |-> <<I, I, C, V>>,
    GateKeeper2Cli_FileSrvIpAddressReply |-> <<I, S>>,
    GateKeeper2Cli_AuthSrvIpAddressReply |-> <<I, S>> ]

-----------------------------------------------------------------------------
(* As what a request fills the fields of its message, and the handler of a    *)
(* message takes them: a number (fUint), text (fString), data (fData); some   *)
(* are not used.                                                              *)

\* pnAuthClient, requests.
AccountRequests ==
  [ Cli2Auth_PingRequest |-> <<N, N, N, D>>,
    Cli2Auth_ClientRegisterRequest |-> <<N>>,
    Cli2Auth_ClientSetCCRLevel |-> <<N>>,
    Cli2Auth_AcctExistsRequest |-> <<N, T>>,
    Cli2Auth_AcctLoginRequest |-> <<N, N, T, D, T, T>>,
    Cli2Auth_AcctSetPlayerRequest |-> <<N, N>>,
    Cli2Auth_AcctCreateRequest |-> <<N, T, D, N, N>>,
    Cli2Auth_AcctChangePasswordRequest |-> <<N, T, D>>,
    Cli2Auth_AcctSetRolesRequest |-> <<N, T, N>>,
    Cli2Auth_AcctSetBillingTypeRequest |-> <<N, T, N>> ]

PlayerRequests ==
  [ Cli2Auth_AcctActivateRequest |-> <<N, D>>,
    Cli2Auth_AcctCreateFromKeyRequest |-> <<N, T, D, D, N>>,
    Cli2Auth_PlayerDeleteRequest |-> <<N, N>>,
    Cli2Auth_PlayerCreateRequest |-> <<N, T, T, T>>,
    Cli2Auth_UpgradeVisitorRequest |-> <<N, N>>,
    Cli2Auth_SetPlayerBanStatusRequest |-> <<N, N, N>>,
    Cli2Auth_KickPlayer |-> <<N>>,
    Cli2Auth_ChangePlayerNameRequest |-> <<N, N, T>>,
    Cli2Auth_SendFriendInviteRequest |-> <<N, D, T, T>>,
    Cli2Auth_VaultNodeCreate |-> <<N, N, D>>,
    Cli2Auth_VaultNodeFetch |-> <<N, N>> ]

VaultRequests ==
  [ Cli2Auth_VaultNodeSave |-> <<N, N, D, N, D>>,
    Cli2Auth_VaultNodeAdd |-> <<N, N, N, N>>,
    Cli2Auth_VaultNodeRemove |-> <<N, N, N>>,
    Cli2Auth_VaultFetchNodeRefs |-> <<N, N>>,
    Cli2Auth_VaultInitAgeRequest |-> <<N, D, D, T, T, T, T, N, N>>,
    Cli2Auth_VaultNodeFind |-> <<N, N, D>>,
    Cli2Auth_VaultSetSeen |-> <<N, N, N>>, Cli2Auth_VaultSendNode |-> <<N, N>>,
    Cli2Auth_AgeRequest |-> <<N, T, D>>,
    Cli2Auth_AgeRequestEx |-> <<N, T, D>> ]

FileAndScoreRequests ==
  [ Cli2Auth_FileListRequest |-> <<N, T, T>>,
    Cli2Auth_FileDownloadRequest |-> <<N, T>>,
    Cli2Auth_FileDownloadChunkAck |-> <<N>>,
    Cli2Auth_GetPublicAgeList |-> <<N, T>>, Cli2Auth_SetAgePublic |-> <<N, N>>,
    Cli2Auth_LogPythonTraceback |-> <<T>>, Cli2Auth_LogStackDump |-> <<T>>,
    Cli2Auth_LogClientDebuggerConnect |-> <<N>>,
    Cli2Auth_ScoreCreate |-> <<N, N, T, N, N>>,
    Cli2Auth_ScoreDelete |-> <<N, N>>, Cli2Auth_ScoreGetScores |-> <<N, N, T>>,
    Cli2Auth_ScoreAddPoints |-> <<N, N, N>>,
    Cli2Auth_ScoreTransferPoints |-> <<N, N, N, N>> ]

LaterRequests ==
  [ Cli2Auth_ScoreSetPoints |-> <<N, N, N>>,
    Cli2Auth_ScoreGetRanks |-> <<N, N, N, N, T, N, N, N, N>>,
    Cli2Auth_PropagateBuffer |-> <<N, N, D>>,
    Cli2Auth_ScoreGetHighScores |-> <<N, N, N, T>> ]

\* pnAuthClient, handlers.
AccountAndVaultHandlers ==
  [ Auth2Cli_PingReply |-> <<N, N, N, U>>, Auth2Cli_ServerAddr |-> <<N, D>>,
    Auth2Cli_NotifyNewBuild |-> <<N>>, Auth2Cli_ClientRegisterReply |-> <<N>>,
    Auth2Cli_AcctExistsReply |-> <<N, N, N>>,
    Auth2Cli_AcctLoginReply |-> <<N, N, D, N, N, D>>,
    Auth2Cli_AcctPlayerInfo |-> <<N, N, T, T, N>>,
    Auth2Cli_AcctSetPlayerReply |-> <<N, N>>,
    Auth2Cli_AcctCreateReply |-> <<N, N, D>>,
    Auth2Cli_AcctChangePasswordReply |-> <<N, N>>,
    Auth2Cli_AcctSetRolesReply |-> <<N, N>>,
    Auth2Cli_AcctSetBillingTypeReply |-> <<N, N>>,
    Auth2Cli_AcctActivateReply |-> <<N, N>>,
    Auth2Cli_AcctCreateFromKeyReply |-> <<N, N, D, D>>,
    Auth2Cli_PlayerCreateReply |-> <<N, N, N, N, T, T>>,
    Auth2Cli_PlayerDeleteReply |-> <<N, N>>,
    Auth2Cli_UpgradeVisitorReply |-> <<N, N>>,
    Auth2Cli_SetPlayerBanStatusReply |-> <<N, N>>,
    Auth2Cli_ChangePlayerNameReply |-> <<N, N>>,
    Auth2Cli_SendFriendInviteReply |-> <<N, N>>,
    Auth2Cli_VaultNodeCreated |-> <<N, N, N>>,
    Auth2Cli_VaultNodeFetched |-> <<N, N, N, D>>,
    Auth2Cli_VaultNodeChanged |-> <<N, D>>,
    Auth2Cli_VaultNodeDeleted |-> <<N>>,
    Auth2Cli_VaultNodeAdded |-> <<N, N, N>>,
    Auth2Cli_VaultNodeRemoved |-> <<N, N>>,
    Auth2Cli_VaultNodeRefsFetched |-> <<N, N, N, D>>,
    Auth2Cli_VaultInitAgeReply |-> <<N, N, N, N>>,
    Auth2Cli_VaultNodeFindReply |-> <<N, N, N, D>>,
    Auth2Cli_VaultSaveNodeReply |-> <<N, N>>,
    Auth2Cli_VaultAddNodeReply |-> <<N, N>>,
    Auth2Cli_VaultRemoveNodeReply |-> <<N, N>>,
    Auth2Cli_AgeReply |-> <<N, N, N, D, N, N>>,
    Auth2Cli_AgeReplyEx |-> <<N, N, N, D, N, T>>,
    Auth2Cli_FileListReply |-> <<N, N, N, T>> ]

\* Mutant: the array of the scores is taken from the field of their number.
ScoreHandlersShifted == [Auth2Cli_ScoreGetScoresReply |-> <<N, N, N, D, U>>]

FileAndScoreHandlers ==
  [ Auth2Cli_FileDownloadChunk |-> <<N, N, N, N, N, D>>,
    Auth2Cli_KickedOff |-> <<N>>, Auth2Cli_PublicAgeList |-> <<N, N, N, D>>,
    Auth2Cli_ScoreCreateReply |-> <<N, N, N, N>>,
    Auth2Cli_ScoreDeleteReply |-> <<N, N>>,
    Auth2Cli_ScoreGetScoresReply |-> <<N, N, N, U, D>>,
    Auth2Cli_ScoreAddPointsReply |-> <<N, N>>,
    Auth2Cli_ScoreTransferPointsReply |-> <<N, N>>,
    Auth2Cli_ScoreSetPointsReply |-> <<N, N>>,
    Auth2Cli_ScoreGetRanksReply |-> <<N, N, N, D, U>>,
    Auth2Cli_PropagateBuffer |-> <<N, N, D>>,
    Auth2Cli_ScoreGetHighScoresReply |-> <<N, N, N, U, D>>,
    Auth2Cli_ServerCaps |-> <<N, D>> ]

\* pnGameClient.
GameHandlers ==
  [ Game2Cli_PingReply |-> <<N>>, Game2Cli_JoinAgeReply |-> <<N, N>>,
    Game2Cli_PropagateBuffer |-> <<N, N, D>>,
    Game2Cli_GameMgrMsg |-> <<U, U>> ]

\* pnGameClient, requests.
GameRequests ==
  [ Cli2Game_PingRequest |-> <<N>>, Cli2Game_JoinAgeRequest |-> <<N, N, D, N>>,
    Cli2Game_PropagateBuffer |-> <<N, N, D>> ]

\* pnGateKeeperClient.
GateKeeperHandlers ==
  [ GateKeeper2Cli_PingReply |-> <<N, N, N, U>>,
    GateKeeper2Cli_FileSrvIpAddressReply |-> <<N, T>>,
    GateKeeper2Cli_AuthSrvIpAddressReply |-> <<N, T>> ]

\* pnGateKeeperClient, requests.
GateKeeperRequests ==
  [ Cli2GateKeeper_PingRequest |-> <<N, N, N, D>>,
    Cli2GateKeeper_FileSrvIpAddressRequest |-> <<N, N>>,
    Cli2GateKeeper_AuthSrvIpAddressRequest |-> <<N>> ]

-----------------------------------------------------------------------------

MessageFields ==
  AccountRequestFields @@ VaultRequestFields @@ LaterRequestFields @@
  AccountReplyFields @@ VaultReplyFields @@ LaterReplyFields @@ GameFields @@
  GateKeeperFields

MessageUses ==
  AccountRequests @@ PlayerRequests @@ VaultRequests @@
  FileAndScoreRequests @@ LaterRequests @@ AccountAndVaultHandlers @@
  FileAndScoreHandlers @@ GameHandlers @@ GameRequests @@
  GateKeeperHandlers @@ GateKeeperRequests
=============================================================================

SPECIFICATION Spec
CONSTANTS
  FrameIds = {258}
  CmdIds <- MCCmdIds
  Devices = {65539}
  Datas <- MCDatas
  Replies <- MCReplies
  Bursts <- MCBursts
  Followers <- MCFollowers
  Names = {"reboot"}
INVARIANTS
  CrcIsCcitt
  ReplyAccepted
PROPERTIES
  ParsedIsSent
  DamageRefused
CHECK_DEADLOCK FALSE

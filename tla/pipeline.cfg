CONSTANTS
    MaxTurns = 2
    MaxEvents = 3
    Requests = {r1, r2}
    Configured = {"transfer_call", "hangup_call", "play_audio_file"}
SPECIFICATION PipelineSpec
INVARIANTS PipelineTypeOK TurnMeasured CountsNested TransferSound
PROPERTIES ToolAnswered
CHECK_DEADLOCK FALSE

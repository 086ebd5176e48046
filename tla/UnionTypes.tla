------------------------------ MODULE UnionTypes ------------------------------
(***************************************************************************)
(* The discriminated unions of acp/types_gen.go.  In a union the fields of *)
(* all variants share one struct, so a key may be decoded by a rule of its *)
(* variant, and MarshalJSON writes the keys that the variant requires.     *)
(* The tag "" is a message without a discriminator and "?" one that names  *)
(* no known variant.                                                       *)
(***************************************************************************)
EXTENDS ObjectTypes

AuthMethod ==
    Union(
        Metadata @@ Optional("slice", {"args"})
        @@ Lenient("ptr", {"description"}) @@ Optional("map", {"env"})
        @@ Always("scalar", {"id", "name"}), Nothing,
        Each({"", "terminal"}, {}), {"id", "name"})

ContentBlockFields ==
    Metadata @@ Lenient("ptr", {"annotations", "description", "size", "title"})
    @@ Optional("scalar", {"data", "name", "text"})
    @@ Optional("ptr", {"mimeType", "uri"})
    @@ Fields("struct", "zero", Direct, {"resource"})

ContentBlockNeeds ==
    Each({"text"}, {"text"}) @@ Each({"audio", "image"}, {"data", "mimeType"})
    @@ Each({"resource_link"}, {"name", "uri"})
    @@ Each({"resource"}, {"resource"})

ContentBlockRules ==
    ("mimeType" :> (
        Each({"audio", "image"}, Temp("scalar"))
        @@ Each({"resource_link"}, LaxTemp("ptr"))))
    @@ ("uri" :> (
           Each({"image"}, LaxTemp("ptr"))
           @@ Each({"resource_link"}, Temp("scalar"))))

ContentBlock ==
    Union(ContentBlockFields, ContentBlockRules, ContentBlockNeeds, {})

CreateElicitationRequest ==
    Union(
        Metadata @@ Optional("scalar", {"elicitationId", "sessionId", "url"})
        @@ Always("scalar", {"message"}) @@ Optional("raw", {"requestId"})
        @@ Fields("struct", "zero", Direct, {"requestedSchema"})
        @@ Lenient("ptr", {"toolCallId"}), Nothing,
        Each({"form"}, {"requestedSchema"})
        @@ Each({"url"}, {"elicitationId", "url"}) @@ Each({"?"}, {}),
        {"message"})

CreateElicitationResponse ==
    Union(Metadata @@ Optional("ptr", {"content"}), Nothing,
        Each({"?", "accept", "cancel", "decline"}, {}), {})

ElicitationPropertySchemaFields ==
    Metadata @@ Optional("any", {"default", "maximum", "minimum"})
    @@ Lenient("ptr", {"description", "title"})
    @@ Optional("ptrslice", {"enum", "oneOf"})
    @@ Optional("ptr",
           {"format", "maxItems", "maxLength", "minItems", "minLength",
            "pattern"})
    @@ Fields("struct", "zero", Direct, {"items"})

ElicitationPropertySchemaNeeds ==
    Each({"?", "boolean", "integer", "number", "string"}, {})
    @@ Each({"array"}, {"items"})

ElicitationPropertySchemaRules ==
    ("default" :> (
        Each({"boolean", "integer", "number", "string"}, LaxTemp("ptr"))
        @@ Each({"array"}, Items("ptrslice"))))

ElicitationPropertySchema ==
    Union(ElicitationPropertySchemaFields, ElicitationPropertySchemaRules,
        ElicitationPropertySchemaNeeds, {})

IdleStateUpdate ==
    Union(Metadata @@ Lenient("ptr", {"error", "usage"}), Nothing,
        Each(
            {"", "?", "cancelled", "end_turn", "error", "max_tokens",
             "max_turn_requests", "refusal"}, {}), {})

McpServerFields ==
    Metadata @@ Optional("slice", {"args", "env", "headers"})
    @@ Optional("scalar", {"command", "serverId", "url"})
    @@ Always("scalar", {"name"})

McpServerNeeds ==
    Each({"http", "sse"}, {"headers", "url"}) @@ Each({"acp"}, {"serverId"})
    @@ Each({""}, {"args", "command", "env"})

McpServer == Union(McpServerFields, Nothing, McpServerNeeds, {"name"})

MultiSelectItems ==
    Union(Metadata @@ Optional("slice", {"anyOf", "enum"}), Nothing,
        Each({"string"}, {"enum"}) @@ Each({"?"}, {}) @@ Each({""}, {"anyOf"}),
        {})

PlanUpdateContent ==
    Union(
        Metadata @@ Optional("scalar", {"content", "uri"})
        @@ ItemWise("slice", "empty", {"entries"})
        @@ Always("scalar", {"planId"}), Nothing,
        Each({"items"}, {"entries"}) @@ Each({"file"}, {"uri"})
        @@ Each({"markdown"}, {"content"}), {"planId"})

RequestPermissionOutcome ==
    Union(Metadata @@ Optional("scalar", {"optionId"}), Nothing,
        Each({"cancelled"}, {}) @@ Each({"selected"}, {"optionId"}), {})

SessionConfigOption ==
    Union(
        Metadata @@ Lenient("ptr", {"category", "description"})
        @@ Always("any", {"currentValue"}) @@ Always("scalar", {"id", "name"})
        @@ Fields("slice", "zero", Direct, {"options"}), Nothing,
        Each({"select"}, {"options"}) @@ Each({"boolean"}, {}),
        {"currentValue", "id", "name"})

SessionUpdateFields ==
    Metadata @@ Optional("ptrslice", {"additionalDirectories", "locations"})
    @@ ItemWise("slice", "empty",
           {"availableCommands", "configOptions", "entries"})
    @@ Optional("ptr",
           {"capabilities", "cwd", "description", "kind", "messageId",
            "recipientMessageId", "recipientSessionId", "senderMessageId",
            "senderSessionId", "state", "status", "title"})
    @@ Optional("scalar",
           {"compactionId", "currentModeId", "planId", "sessionId", "severity",
            "size", "toolCallId", "used"})
    @@ Fields("any", "zero", Direct, {"content"})
    @@ Lenient("ptr", {"cost", "error", "name", "updatedAt"})
    @@ Fields("struct", "zero", Direct, {"plan"})
    @@ Lenient("any", {"rawInput", "rawOutput"})
    @@ ItemWise("ptrslice", "empty", {"summary"})

MetaRules ==
    ("_meta" :> (
        Each(
            {"agent_message_chunk", "agent_thought_chunk",
             "available_commands_update", "compaction_summary_chunk",
             "compaction_update", "config_option_update", "current_mode_update",
             "notice", "plan", "plan_removed", "plan_update",
             "session_info_update", "session_message_chunk", "tool_call",
             "tool_call_update", "usage_update", "user_message_chunk"},
            Temp("map"))
        @@ Each({"session_message", "subagent_update"}, Keep(LaxTemp("map")))))

PlaceRules ==
    ("additionalDirectories" :> Each({"subagent_update"},
        Keep(Temp("ptrslice"))))
    @@ ("capabilities" :> Each({"subagent_update"}, Keep(LaxTemp("ptr"))))

ContentRules ==
    ("content" :> (
        Each(
            {"agent_message_chunk", "agent_thought_chunk",
             "compaction_summary_chunk", "session_message_chunk",
             "user_message_chunk"}, Temp("struct"))
        @@ Each({"tool_call"}, Items("slice"))
        @@ Each({"tool_call_update"}, Items("ptrslice"))
        @@ Each({"session_message"}, Keep(Items("ptrslice")))))

CwdRules ==
    ("cwd" :> Each({"subagent_update"}, Keep(Temp("ptr"))))
    @@ ("description" :> (
           Each({"notice"}, LaxTemp("ptr"))
           @@ Each({"subagent_update"}, Keep(LaxTemp("ptr")))))

ToolCallRules ==
    ("kind" :> Each({"tool_call", "tool_call_update"}, Enum))
    @@ ("locations" :> (
           Each({"tool_call"}, Items("slice"))
           @@ Each({"tool_call_update"}, Items("ptrslice"))))

MessageIdRules ==
    ("messageId" :> (
        Each(
            {"agent_message_chunk", "agent_thought_chunk", "user_message_chunk"},
            LaxTemp("ptr"))
        @@ Each({"session_message", "session_message_chunk"}, Temp("scalar"))))

AddressRules ==
    ("recipientMessageId" :> Each({"session_message"}, Keep(LaxTemp("ptr"))))
    @@ ("recipientSessionId" :> Each({"session_message"}, Keep(LaxTemp("ptr"))))
    @@ ("senderMessageId" :> Each({"session_message"}, Keep(LaxTemp("ptr"))))
    @@ ("senderSessionId" :> Each({"session_message"}, Keep(LaxTemp("ptr"))))
    @@ ("state" :> Each({"subagent_update"}, Keep(LaxTemp("ptr"))))

StatusRules ==
    ("status" :> (
        Each({"tool_call", "tool_call_update"}, Enum)
        @@ Each({"compaction_update"}, Temp("scalar"))))

TitleRules ==
    ("title" :> (
        Each({"notice", "tool_call"}, Temp("scalar"))
        @@ Each({"session_info_update", "tool_call_update"}, LaxTemp("ptr"))
        @@ Each({"subagent_update"}, Keep(LaxTemp("ptr")))))

SessionUpdateNeeds ==
    Each({"agent_message_chunk", "agent_thought_chunk", "user_message_chunk"},
        {"content"})
    @@ Each({"tool_call"}, {"title", "toolCallId"})
    @@ Each({"tool_call_update"}, {"toolCallId"}) @@ Each({"plan"}, {"entries"})
    @@ Each({"plan_update"}, {"plan"}) @@ Each({"plan_removed"}, {"planId"})
    @@ Each({"available_commands_update"}, {"availableCommands"})
    @@ Each({"current_mode_update"}, {"currentModeId"})
    @@ Each({"config_option_update"}, {"configOptions"})
    @@ Each({"session_info_update"}, {})
    @@ Each({"usage_update"}, {"size", "used"})
    @@ Each({"notice"}, {"severity", "title"})
    @@ Each({"compaction_update"}, {"compactionId", "status"})
    @@ Each({"compaction_summary_chunk"}, {"compactionId", "content"})
    @@ Each({"subagent_update"}, {"sessionId"})
    @@ Each({"session_message"}, {"messageId"})
    @@ Each({"session_message_chunk"}, {"content", "messageId"})

SessionUpdateNulls ==
    ("subagent_update" :> {"_meta", "additionalDirectories", "capabilities",
                           "cwd", "description", "state", "title"})
    @@ ("session_message" :> {"_meta", "content", "recipientMessageId",
                              "recipientSessionId", "senderMessageId",
                              "senderSessionId"})

SessionUpdateRules ==
    MetaRules @@ PlaceRules @@ ContentRules @@ CwdRules @@ ToolCallRules
    @@ MessageIdRules @@ AddressRules @@ StatusRules @@ TitleRules

SessionUpdate ==
    SendsNulls(
        Union(SessionUpdateFields, SessionUpdateRules, SessionUpdateNeeds, {}),
        SessionUpdateNulls)

SetSessionConfigOptionRequest ==
    Union(
        Metadata @@ Always("scalar", {"configId", "sessionId"})
        @@ Always("any", {"value"}), Nothing, Each({"", "boolean"}, {}),
        {"configId", "sessionId", "value"})

StateUpdate ==
    Union(
        Metadata @@ Lenient("ptr", {"error", "usage"})
        @@ Optional("any", {"stopReason"}), Nothing,
        Each({"?", "idle", "requires_action", "running", "unknown"}, {}), {})

ToolCallContent ==
    Union(
        Metadata @@ Fields("struct", "zero", Direct, {"content"})
        @@ Optional("scalar", {"newText", "path", "terminalId"})
        @@ Lenient("ptr", {"oldText"}), Nothing,
        Each({"content"}, {"content"}) @@ Each({"diff"}, {"newText", "path"})
        @@ Each({"terminal"}, {"terminalId"}), {})

MessageMcpResponse ==
    CarrierUnion(
        Fields("map", "zero", LaxTemp("map"), {"_meta"})
        @@ Fields("any", "empty", Direct, {"result"}) @@ Fields("ptr", "zero", Direct, {"error"}),
        <<"result", "error">>)
=============================================================================

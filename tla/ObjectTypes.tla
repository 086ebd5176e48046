----------------------------- MODULE ObjectTypes -----------------------------
(***************************************************************************)
(* The struct types of acp/types_gen.go that have a MarshalJSON or an      *)
(* UnmarshalJSON method, and those that are a variant of a union: for each *)
(* JSON key its Go kind, its tag and how UnmarshalJSON decodes it, and the *)
(* slices that MarshalJSON never writes as null.                           *)
(***************************************************************************)
EXTENDS GenCode

AgentAuthCapabilities ==
    Object(Metadata @@ Lenient("ptr", {"logout", "status"}))

AgentCapabilities ==
    Object(
        Metadata
        @@ Lenient("ptr",
               {"auth", "mcpCapabilities", "promptCapabilities", "providers",
                "sessionCapabilities"})
        @@ Lenient("scalar", {"loadSession"}))

Annotations ==
    Object(
        Metadata @@ ItemWise("ptrslice", "empty", {"audience"})
        @@ Lenient("ptr", {"lastModified", "priority"}))

AudioContent ==
    Object(
        Metadata @@ Lenient("ptr", {"annotations"})
        @@ Always("scalar", {"data", "mimeType"}))

AuthAccount ==
    Object(
        Metadata @@ Lenient("ptr", {"active", "email", "name", "organization"})
        @@ Always("scalar", {"label"}))

AuthCapabilities == Object(Metadata @@ Lenient("scalar", {"terminal"}))

AuthMethodAgent ==
    Object(
        Metadata @@ Lenient("ptr", {"description"})
        @@ Always("scalar", {"id", "name"}))

AuthMethodTerminal ==
    Object(
        Metadata @@ Optional("slice", {"args"})
        @@ Lenient("ptr", {"description"}) @@ Optional("map", {"env"})
        @@ Always("scalar", {"id", "name"}))

AuthStatusResponse ==
    Object(
        Metadata @@ ItemWise("slice", "empty", {"accounts"})
        @@ Always("scalar", {"state"}))

AuthStatusUpdateNotification ==
    Object(
        Metadata @@ ItemWise("slice", "empty", {"accounts"})
        @@ Always("scalar", {"state"}))

AvailableCommand ==
    Object(
        Metadata @@ Always("scalar", {"description", "name"})
        @@ Lenient("ptr", {"input"}))

AvailableCommandsUpdate ==
    Lists(Metadata @@ ItemWise("slice", "never", {"availableCommands"}),
        {"availableCommands"})

BlobResourceContents ==
    Object(
        Metadata @@ Always("scalar", {"blob", "uri"})
        @@ Lenient("ptr", {"mimeType"}))

BooleanPropertySchema ==
    Object(Metadata @@ Lenient("ptr", {"default", "description", "title"}))

ClientCapabilities ==
    Object(
        Metadata
        @@ Lenient("ptr",
               {"auth", "elicitation", "fs", "plan", "session", "subagents"})
        @@ Lenient("scalar", {"terminal"}))

ClientSessionCapabilities ==
    Object(
        Metadata @@ Lenient("ptr", {"compaction", "configOptions", "notices"}))

CompactionSummaryChunk ==
    Object(
        Metadata @@ Always("scalar", {"compactionId"})
        @@ Always("struct", {"content"}))

CompactionUpdate ==
    Object(
        Metadata @@ Always("scalar", {"compactionId", "status"})
        @@ Lenient("ptr", {"error"})
        @@ ItemWise("ptrslice", "empty", {"summary"}))

ConfigOptionUpdate ==
    Lists(Metadata @@ ItemWise("slice", "never", {"configOptions"}),
        {"configOptions"})

Content == Object(Metadata @@ Always("struct", {"content"}))

ContentChunk ==
    Object(
        Metadata @@ Always("struct", {"content"})
        @@ Lenient("ptr", {"messageId"}))

CurrentModeUpdate == Object(Metadata @@ Always("scalar", {"currentModeId"}))

Diff ==
    Object(
        Metadata @@ Always("scalar", {"newText", "path"})
        @@ Lenient("ptr", {"oldText"}))

ElicitationCapabilities == Object(Metadata @@ Lenient("ptr", {"form", "url"}))

ElicitationFormMode ==
    BuiltBy(
        Object(
            Optional("ptrraw", {"requestId"})
            @@ Always("struct", {"requestedSchema"})
            @@ Optional("ptr", {"sessionId"}) @@ Lenient("ptr", {"toolCallId"})),
        {<<"", {"requestedSchema", "sessionId"}>>,
         <<"", {"requestId", "requestedSchema"}>>})

ElicitationSchema ==
    Object(
        Metadata @@ Lenient("ptr", {"description", "title"})
        @@ Optional("map", {"properties"}) @@ Optional("ptrslice", {"required"})
        @@ Fields("scalar", "empty", Enum, {"type"}))

ElicitationSessionScope ==
    Object(Always("scalar", {"sessionId"}) @@ Lenient("ptr", {"toolCallId"}))

ElicitationUrlMode ==
    BuiltBy(
        Object(
            Always("scalar", {"elicitationId", "url"})
            @@ Optional("ptrraw", {"requestId"})
            @@ Optional("ptr", {"sessionId"}) @@ Lenient("ptr", {"toolCallId"})),
        {<<"", {"elicitationId", "sessionId", "url"}>>,
         <<"", {"elicitationId", "requestId", "url"}>>})

EmbeddedResource ==
    Object(
        Metadata @@ Lenient("ptr", {"annotations"})
        @@ Always("struct", {"resource"}))

EmbeddedResourceResource ==
    BuiltBy(
        Object(
            Metadata @@ Optional("ptr", {"blob", "text"})
            @@ Lenient("ptr", {"mimeType"}) @@ Always("scalar", {"uri"})),
        {<<"", {"text", "uri"}>>, <<"", {"blob", "uri"}>>})

EnumOption ==
    Object(
        Metadata @@ Always("scalar", {"const", "title"})
        @@ Lenient("ptr", {"description"}))

Error ==
    Object(Always("scalar", {"code", "message"}) @@ Lenient("any", {"data"}))

ErrorStopReason == Object(Lenient("ptr", {"error"}))

FileSystemCapabilities ==
    Object(Metadata @@ Lenient("scalar", {"readTextFile", "writeTextFile"}))

ForkSessionResponse ==
    Object(
        Metadata @@ ItemWise("ptrslice", "empty", {"configOptions"})
        @@ Lenient("ptr", {"modes"}) @@ Always("scalar", {"sessionId"}))

ImageContent ==
    Object(
        Metadata @@ Lenient("ptr", {"annotations", "uri"})
        @@ Always("scalar", {"data", "mimeType"}))

Implementation ==
    Object(
        Metadata @@ Always("scalar", {"name", "version"})
        @@ Lenient("ptr", {"title"}))

InitializeRequest ==
    Object(
        Metadata @@ Lenient("ptr", {"clientCapabilities", "clientInfo"})
        @@ Always("scalar", {"protocolVersion"}))

InitializeResponse ==
    Object(
        Metadata @@ Lenient("ptr", {"agentCapabilities", "agentInfo"})
        @@ ItemWise("slice", "empty", {"authMethods"})
        @@ Always("scalar", {"protocolVersion"}))

IntegerPropertySchema ==
    Object(
        Metadata @@ Lenient("ptr", {"default", "description", "title"})
        @@ Optional("ptr", {"maximum", "minimum"}))

ListProvidersResponse ==
    Lists(Metadata @@ Always("slice", {"providers"}), {"providers"})

ListSessionsResponse ==
    Lists(
        Metadata @@ Lenient("ptr", {"nextCursor"})
        @@ ItemWise("slice", "never", {"sessions"}), {"sessions"})

LoadSessionRequest ==
    Lists(
        Metadata @@ Optional("slice", {"additionalDirectories"})
        @@ Always("scalar", {"cwd", "sessionId"})
        @@ Always("slice", {"mcpServers"}) @@ Optional("ptr", {"systemPrompt"}),
        {"mcpServers"})

LoadSessionResponse ==
    Object(
        Metadata @@ ItemWise("ptrslice", "empty", {"configOptions"})
        @@ Lenient("ptr", {"modes"}))

McpCapabilities == Object(Metadata @@ Lenient("scalar", {"acp", "http", "sse"}))

McpError ==
    NullAware(
        Always("scalar", {"code", "message"})
        @@ Fields("any", "empty", Keep(Temp("any")), {"data"}),
        {"code", "message"})

McpServerAcp == Object(Metadata @@ Always("scalar", {"name", "serverId"}))

McpServerHttp ==
    Lists(
        Metadata @@ Always("slice", {"headers"})
        @@ Always("scalar", {"name", "url"}), {"headers"})

McpServerSse ==
    Lists(
        Metadata @@ Always("slice", {"headers"})
        @@ Always("scalar", {"name", "url"}), {"headers"})

McpServerStdio ==
    Lists(
        Metadata @@ Always("slice", {"args", "env"})
        @@ Always("scalar", {"command", "name"}), {"args", "env"})

MessageMcpNotification ==
    Object(
        Metadata @@ Always("scalar", {"method", "requestId", "serverId"})
        @@ Optional("map", {"params"}))

MessageMcpRequest ==
    Object(
        Metadata @@ Always("scalar", {"method", "requestId", "serverId"})
        @@ Optional("map", {"params"}))

MultiSelectPropertySchema ==
    Object(
        Metadata @@ ItemWise("ptrslice", "empty", {"default"})
        @@ Lenient("ptr", {"description", "title"})
        @@ Always("struct", {"items"})
        @@ Optional("ptr", {"maxItems", "minItems"}))

NewSessionRequest ==
    Lists(
        Metadata @@ Optional("slice", {"additionalDirectories"})
        @@ Always("scalar", {"cwd"}) @@ Always("slice", {"mcpServers"})
        @@ Optional("ptr", {"systemPrompt"}), {"mcpServers"})

NewSessionResponse ==
    Object(
        Metadata @@ ItemWise("ptrslice", "empty", {"configOptions"})
        @@ Lenient("ptr", {"modes"}) @@ Always("scalar", {"sessionId"}))

Notice ==
    Object(
        Metadata @@ Lenient("ptr", {"description"})
        @@ Always("scalar", {"severity", "title"}))

NumberPropertySchema ==
    Object(
        Metadata @@ Lenient("ptr", {"default", "description", "title"})
        @@ Optional("ptr", {"maximum", "minimum"}))

Plan == Lists(Metadata @@ ItemWise("slice", "never", {"entries"}), {"entries"})

PlanFile == Object(Metadata @@ Always("scalar", {"planId", "uri"}))

PlanItems ==
    Lists(
        Metadata @@ ItemWise("slice", "never", {"entries"})
        @@ Always("scalar", {"planId"}), {"entries"})

PlanMarkdown == Object(Metadata @@ Always("scalar", {"content", "planId"}))

PlanRemoved == Object(Metadata @@ Always("scalar", {"planId"}))

PlanUpdate == Object(Metadata @@ Always("struct", {"plan"}))

PromptCapabilities ==
    Object(Metadata @@ Lenient("scalar", {"audio", "embeddedContext", "image"}))

PromptRequest ==
    Lists(
        Metadata @@ Always("slice", {"prompt"})
        @@ Always("scalar", {"sessionId"}), {"prompt"})

PromptResponse ==
    Object(
        Metadata @@ Always("scalar", {"stopReason"})
        @@ Lenient("ptr", {"usage"}))

ProviderInfo ==
    Lists(
        Metadata @@ Optional("ptr", {"current"})
        @@ Always("scalar", {"providerId", "required"})
        @@ ItemWise("slice", "never", {"supported"}), {"supported"})

ProxySuccessorNotification ==
    Object(
        Metadata @@ Always("scalar", {"method"}) @@ Optional("any", {"params"}))

ProxySuccessorRequest ==
    Object(
        Metadata @@ Always("scalar", {"method"}) @@ Optional("any", {"params"}))

RequestPermissionRequest ==
    Lists(
        Metadata @@ Always("slice", {"options"})
        @@ Always("scalar", {"sessionId"}) @@ Always("struct", {"toolCall"}),
        {"options"})

ResourceLink ==
    Object(
        Metadata
        @@ Lenient("ptr",
               {"annotations", "description", "mimeType", "size", "title"})
        @@ Always("scalar", {"name", "uri"}))

ResumeSessionResponse ==
    Object(
        Metadata @@ ItemWise("ptrslice", "empty", {"configOptions"})
        @@ Lenient("ptr", {"modes"}))

SelectedPermissionOutcome == Object(Metadata @@ Always("scalar", {"optionId"}))

SessionCapabilities ==
    Object(
        Metadata
        @@ Lenient("ptr",
               {"additionalDirectories", "archive", "close", "delete", "fork",
                "list", "resume", "status", "systemPrompt", "title"}))

SessionConfigBoolean == Object(Always("scalar", {"currentValue"}))

SessionConfigOptionsCapabilities ==
    Object(Metadata @@ Lenient("ptr", {"boolean"}))

SessionConfigSelect ==
    Lists(Always("scalar", {"currentValue"}) @@ Always("slice", {"options"}),
        {"options"})

SessionConfigSelectGroup ==
    Lists(
        Metadata @@ Always("scalar", {"group", "name"})
        @@ ItemWise("slice", "never", {"options"}), {"options"})

SessionConfigSelectOption ==
    Object(
        Metadata @@ Lenient("ptr", {"description"})
        @@ Always("scalar", {"name", "value"}))

SessionInfo ==
    Object(
        Metadata @@ ItemWise("slice", "empty", {"additionalDirectories"})
        @@ Lenient("ptr", {"archived", "title", "updatedAt"})
        @@ Always("scalar", {"cwd", "sessionId"}))

SessionInfoUpdate == Object(Metadata @@ Lenient("ptr", {"title", "updatedAt"}))

SessionMessage ==
    NullAware(
        Fields("map", "zero", Keep(LaxTemp("map")), {"_meta"})
        @@ Fields("ptrslice", "empty", Keep(Items("ptrslice")), {"content"})
        @@ Always("scalar", {"messageId"})
        @@ Fields("ptr", "empty", Keep(LaxTemp("ptr")),
               {"recipientMessageId", "recipientSessionId", "senderMessageId",
                "senderSessionId"}), {"messageId"})

SessionMessageChunk ==
    Object(
        Metadata @@ Always("struct", {"content"})
        @@ Always("scalar", {"messageId"}))

SessionMode ==
    Object(
        Metadata @@ Lenient("ptr", {"description"})
        @@ Always("scalar", {"id", "name"}))

SessionModeState ==
    Lists(
        Metadata @@ ItemWise("slice", "never", {"availableModes"})
        @@ Always("scalar", {"currentModeId"}), {"availableModes"})

SessionSystemPromptCapabilities == Object(Metadata @@ Lenient("ptr", {"mode"}))

SessionSystemPromptModeCapabilities ==
    Object(Metadata @@ Lenient("ptr", {"override"}))

SetSessionConfigOptionResponse ==
    Lists(Metadata @@ ItemWise("slice", "never", {"configOptions"}),
        {"configOptions"})

StringMultiSelectItems == Lists(Metadata @@ Always("slice", {"enum"}), {"enum"})

StringPropertySchema ==
    Object(
        Metadata @@ Lenient("ptr", {"default", "description", "title"})
        @@ Optional("ptrslice", {"enum", "oneOf"})
        @@ Optional("ptr", {"format", "maxLength", "minLength", "pattern"}))

SubagentSessionCapabilities == Object(Metadata @@ Lenient("ptr", {"cancel"}))

SubagentUpdate ==
    NullAware(
        Fields("map", "zero", Keep(LaxTemp("map")), {"_meta"})
        @@ Fields("ptrslice", "empty", Keep(Temp("ptrslice")),
               {"additionalDirectories"})
        @@ Fields("ptr", "empty", Keep(LaxTemp("ptr")),
               {"capabilities", "description", "state", "title"})
        @@ Fields("ptr", "empty", Keep(Temp("ptr")), {"cwd"})
        @@ Always("scalar", {"sessionId"}), {"sessionId"})

SystemPrompt ==
    Lists(
        Metadata @@ Always("slice", {"content"}) @@ Always("scalar", {"mode"}),
        {"content"})

Terminal == Object(Metadata @@ Always("scalar", {"terminalId"}))

TerminalExitStatus == Object(Metadata @@ Lenient("ptr", {"exitCode", "signal"}))

TerminalOutputResponse ==
    Object(
        Metadata @@ Lenient("ptr", {"exitStatus"})
        @@ Always("scalar", {"output", "truncated"}))

TextContent ==
    Object(
        Metadata @@ Lenient("ptr", {"annotations"})
        @@ Always("scalar", {"text"}))

TextResourceContents ==
    Object(
        Metadata @@ Lenient("ptr", {"mimeType"})
        @@ Always("scalar", {"text", "uri"}))

TitledMultiSelectItems ==
    Lists(Metadata @@ Always("slice", {"anyOf"}), {"anyOf"})

ToolCall ==
    Object(
        Metadata @@ ItemWise("slice", "empty", {"content", "locations"})
        @@ Fields("scalar", "empty", Enum, {"kind", "status"})
        @@ Lenient("ptr", {"name"}) @@ Lenient("any", {"rawInput", "rawOutput"})
        @@ Always("scalar", {"title", "toolCallId"}))

ToolCallLocation ==
    Object(Metadata @@ Lenient("ptr", {"line"}) @@ Always("scalar", {"path"}))

ToolCallUpdate ==
    Object(
        Metadata @@ ItemWise("ptrslice", "empty", {"content", "locations"})
        @@ Fields("ptr", "empty", Enum, {"kind", "status"})
        @@ Lenient("ptr", {"name", "title"})
        @@ Lenient("any", {"rawInput", "rawOutput"})
        @@ Always("scalar", {"toolCallId"}))

Usage ==
    Object(
        Metadata
        @@ Lenient("ptr",
               {"cachedReadTokens", "cachedWriteTokens", "thoughtTokens"})
        @@ Always("scalar", {"inputTokens", "outputTokens", "totalTokens"}))

UsageUpdate ==
    Object(
        Metadata @@ Lenient("ptr", {"cost"})
        @@ Always("scalar", {"size", "used"}))

WaitForTerminalExitResponse ==
    Object(Metadata @@ Lenient("ptr", {"exitCode", "signal"}))
=============================================================================

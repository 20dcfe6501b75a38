\* Headers of up to three forms with a prelude, 64 enums, 10648 macro tables.
\* A walk ends.
SPECIFICATION Spec
CONSTANTS
    int64 = int64
    size = size
    long = long
    unsigned = unsigned
    struct_at = struct_at
    struct_ = struct_
    enum_at = enum_at
    bits64 = bits64
    params = params
    decode = decode
    tensor = tensor
    type = type
    level = level
    init = init
    x = x
    y = y
    z = z
    f32 = f32
    cpu = cpu
    seed = seed
    magic = magic
    api = api
    literal = literal
    LlamaNames = {params, decode}
    RequiredTypes = {tensor, type}
    RequiredFunctions = {init}
    RequiredMembers = {cpu}
    EnumTypes = {type}
    LlamaMembers = {x, y, z}
    ApiLines = {3}
    BySize <- MCBySize
    Unplaced <- MCUnplaced
    Implicit = Implicit
    FunctionLike = FunctionLike
    Raises = Raises
    Inputs <- MCInputs
    MacroNames <- MCMacroNames
    Literals = {literal}
    NonApiMacros = {api}
    TypedMacros = {seed, magic}
INVARIANTS
    TypeOK
    ExportsMatchSnapshot
    LayoutsAreGuarded
    EnumeratorsHaveTheirValues
    ConstantsAreExpanded
CHECK_DEADLOCK FALSE

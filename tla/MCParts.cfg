SPECIFICATION Spec
INVARIANTS DriversTrue WiresTrue ConversionsTrue LuaDataTrue ListsAndLinesTrue
PROPERTIES NoGlitch ProgramsTrue
